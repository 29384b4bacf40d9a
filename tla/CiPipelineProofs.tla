--------------------------- MODULE CiPipelineProofs ---------------------------
(***************************************************************************)
(* The parallel pipeline keeps the promise of PrereqGate for any matrix    *)
(* and any rules, provided that the order of the jobs puts capabilities    *)
(* first, and its record never turns a loss into a pass, in any order. The *)
(* record is that of a local suite unless the plan excludes a cell.        *)
(***************************************************************************)
EXTENDS CiPipeline, SuitePlanProofs, FunctionTheorems

-----------------------------------------------------------------------------
(* Types. An entry of the record is one of finitely many.                  *)
EntryStatuses == Results \cup {"blocked", "missing", "capability-skipped"}

LEMMA EntriesType ==
  ASSUME TypeOK
  PROVE  Entries \subseteq Cells \X EntryStatuses
<1>1. \A c \in Recorded : c \in Cells /\ store[c].envelope \in EntryStatuses
  BY DEF Recorded, TypeOK, Artifact, EntryStatuses
<1>2. \A c \in Unrecorded : c \in Cells
  BY DEF Unrecorded, Expected
<1>3. \A c : (IF action[c] = "capability-skipped" THEN action[c] ELSE "missing")
               \in EntryStatuses
  BY DEF EntryStatuses
<1>4. QED
  BY <1>1, <1>2, <1>3 DEF Entries

LEMMA EntriesAreFinite == ASSUME TypeOK PROVE IsFiniteSet(Entries)
<1>1. IsFiniteSet(EntryStatuses)
  <2>1. \A S, x : IsFiniteSet(S) => IsFiniteSet(S \cup {x})
    BY FS_AddElement
  <2>2. IsFiniteSet({} \cup {"failed"} \cup {"infra-failed"} \cup {"cleanup-failed"}
                      \cup {"passed"} \cup {"blocked"} \cup {"missing"}
                      \cup {"capability-skipped"})
    BY <2>1, FS_EmptySet, Zenon
  <2>3. EntryStatuses =
          {} \cup {"failed"} \cup {"infra-failed"} \cup {"cleanup-failed"}
            \cup {"passed"} \cup {"blocked"} \cup {"missing"}
            \cup {"capability-skipped"}
    BY DEF EntryStatuses, Results, Failures
  <2>4. QED
    BY <2>2, <2>3
<1>2. IsFiniteSet(Cells \X EntryStatuses)
  BY <1>1, PlanAssumption, FS_Product
<1>3. QED
  BY <1>2, EntriesType, FS_Subset

LEMMA ReconstructedType == ASSUME TypeOK PROVE Reconstructed \in RecordState
<1>1. \A S : Count(S) \in Nat
  <2> TAKE S
  <2>1. IsFiniteSet({entry \in Entries : entry[2] \in S})
    BY EntriesAreFinite, FS_Subset
  <2>2. QED
    BY <2>1, FS_CardinalityType DEF Count
<1>2. Reconstructed.counts \in [DOMAIN NoCounts -> Nat]
  BY <1>1 DEF Reconstructed, NoCounts
<1>3. OverallStatus({entry[2] : entry \in Entries}) \in
        {"running", "passed", "failed", "blocked", "missing", "unknown"}
  BY OverallStatusType
<1>4. Entries \in SUBSET (Cells \X EntryStatuses)
  BY EntriesType
<1> HIDE DEF Entries
<1>5. QED
  BY <1>2, <1>3, <1>4 DEF Reconstructed, RecordState, EntryStatuses

LEMMA TypeInit == Init => TypeOK
BY DEF Init, TypeOK, Steps, Nothing, Artifact, NoRecord, NoCounts, RecordState

LEMMA BeginRunType ==
  ASSUME TypeOK, NEW c \in Cells, BeginRun(c)
  PROVE  job' \in [Cells -> Steps] /\ disk' \in [Cells -> Artifact]
BY DEF TypeOK, BeginRun, Steps, Artifact

LEMMA TypeStep == TypeOK /\ [Next]_vars => TypeOK'
<1> SUFFICES ASSUME TypeOK, [Next]_vars PROVE TypeOK'
  OBVIOUS
<1>1. CASE Setup
  BY <1>1 DEF Setup, TypeOK
<1>2. ASSUME NEW f \in Flows, SkipWave(f) PROVE TypeOK'
  BY <1>2 DEF SkipWave, TypeOK, Steps, Wave, Runnable
<1>3. ASSUME NEW c \in Cells, StartJob(c) PROVE TypeOK'
  <2>1. CASE BeginRun(c)
    BY <1>3, <2>1, BeginRunType DEF StartJob, TypeOK
  <2>2. CASE job' = [job EXCEPT ![c] = "download"] /\ UNCHANGED disk
    BY <1>3, <2>2 DEF StartJob, TypeOK, Steps
  <2>3. QED
    BY <1>3, <2>1, <2>2 DEF StartJob
<1>4. ASSUME NEW c \in Cells, Download(c) PROVE TypeOK'
  <2>1. Available(c) \subseteq Cells
    BY DEF Available, DependsOn, Runnable
  <2>2. PICK got \in SUBSET Cells :
          /\ seen' = [seen EXCEPT ![c] = got]
          /\ lost' \in {lost, lost \cup {c}}
    BY <1>4, <2>1 DEF Download
  <2>3. QED
    BY <1>4, <2>2 DEF Download, TypeOK, Steps
<1>5. ASSUME NEW c \in Cells, CheckPrereqs(c) PROVE TypeOK'
  <2>1. CASE BeginRun(c)
    BY <1>5, <2>1, BeginRunType DEF CheckPrereqs, TypeOK
  <2>2. CASE job' = [job EXCEPT ![c] = "blocking"] /\ UNCHANGED disk
    BY <1>5, <2>2 DEF CheckPrereqs, TypeOK, Steps
  <2>3. QED
    BY <1>5, <2>1, <2>2 DEF CheckPrereqs
<1>6. ASSUME NEW c \in Cells, EmitBlocked(c) PROVE TypeOK'
  <2>1. PICK e \in {"blocked", "none"} :
          disk' = [disk EXCEPT ![c] = [result |-> "blocked", envelope |-> e]]
    BY <1>6 DEF EmitBlocked, Envelopes
  <2>2. QED
    BY <1>6, <2>1 DEF EmitBlocked, TypeOK, Steps, Artifact
<1>7. ASSUME NEW c \in Cells, RunEnds(c) PROVE TypeOK'
  <2>1. PICK r \in Results, e \in Results \cup {"none"} :
          disk' = [disk EXCEPT ![c] = [result |-> r, envelope |-> e]]
    BY <1>7 DEF RunEnds, Envelopes
  <2>2. red' \subseteq Cells
    BY <1>7 DEF RunEnds, TypeOK
  <2>3. QED
    BY <1>7, <2>1, <2>2 DEF RunEnds, TypeOK, Steps, Artifact
<1>8. ASSUME NEW c \in Cells, Break(c) PROVE TypeOK'
  BY <1>8 DEF Break, JobFails, TypeOK, Steps
<1>9. ASSUME NEW c \in Cells, Upload(c) PROVE TypeOK'
  BY <1>9 DEF Upload, JobFails, TypeOK, Steps
<1>10. ASSUME NEW c \in Cells, Lose(c) PROVE TypeOK'
  BY <1>10 DEF Lose, JobFails, TypeOK, Steps
<1>11. CASE Aggregate
  <2>1. record' \in RecordState
    BY <1>11, ReconstructedType DEF Aggregate, TypeOK
  <2>2. QED
    BY <1>11, <2>1 DEF Aggregate, TypeOK
<1>12. CASE UNCHANGED vars
  BY <1>12 DEF vars, TypeOK
<1>13. QED
  BY <1>1, <1>2, <1>3, <1>4, <1>5, <1>6, <1>7, <1>8, <1>9, <1>10, <1>11, <1>12
     DEF Next, CellStep

(* Every step keeps the steps of the jobs, the artifacts and the record    *)
(* within their types (ci-run-cell.yml.tpl, aggregate.nu).                 *)
THEOREM TypeCorrect == Spec => []TypeOK
<1>1. QED
  BY TypeInit, TypeStep, PTL DEF Spec

-----------------------------------------------------------------------------
(* The invariant behind the refinement. What a cell has at each step of    *)
(* its job:                                                                *)
JobOK(c) ==
  /\ job[c] \in {"waiting", "download", "check", "blocking"} => disk[c] = Nothing
  /\ job[c] = "running" => disk[c].result = "running"
  /\ job[c] # "ended" => store[c] = Nothing
  /\ store[c] \in {Nothing, disk[c]}
  /\ disk[c].envelope \in {"none", disk[c].result}

(* All it depends on has ended before it starts, and unless lost it has an *)
(* outcome and is in the store when it has ended.                          *)
DependenciesEnded(c) ==
  job[c] # "waiting" => \A d \in DependsOn(c, action) : job[d] = "ended"

NotLost(c) ==
  c \notin lost =>
    /\ job[c] \in {"upload", "ended"} => disk[c].result \in Results \cup {"blocked"}
    /\ job[c] = "ended" => store[c] = disk[c]
    /\ job[c] = "check" => DependsOn(c, action) \subseteq seen[c] \cup lost

(* A cell is being blocked because of another.                             *)
HasCause(c) ==
  job[c] = "blocking" =>
    \E d \in DependsOn(c, action) :
      {c, d} \cap lost # {} \/ (job[d] = "ended" /\ disk[d].result # "passed")

CellOK(c) == JobOK(c) /\ DependenciesEnded(c) /\ NotLost(c) /\ HasCause(c)

Inv == TypeOK /\ \A c \in Cells : CellOK(c)

LEMMA DependsOnCells == \A c \in Cells : DependsOn(c, action) \subseteq Cells
BY DEF DependsOn, Runnable

LEMMA InvInit == Init => Inv
<1> SUFFICES ASSUME Init PROVE Inv
  OBVIOUS
<1>1. \A c \in Cells : CellOK(c)
  BY DEF Init, CellOK, JobOK, DependenciesEnded, NotLost, HasCause, Nothing
<1>2. QED
  BY <1>1, TypeInit DEF Inv

(* A wave starts when all its cells depend on has ended.                   *)
LEMMA DependenciesHaveEnded ==
  ASSUME CapabilitiesFirst, NEW c \in Cells, WaveMayStart(CellOf[c].flow),
         NEW d \in DependsOn(c, action)
  PROVE  job[d] = "ended"
<1>1. /\ d \in Runnable(action)
      /\ FlowPos(CellOf[d].flow) < FlowPos(CellOf[c].flow)
  BY DependenciesComeFirst
<1>2. \A e \in Wave(CellOf[c].flow) : Before(d, e)
  BY <1>1 DEF Wave, Before
<1>3. d \in EarlierCells(CellOf[c].flow)
  BY <1>1, <1>2 DEF EarlierCells, WaveBefore, Wave
<1>4. QED
  BY <1>3 DEF WaveMayStart

(* A step of the job of c leaves the other cells as they are, and a job    *)
(* that has ended is not taken up again.                                   *)
OnlyMoves(c) ==
  /\ UNCHANGED action
  /\ job[c] # "ended"
  /\ lost' \in {lost, lost \cup {c}}
  /\ \A d \in Cells : d # c =>
       /\ job'[d] = job[d] /\ disk'[d] = disk[d]
       /\ store'[d] = store[d] /\ seen'[d] = seen[d]

LEMMA CellMoves ==
  ASSUME TypeOK, NEW c \in Cells, CellStep(c)
  PROVE  OnlyMoves(c)
BY DEF TypeOK, CellStep, StartJob, MayStart, BeginRun, Download, CheckPrereqs,
       EmitBlocked, RunEnds, Break, Upload, Lose, JobFails, OnlyMoves

LEMMA JobStaysOK ==
  ASSUME TypeOK, NEW c \in Cells, CellStep(c), NEW e \in Cells, JobOK(e)
  PROVE  JobOK(e)'
<1>1. CASE e # c
  BY <1>1, CellMoves DEF OnlyMoves, JobOK
<1>2. CASE e = c
  <2>1. CASE StartJob(c) \/ CheckPrereqs(c)
    <3>1. /\ job[c] \in {"waiting", "check"} /\ store' = store
          /\ \/ job'[c] \in {"download", "blocking"} /\ disk' = disk
             \/ job'[c] = "running" /\ disk'[c] = [disk[c] EXCEPT !.result = "running"]
      BY <2>1 DEF StartJob, MayStart, CheckPrereqs, BeginRun, TypeOK
    <3>2. disk[c] = Nothing /\ store[c] = Nothing
      BY <1>2, <3>1 DEF JobOK
    <3>3. QED
      BY <1>2, <3>1, <3>2 DEF JobOK, Nothing
  <2>2. CASE Download(c)
    BY <1>2, <2>2 DEF Download, TypeOK, JobOK
  <2>3. CASE EmitBlocked(c) \/ RunEnds(c)
    <3>1. /\ job[c] \in {"blocking", "running"} /\ job'[c] = "upload" /\ store' = store
          /\ disk'[c].envelope \in {"none", disk'[c].result}
      BY <2>3 DEF EmitBlocked, RunEnds, Envelopes, TypeOK
    <3>2. QED
      BY <1>2, <3>1 DEF JobOK
  <2>4. CASE Break(c) \/ Lose(c)
    BY <1>2, <2>4 DEF Break, MayStart, Lose, TypeOK, JobOK
  <2>5. CASE Upload(c)
    <3>1. /\ job[c] = "upload" /\ job'[c] = "ended" /\ disk' = disk
          /\ store'[c] \in {disk[c], store[c]}
      BY <2>5 DEF Upload, TypeOK
    <3>2. QED
      BY <1>2, <3>1 DEF JobOK
  <2>6. QED
    BY <2>1, <2>2, <2>3, <2>4, <2>5 DEF CellStep
<1>3. QED
  BY <1>1, <1>2

LEMMA OthersStayOK ==
  ASSUME Inv, NEW c \in Cells, OnlyMoves(c), NEW e \in Cells, e # c
  PROVE  CellOK(e)'
<1>1. /\ DependsOn(e, action)' = DependsOn(e, action)
      /\ DependsOn(e, action) \subseteq Cells
  BY DependsOnCells DEF OnlyMoves, DependsOn, Runnable
<1>2. \A d \in Cells : job[d] = "ended" => job'[d] = "ended" /\ disk'[d] = disk[d]
  BY DEF OnlyMoves
<1>3. CellOK(e)
  BY DEF Inv
<1>4. JobOK(e)'
  BY <1>3 DEF CellOK, JobOK, OnlyMoves
<1>5. DependenciesEnded(e)' /\ NotLost(e)'
  BY <1>1, <1>2, <1>3 DEF CellOK, DependenciesEnded, NotLost, OnlyMoves
<1>6. HasCause(e)'
  BY <1>1, <1>2, <1>3 DEF CellOK, HasCause, OnlyMoves
<1>7. QED
  BY <1>4, <1>5, <1>6 DEF CellOK

(* The cell whose job moves.                                               *)
LEMMA TheCellStaysOK ==
  ASSUME CapabilitiesFirst, Inv, NEW c \in Cells, CellStep(c)
  PROVE  CellOK(c)'
<1>1. OnlyMoves(c) /\ CellOK(c) /\ TypeOK
  BY CellMoves DEF Inv
<1>2. JobOK(c)'
  BY <1>1, JobStaysOK DEF CellOK
<1>3. /\ DependsOn(c, action)' = DependsOn(c, action)
      /\ DependsOn(c, action) \subseteq Cells
  BY <1>1, DependsOnCells DEF OnlyMoves, DependsOn, Runnable
<1>4. \A d \in Cells : job[d] = "ended" => job'[d] = "ended" /\ disk'[d] = disk[d]
  BY <1>1 DEF OnlyMoves
<1>5. \A d \in DependsOn(c, action) : job[d] = "ended"
  <2>1. CASE MayStart(c)
    BY <2>1, DependenciesHaveEnded DEF MayStart
  <2>2. CASE job[c] # "waiting"
    BY <1>1, <2>2 DEF CellOK, DependenciesEnded
  <2>3. MayStart(c) \/ job[c] # "waiting"
    BY DEF CellStep, StartJob, Download, CheckPrereqs, EmitBlocked, RunEnds, Break,
           Upload, Lose
  <2>4. QED
    BY <2>1, <2>2, <2>3
<1>6. DependenciesEnded(c)'
  BY <1>3, <1>4, <1>5 DEF DependenciesEnded
<1>7. \A d \in DependsOn(c, action) \ lost :
        store[d] = disk[d] /\ disk[d].result \in Results \cup {"blocked"}
  BY <1>3, <1>5 DEF Inv, CellOK, NotLost
<1>8. CASE StartJob(c)
  <2>1. job'[c] \in {"running", "download"}
    BY <1>1, <1>8 DEF StartJob, BeginRun, TypeOK
  <2>2. QED
    BY <1>2, <1>6, <2>1 DEF CellOK, NotLost, HasCause
<1>9. CASE Download(c)
  <2>1. /\ job'[c] = "check" /\ lost \subseteq lost'
        /\ c \notin lost' => seen'[c] = Available(c)
    BY <1>1, <1>9 DEF Download, TypeOK
  <2>2. DependsOn(c, action) \ lost \subseteq Available(c)
    BY <1>7 DEF Available, Nothing, Results, Failures
  <2>3. NotLost(c)'
    BY <1>3, <2>1, <2>2 DEF NotLost
  <2>4. QED
    BY <1>2, <1>6, <2>1, <2>3 DEF CellOK, HasCause
<1>10. CASE CheckPrereqs(c)
  <2>1. /\ job[c] = "check" /\ lost' = lost
        /\ (IsBlocked(c) /\ job'[c] = "blocking") \/ job'[c] = "running"
    BY <1>1, <1>10 DEF CheckPrereqs, BeginRun, TypeOK
  <2>2. HasCause(c)'
    <3> SUFFICES ASSUME IsBlocked(c)
                 PROVE  \E d \in DependsOn(c, action) :
                          \/ {c, d} \cap lost # {}
                          \/ job'[d] = "ended" /\ disk'[d].result # "passed"
      BY <1>3, <2>1 DEF HasCause
    <3>1. PICK d \in DependsOn(c, action) :
            d \notin seen[c] \/ store[d].result # "passed"
      BY DEF IsBlocked
    <3>2. CASE c \notin lost /\ d \notin lost
      <4>1. d \in seen[c]
        BY <1>1, <2>1, <3>2 DEF CellOK, NotLost
      <4>2. d \in Cells /\ job[d] = "ended" /\ store[d] = disk[d]
        BY <1>3, <1>5, <1>7, <3>2
      <4>3. QED
        BY <1>4, <3>1, <4>1, <4>2
    <3>3. QED
      BY <3>1, <3>2
  <2>3. NotLost(c)'
    BY <2>1 DEF NotLost
  <2>4. QED
    BY <1>2, <1>6, <2>2, <2>3 DEF CellOK
<1>11. CASE EmitBlocked(c) \/ RunEnds(c)
  <2>1. job'[c] = "upload" /\ disk'[c].result \in Results \cup {"blocked"}
    BY <1>1, <1>11 DEF EmitBlocked, RunEnds, TypeOK
  <2>2. QED
    BY <1>2, <1>6, <2>1 DEF CellOK, NotLost, HasCause
<1>12. CASE Break(c) \/ Lose(c)
  <2>1. job'[c] \in {"upload", "ended"} /\ c \in lost'
    BY <1>1, <1>12 DEF Break, Lose, JobFails, TypeOK
  <2>2. QED
    BY <1>2, <1>6, <2>1 DEF CellOK, NotLost, HasCause
<1>13. CASE Upload(c)
  <2>1. /\ job[c] = "upload" /\ job'[c] = "ended" /\ disk' = disk
        /\ \/ store'[c] = disk[c] /\ lost' = lost
           \/ c \in lost'
    BY <1>1, <1>13 DEF Upload, JobFails, TypeOK
  <2>2. NotLost(c)'
    BY <1>1, <2>1 DEF CellOK, NotLost
  <2>3. QED
    BY <1>2, <1>6, <2>1, <2>2 DEF CellOK, HasCause
<1>14. QED
  BY <1>8, <1>9, <1>10, <1>11, <1>12, <1>13 DEF CellStep

LEMMA InvStep == ASSUME CapabilitiesFirst, Inv, [Next]_vars PROVE Inv'
<1>1. TypeOK'
  BY TypeStep DEF Inv
<1>2. ASSUME UNCHANGED <<action, job, seen, disk, store, lost>>
      PROVE  \A c \in Cells : CellOK(c)'
  BY <1>2 DEF Inv, CellOK, JobOK, DependenciesEnded, NotLost, HasCause, DependsOn,
              Runnable
<1>3. ASSUME NEW f \in Flows, SkipWave(f)
      PROVE  \A c \in Cells : CellOK(c)'
  <2> SUFFICES ASSUME NEW c \in Cells PROVE CellOK(c)'
    OBVIOUS
  <2>1. /\ UNCHANGED <<action, seen, disk, store>> /\ lost \subseteq lost'
        /\ \A d \in Cells : job[d] = "ended" => job'[d] = "ended"
        /\ \/ job'[c] = job[c]
           \/ /\ job[c] = "waiting" /\ job'[c] = "ended" /\ c \in lost'
              /\ WaveMayStart(CellOf[c].flow)
    BY <1>3 DEF SkipWave, Wave
  <2>2. /\ CellOK(c) /\ DependsOn(c, action)' = DependsOn(c, action)
        /\ DependsOn(c, action) \subseteq Cells
    BY <2>1, DependsOnCells DEF Inv, DependsOn, Runnable
  <2>3. DependenciesEnded(c)'
    BY <2>1, <2>2, DependenciesHaveEnded DEF CellOK, DependenciesEnded
  <2>4. JobOK(c)' /\ NotLost(c)' /\ HasCause(c)'
    BY <2>1, <2>2 DEF CellOK, JobOK, NotLost, HasCause
  <2>5. QED
    BY <2>3, <2>4 DEF CellOK
<1>4. ASSUME NEW c \in Cells, CellStep(c)
      PROVE  \A e \in Cells : CellOK(e)'
  <2>1. TypeOK
    BY DEF Inv
  <2>2. OnlyMoves(c)
    BY <1>4, <2>1, CellMoves
  <2>3. QED
    BY <1>4, <2>2, TheCellStaysOK, OthersStayOK
<1>5. CASE Setup \/ Aggregate \/ UNCHANGED vars
  BY <1>1, <1>2, <1>5 DEF Setup, Aggregate, vars, Inv
<1>6. QED
  BY <1>1, <1>3, <1>4, <1>5 DEF Next, Inv

-----------------------------------------------------------------------------
(* The refinement, step by step.                                           *)
LEMMA GateDepsType == GateDeps \in [Cells -> SUBSET Cells]
BY DependsOnCells DEF GateDeps

LEMMA GateInit == Init => Gate!Init
<1> SUFFICES ASSUME Init PROVE Gate!Init
  OBVIOUS
<1>1. GateStatus = [c \in Cells |-> "pending"] /\ lost = {}
  BY DEF Init, GateStatus, Nothing
<1>2. QED
  BY <1>1, GateDepsType DEF Gate!Init

(* What a cell looks like, before and after a step.                        *)
LooksLike(c) ==
  /\ job[c] = "running" => GateStatus[c] = "running"
  /\ job[c] # "running" =>
       /\ disk[c].result = "none" => GateStatus[c] = "pending"
       /\ disk[c].result \in {"passed", "blocked"} => GateStatus[c] = disk[c].result
       /\ disk[c].result \in Failures \cup {"running"} => GateStatus[c] = "failed"

LEMMA GateStatusOf == \A c \in Cells : LooksLike(c) /\ LooksLike(c)'
BY DEF LooksLike, GateStatus, Failures

LEMMA GateSame ==
  ASSUME Inv, NEW c \in Cells, OnlyMoves(c), NEW e \in Cells, e # c
  PROVE  GateStatus'[e] = GateStatus[e]
BY DEF GateStatus, OnlyMoves

LEMMA GateBecomes ==
  ASSUME Inv, NEW c \in Cells, OnlyMoves(c), NEW s, GateStatus'[c] = s
  PROVE  Gate!Becomes(c, s) /\ UNCHANGED GateDeps
<1>1. GateStatus' = [GateStatus EXCEPT ![c] = s]
  <2>1. /\ GateStatus' = [d \in Cells |-> GateStatus'[d]]
        /\ GateStatus = [d \in Cells |-> GateStatus[d]]
    BY DEF GateStatus
  <2>2. QED
    BY <2>1, GateSame
<1>2. UNCHANGED GateDeps
  BY DEF GateDeps, DependsOn, Runnable, OnlyMoves
<1>3. QED
  BY <1>1, <1>2 DEF Gate!Becomes

LEMMA GateStutters ==
  ASSUME UNCHANGED action, \A c \in Cells : GateStatus'[c] = GateStatus[c]
  PROVE  UNCHANGED <<GateStatus, GateDeps>>
<1>1. /\ GateStatus' = [d \in Cells |-> GateStatus'[d]]
      /\ GateStatus = [d \in Cells |-> GateStatus[d]]
  BY DEF GateStatus
<1>2. UNCHANGED GateDeps
  BY DEF GateDeps, DependsOn, Runnable
<1>3. QED
  BY <1>1, <1>2

LEMMA GateCellStep ==
  ASSUME CapabilitiesFirst, Inv, NEW c \in Cells, CellStep(c)
  PROVE  Gate!Next
<1>1. OnlyMoves(c) /\ CellOK(c) /\ TypeOK
  BY CellMoves DEF Inv
<1>2. DependsOn(c, action) \subseteq Cells
  BY DependsOnCells
<1>3. LooksLike(c) /\ LooksLike(c)'
  BY GateStatusOf
<1>0. lost \subseteq lost' /\ lost' \subseteq Cells
  BY <1>1 DEF OnlyMoves, TypeOK
<1>4. ASSUME GateStatus'[c] = GateStatus[c] PROVE Gate!Next
  BY <1>0, <1>1, <1>4, GateSame, GateStutters DEF OnlyMoves, Gate!Next
<1>5. ASSUME job[c] # "running", disk[c] = Nothing, BeginRun(c),
             \A d \in DependsOn(c, action) : d \in seen[c] /\ store[d].result = "passed"
      PROVE  Gate!Next
  <2>1. GateStatus[c] = "pending"
    BY <1>3, <1>5 DEF LooksLike, Nothing
  <2>2. GateStatus'[c] = "running"
    BY <1>1, <1>3, <1>5 DEF LooksLike, BeginRun, TypeOK
  <2>3. \A d \in DependsOn(c, action) : GateStatus[d] = "passed"
    <3> SUFFICES ASSUME NEW d \in DependsOn(c, action) PROVE GateStatus[d] = "passed"
      OBVIOUS
    <3>1. d \in Cells /\ CellOK(d) /\ store[d].result = "passed"
      BY <1>2, <1>5 DEF Inv
    <3>2. store[d] = disk[d] /\ job[d] = "ended"
      BY <3>1 DEF CellOK, JobOK, Nothing
    <3>3. QED
      BY <3>1, <3>2, GateStatusOf DEF LooksLike
  <2>4. QED
    BY <1>0, <1>1, <2>1, <2>2, <2>3, GateBecomes DEF Gate!Start, GateDeps, Gate!Next
<1>6. ASSUME job[c] = "running", job'[c] # "running", disk'[c].result \in Results \cup {"running"}
      PROVE  Gate!Next
  <2>1. GateStatus[c] = "running"
    BY <1>3, <1>6 DEF LooksLike
  <2>2. GateStatus'[c] \in {"passed", "failed"}
    BY <1>3, <1>6 DEF LooksLike, Results
  <2>3. QED
    BY <1>0, <1>1, <2>1, <2>2, GateBecomes DEF Gate!End, Gate!Next
<1>7. ASSUME job[c] # "running", job'[c] # "running", disk'[c] = disk[c]
      PROVE  Gate!Next
  BY <1>4, <1>7 DEF GateStatus
<1>8. CASE StartJob(c)
  <2>1. job[c] = "waiting" /\ disk[c] = Nothing
    BY <1>1, <1>8 DEF StartJob, MayStart, CellOK, JobOK
  <2>2. CASE DependsOn(c, action) = {}
    BY <1>5, <1>8, <2>1, <2>2 DEF StartJob
  <2>3. CASE DependsOn(c, action) # {}
    BY <1>1, <1>7, <1>8, <2>1, <2>3 DEF StartJob, TypeOK
  <2>4. QED
    BY <2>2, <2>3
<1>9. CASE Download(c)
  BY <1>1, <1>7, <1>9 DEF Download, TypeOK
<1>10. CASE CheckPrereqs(c)
  <2>1. job[c] = "check" /\ disk[c] = Nothing
    BY <1>1, <1>10 DEF CheckPrereqs, CellOK, JobOK
  <2>2. CASE IsBlocked(c)
    BY <1>1, <1>7, <1>10, <2>1, <2>2 DEF CheckPrereqs, TypeOK
  <2>3. CASE ~IsBlocked(c)
    <3>1. BeginRun(c)
      BY <1>10, <2>3 DEF CheckPrereqs
    <3>2. \A d \in DependsOn(c, action) : d \in seen[c] /\ store[d].result = "passed"
      BY <2>3 DEF IsBlocked
    <3>3. QED
      BY <1>5, <2>1, <3>1, <3>2
  <2>4. QED
    BY <2>2, <2>3
<1>11. CASE EmitBlocked(c)
  <2>1. /\ job[c] = "blocking" /\ job'[c] = "upload" /\ disk[c] = Nothing
        /\ disk'[c].result = "blocked"
    BY <1>1, <1>11 DEF EmitBlocked, CellOK, JobOK, TypeOK
  <2>2. GateStatus[c] = "pending" /\ GateStatus'[c] = "blocked"
    BY <1>3, <2>1 DEF LooksLike, Nothing
  <2>3. PICK d \in DependsOn(c, action) :
          {c, d} \cap lost # {} \/ (job[d] = "ended" /\ disk[d].result # "passed")
    BY <1>1, <2>1 DEF CellOK, HasCause
  <2>4. GateStatus[d] \in Gate!Unavailable \/ {c, d} \cap lost # {}
    <3> SUFFICES ASSUME {c, d} \cap lost = {} PROVE GateStatus[d] \in Gate!Unavailable
      OBVIOUS
    <3>1. /\ d \in Cells /\ job[d] = "ended" /\ disk[d].result # "passed"
          /\ CellOK(d) /\ d \notin lost
      BY <1>2, <2>3 DEF Inv
    <3>2. disk[d].result \in Failures \cup {"blocked"}
      BY <3>1 DEF CellOK, NotLost, Results
    <3>3. QED
      BY <3>1, <3>2, GateStatusOf DEF LooksLike, Gate!Unavailable
  <2>5. Gate!Block(c) /\ UNCHANGED GateDeps
    BY <1>1, <2>2, <2>4, GateBecomes DEF Gate!Block, GateDeps
  <2>6. QED
    BY <1>0, <2>5 DEF Gate!Next
<1>12. CASE RunEnds(c)
  BY <1>1, <1>6, <1>12 DEF RunEnds, TypeOK
<1>13. CASE Break(c) \/ Lose(c)
  <2>1. job'[c] \in {"upload", "ended"} /\ disk' = disk
    BY <1>1, <1>13 DEF Break, Lose, TypeOK
  <2>2. CASE job[c] = "running"
    BY <1>1, <1>6, <2>1, <2>2 DEF CellOK, JobOK
  <2>3. CASE job[c] # "running"
    BY <1>7, <2>1, <2>3
  <2>4. QED
    BY <2>2, <2>3
<1>14. CASE Upload(c)
  BY <1>1, <1>7, <1>14 DEF Upload, TypeOK
<1>15. QED
  BY <1>8, <1>9, <1>10, <1>11, <1>12, <1>13, <1>14 DEF CellStep

LEMMA GateStep ==
  ASSUME CapabilitiesFirst, Inv, [Next]_vars
  PROVE  [Gate!Next]_(Gate!vars)
<1>1. ASSUME NEW f \in Flows, SkipWave(f) PROVE Gate!Next
  <2>1. ASSUME NEW c \in Cells PROVE GateStatus'[c] = GateStatus[c]
    <3>1. /\ disk' = disk
          /\ job'[c] = job[c] \/ (job[c] # "running" /\ job'[c] # "running")
      BY <1>1 DEF SkipWave
    <3>2. QED
      BY <3>1 DEF GateStatus
  <2>2. UNCHANGED <<GateStatus, GateDeps>>
    BY <1>1, <2>1, GateStutters DEF SkipWave
  <2>3. lost \subseteq lost' /\ lost' \subseteq Cells
    BY <1>1 DEF SkipWave, Wave, Runnable, Inv, TypeOK
  <2>4. QED
    BY <2>2, <2>3 DEF Gate!Next
<1>2. CASE Setup \/ Aggregate \/ UNCHANGED vars
  <2>1. UNCHANGED <<action, job, disk, lost>>
    BY <1>2 DEF Setup, Aggregate, vars
  <2>2. UNCHANGED <<GateStatus, GateDeps>>
    BY <2>1, GateStutters DEF GateStatus
  <2>3. QED
    BY <2>1, <2>2 DEF Gate!vars
<1>3. QED
  BY <1>1, <1>2, GateCellStep DEF Next

(* Where the flows that produce capabilities come first in the order of    *)
(* the jobs, the pipeline implements PrereqGate: no job runs its cell      *)
(* before all it depends on has passed, even if its own downloads fail,    *)
(* and a cell is blocked only because of one that failed, was blocked or   *)
(* got lost, or for a download of its own that failed                      *)
(* (prereq-status.nu:11-36, ci-run-cell.yml.tpl:69-154).                   *)
THEOREM PipelineKeepsTheGate ==
  ASSUME CapabilitiesFirst PROVE Spec => KeepsTheGate
<1>1. Inv /\ [Next]_vars => Inv'
  BY InvStep
<1>2. Inv /\ [Next]_vars => [Gate!Next]_(Gate!vars)
  BY GateStep
<1>3. QED
  BY <1>1, <1>2, GateInit, InvInit, PTL DEF Spec, KeepsTheGate, Gate!Spec

-----------------------------------------------------------------------------
(* The record. Its verdict is taken when all jobs have ended, so what it   *)
(* says of the cells stays true.                                           *)
PassedForGood ==
  record.status = "passed" =>
    \A c \in Runnable(action) :
      job[c] = "ended" /\ disk[c].result = "passed" /\ store[c] = disk[c]

RecordInv == TypeOK /\ (\A c \in Cells : JobOK(c)) /\ PassedForGood

LEMMA AllOthersPassed ==
  ASSUME NEW S, OverallStatus(S) = "passed"
  PROVE  S \subseteq {"passed", "capability-skipped"}
BY DEF OverallStatus

LEMMA RecordInvStep == RecordInv /\ [Next]_vars => RecordInv'
<1> SUFFICES ASSUME RecordInv, [Next]_vars PROVE RecordInv'
  OBVIOUS
<1>1. TypeOK /\ TypeOK' /\ (\A c \in Cells : JobOK(c)) /\ PassedForGood
  BY TypeStep DEF RecordInv
<1>2. ASSUME NEW c \in Cells, CellStep(c) PROVE RecordInv'
  <2>1. OnlyMoves(c) /\ (\A e \in Cells : JobOK(e)')
    BY <1>1, <1>2, CellMoves, JobStaysOK
  <2>2. record' = record
    BY <1>2 DEF CellStep, StartJob, Download, CheckPrereqs, EmitBlocked, RunEnds, Break,
                Upload, Lose
  <2>3. PassedForGood'
    BY <1>1, <2>1, <2>2 DEF PassedForGood, OnlyMoves, Runnable
  <2>4. QED
    BY <1>1, <2>1, <2>3 DEF RecordInv
<1>3. ASSUME NEW f \in Flows, SkipWave(f) PROVE RecordInv'
  <2>1. /\ UNCHANGED <<action, disk, store, record>>
        /\ \A c \in Cells : \/ job'[c] = job[c]
                            \/ job[c] = "waiting" /\ job'[c] = "ended"
    BY <1>3 DEF SkipWave
  <2>2. \A c \in Cells : JobOK(c)'
    BY <1>1, <2>1 DEF JobOK
  <2>3. PassedForGood'
    BY <1>1, <2>1 DEF PassedForGood, Runnable
  <2>4. QED
    BY <1>1, <2>2, <2>3 DEF RecordInv
<1>4. CASE Aggregate
  <2>1. UNCHANGED <<action, job, disk, store>>
    BY <1>4 DEF Aggregate
  <2>2. \A c \in Cells : JobOK(c)'
    BY <1>1, <2>1 DEF JobOK
  <2>3. PassedForGood'
    <3>1. CASE record' = record
      BY <1>1, <2>1, <3>1 DEF PassedForGood, Runnable
    <3>2. CASE record' = Reconstructed
      <4> SUFFICES ASSUME Reconstructed.status = "passed", NEW c \in Runnable(action)
                   PROVE  job[c] = "ended" /\ disk[c].result = "passed" /\ store[c] = disk[c]
        BY <2>1, <3>2 DEF PassedForGood, Runnable
      <4>1. /\ c \in Cells /\ action[c] = "run" /\ job[c] = "ended"
        BY <1>4 DEF Aggregate, Runnable
      <4>2. \A e \in Entries : e[2] \in {"passed", "capability-skipped"}
        BY AllOthersPassed DEF Reconstructed
      <4>3. c \in Recorded
        <5> SUFFICES ASSUME c \notin Recorded PROVE FALSE
          OBVIOUS
        <5>1. <<c, "missing">> \in Entries
          BY <4>1 DEF Entries, Unrecorded, Expected
        <5>2. QED
          BY <4>2, <5>1
      <4>4. <<c, store[c].envelope>> \in Entries
        BY <4>3 DEF Entries
      <4>5. store[c].envelope = "passed"
        BY <1>1, <4>1, <4>2, <4>4 DEF TypeOK, Artifact, Results, Failures
      <4>6. store[c] = disk[c] /\ disk[c].envelope \in {"none", disk[c].result}
        BY <1>1, <4>1, <4>5 DEF JobOK, Nothing
      <4>7. QED
        BY <4>1, <4>5, <4>6
    <3>3. QED
      BY <1>4, <3>1, <3>2 DEF Aggregate
  <2>4. QED
    BY <1>1, <2>2, <2>3 DEF RecordInv
<1>5. CASE Setup \/ UNCHANGED vars
  BY <1>1, <1>5 DEF Setup, vars, RecordInv, JobOK, PassedForGood, Runnable
<1>6. QED
  BY <1>2, <1>3, <1>4, <1>5 DEF Next

(* Whatever gets lost, and in whatever order the jobs run, the aggregate   *)
(* says passed only of a suite whose every runnable cell has passed and    *)
(* has its artifact uploaded (aggregate.nu:105-243).                       *)
THEOREM NothingLostIsAPass == Spec => []PassedMeansEveryCellPassed
<1>1. Init => RecordInv
  <2> SUFFICES ASSUME Init PROVE RecordInv
    OBVIOUS
  <2>1. \A c \in Cells : JobOK(c)
    BY DEF Init, JobOK, Nothing
  <2>2. QED
    BY <2>1, TypeInit DEF RecordInv, PassedForGood, Init, NoRecord
<1>2. RecordInv => PassedMeansEveryCellPassed
  BY DEF RecordInv, PassedForGood, PassedMeansEveryCellPassed
<1>3. QED
  BY <1>1, <1>2, RecordInvStep, PTL DEF Spec

-----------------------------------------------------------------------------
(* The record is what the aggregate has made of the artifacts, and stays   *)
(* it: a cell that is not to be run has no job, and all others have ended. *)
OnlyRunnable == \A c \in Cells : job[c] # "waiting" => c \in Runnable(action)

Frozen == aggregate # "waiting" => \A c \in Runnable(action) : job[c] = "ended"

RecordIsOfTheStore ==
  /\ record.status # "absent" => aggregate # "waiting" /\ record = Reconstructed
  /\ record.status = "absent" => record.entries = {}

(* A cell has been run on passed dependencies, which are in the store.     *)
RanAfter(c) ==
  disk[c].result \in Results \cup {"running"} =>
    \A d \in DependsOn(c, action) : store[d].result = "passed"

(* A job that is through without failing has passed or blocked its cell.   *)
GreenOrRed(c) ==
  job[c] \in {"upload", "ended"} /\ c \notin red =>
    disk[c].result \in {"passed", "blocked"}

AggregateInv ==
  /\ TypeOK /\ (\A c \in Cells : JobOK(c) /\ RanAfter(c) /\ GreenOrRed(c))
  /\ OnlyRunnable /\ Frozen /\ RecordIsOfTheStore

LEMMA ReconstructedSame ==
  ASSUME UNCHANGED <<action, store>>
  PROVE  Reconstructed' = Reconstructed
<1>1. Entries' = Entries
  BY DEF Entries, Recorded, Unrecorded, Expected
<1>2. \A S : Count(S)' = Count(S)
  BY <1>1 DEF Count
<1>3. OverallStatus({entry[2] : entry \in Entries})'
        = OverallStatus({entry[2] : entry \in Entries})
  BY <1>1 DEF OverallStatus
<1>4. QED
  BY <1>1, <1>2, <1>3 DEF Reconstructed

(* What is in the store of a dependency that has passed stays there.       *)
LEMMA RanAfterStays ==
  ASSUME TypeOK, \A e \in Cells : JobOK(e) /\ RanAfter(e),
         NEW c \in Cells, CellStep(c), NEW e \in Cells
  PROVE  RanAfter(e)'
<1>1. OnlyMoves(c)
  BY CellMoves
<1>2. /\ DependsOn(e, action)' = DependsOn(e, action)
      /\ DependsOn(e, action) \subseteq Cells
  BY <1>1, DependsOnCells DEF OnlyMoves, DependsOn, Runnable
<1>3. \A d \in Cells : store[d].result = "passed" => store'[d] = store[d]
  <2> SUFFICES ASSUME NEW d \in Cells, store[d].result = "passed"
               PROVE  store'[d] = store[d]
    OBVIOUS
  <2>1. store[d] # Nothing
    BY DEF Nothing
  <2>2. job[d] = "ended"
    BY <2>1 DEF JobOK
  <2>3. d # c
    BY <1>1, <2>2 DEF OnlyMoves
  <2>4. QED
    BY <1>1, <2>3 DEF OnlyMoves
<1>4. CASE disk'[e] = disk[e]
  BY <1>2, <1>3, <1>4 DEF RanAfter
<1>5. CASE disk'[e] # disk[e]
  <2>1. e = c
    BY <1>1, <1>5 DEF OnlyMoves
  <2>2. CASE StartJob(c)
    <3>1. DependsOn(c, action) = {}
      BY <1>5, <2>1, <2>2 DEF StartJob, TypeOK
    <3>2. QED
      BY <1>2, <2>1, <3>1 DEF RanAfter
  <2>3. CASE CheckPrereqs(c)
    <3>1. ~IsBlocked(c)
      BY <1>5, <2>1, <2>3 DEF CheckPrereqs
    <3>2. \A d \in DependsOn(c, action) : store[d].result = "passed"
      BY <3>1 DEF IsBlocked
    <3>3. QED
      BY <1>2, <1>3, <2>1, <3>2 DEF RanAfter
  <2>4. CASE EmitBlocked(c)
    <3>1. disk'[c].result = "blocked"
      BY <2>4 DEF EmitBlocked, TypeOK
    <3>2. QED
      BY <2>1, <3>1 DEF RanAfter, Results, Failures
  <2>5. CASE RunEnds(c)
    <3>1. disk[c].result = "running"
      BY <2>5 DEF RunEnds, JobOK
    <3>2. QED
      BY <1>2, <1>3, <2>1, <3>1 DEF RanAfter
  <2>6. QED
    BY <1>5, <2>1, <2>2, <2>3, <2>4, <2>5
       DEF CellStep, Download, Break, Upload, Lose
<1>6. QED
  BY <1>4, <1>5

LEMMA GreenOrRedStays ==
  ASSUME TypeOK, NEW c \in Cells, CellStep(c), NEW e \in Cells, GreenOrRed(e)
  PROVE  GreenOrRed(e)'
<1>1. OnlyMoves(c) /\ red \subseteq red'
  BY CellMoves DEF CellStep, StartJob, Download, CheckPrereqs, EmitBlocked, RunEnds,
                   Break, Upload, Lose, JobFails
<1>2. CASE e # c
  BY <1>1, <1>2 DEF GreenOrRed, OnlyMoves
<1>3. CASE e = c
  <2>1. CASE StartJob(c) \/ Download(c) \/ CheckPrereqs(c)
    <3>1. job'[c] \notin {"upload", "ended"}
      BY <2>1 DEF StartJob, Download, CheckPrereqs, BeginRun, TypeOK
    <3>2. QED
      BY <1>3, <3>1 DEF GreenOrRed
  <2>2. CASE EmitBlocked(c)
    BY <1>3, <2>2 DEF EmitBlocked, TypeOK, GreenOrRed
  <2>3. CASE RunEnds(c)
    <3>1. PICK r \in Results :
            /\ disk'[c].result = r
            /\ red' = IF ExitsWithZero(r) THEN red ELSE red \cup {c}
      BY <2>3 DEF RunEnds, TypeOK
    <3>2. QED
      BY <1>3, <3>1 DEF ExitsWithZero, GreenOrRed
  <2>4. CASE Break(c) \/ Lose(c)
    <3>1. c \in red'
      BY <2>4 DEF Break, Lose, JobFails
    <3>2. QED
      BY <1>3, <3>1 DEF GreenOrRed
  <2>5. CASE Upload(c)
    <3>1. job[c] = "upload" /\ disk' = disk
      BY <2>5 DEF Upload
    <3>2. QED
      BY <1>1, <1>3, <3>1 DEF GreenOrRed
  <2>6. QED
    BY <2>1, <2>2, <2>3, <2>4, <2>5 DEF CellStep
<1>4. QED
  BY <1>2, <1>3

LEMMA AggregateInvStep == AggregateInv /\ [Next]_vars => AggregateInv'
<1> SUFFICES ASSUME AggregateInv, [Next]_vars PROVE AggregateInv'
  OBVIOUS
<1>0. TypeOK /\ TypeOK'
  BY TypeStep DEF AggregateInv
<1>1. ASSUME NEW c \in Cells, CellStep(c) PROVE AggregateInv'
  <2>1. OnlyMoves(c) /\ UNCHANGED <<aggregate, record>>
    BY <1>0, <1>1, CellMoves
       DEF CellStep, StartJob, Download, CheckPrereqs, EmitBlocked, RunEnds, Break,
           Upload, Lose
  <2>2. \A e \in Cells : JobOK(e)' /\ RanAfter(e)' /\ GreenOrRed(e)'
    BY <1>0, <1>1, JobStaysOK, RanAfterStays, GreenOrRedStays DEF AggregateInv
  <2>3. c \in Runnable(action)
    <3>1. CASE job[c] = "waiting"
      BY <1>1, <3>1 DEF CellStep, StartJob, MayStart, Download, CheckPrereqs,
                        EmitBlocked, RunEnds, Break, Upload, Lose
    <3>2. CASE job[c] # "waiting"
      BY <3>2 DEF AggregateInv, OnlyRunnable
    <3>3. QED
      BY <3>1, <3>2
  <2>4. aggregate = "waiting" /\ record.status = "absent"
    BY <2>1, <2>3 DEF AggregateInv, Frozen, RecordIsOfTheStore, OnlyMoves
  <2>5. OnlyRunnable'
    BY <2>1, <2>3 DEF AggregateInv, OnlyRunnable, OnlyMoves, Runnable
  <2>6. Frozen' /\ RecordIsOfTheStore'
    BY <2>1, <2>4 DEF AggregateInv, Frozen, RecordIsOfTheStore
  <2>7. QED
    BY <1>0, <2>2, <2>5, <2>6 DEF AggregateInv
<1>2. ASSUME NEW f \in Flows, SkipWave(f) PROVE AggregateInv'
  <2>1. /\ UNCHANGED <<action, disk, store, aggregate, record>> /\ red \subseteq red'
        /\ \A c \in Cells : \/ job'[c] = job[c]
                            \/ /\ c \in Wave(f) /\ c \in red'
                               /\ job[c] = "waiting" /\ job'[c] = "ended"
    BY <1>2 DEF SkipWave
  <2>2. PICK c \in Wave(f) : job[c] = "waiting"
    BY <1>2 DEF SkipWave
  <2>3. aggregate = "waiting" /\ record.status = "absent"
    BY <2>2 DEF AggregateInv, Frozen, RecordIsOfTheStore, Wave
  <2>4. OnlyRunnable'
    BY <2>1 DEF AggregateInv, OnlyRunnable, Wave, Runnable
  <2>5. Frozen' /\ RecordIsOfTheStore'
    BY <2>1, <2>3 DEF AggregateInv, Frozen, RecordIsOfTheStore
  <2>6. ASSUME NEW e \in Cells PROVE JobOK(e)' /\ RanAfter(e)' /\ GreenOrRed(e)'
    <3>1. JobOK(e) /\ RanAfter(e) /\ GreenOrRed(e)
      BY DEF AggregateInv
    <3>2. DependsOn(e, action)' = DependsOn(e, action)
      BY <2>1 DEF DependsOn, Runnable
    <3>3. JobOK(e)'
      BY <2>1, <3>1 DEF JobOK
    <3>4. RanAfter(e)' /\ GreenOrRed(e)'
      BY <2>1, <3>1, <3>2 DEF RanAfter, GreenOrRed
    <3>5. QED
      BY <3>3, <3>4
  <2>7. QED
    BY <1>0, <2>4, <2>5, <2>6 DEF AggregateInv
<1>3. ASSUME UNCHANGED <<action, job, disk, store, red>>
      PROVE  /\ \A e \in Cells : JobOK(e)' /\ RanAfter(e)' /\ GreenOrRed(e)'
             /\ OnlyRunnable'
  BY <1>3 DEF AggregateInv, JobOK, RanAfter, GreenOrRed, OnlyRunnable, DependsOn,
              Runnable
<1>4. CASE Aggregate
  <2>1. /\ UNCHANGED <<action, job, disk, store, red>> /\ aggregate = "waiting"
        /\ \A c \in Runnable(action) : job[c] = "ended"
        /\ \/ record' = Reconstructed /\ aggregate' # "waiting"
           \/ record' = record
    BY <1>4 DEF Aggregate
  <2>2. Frozen'
    BY <2>1 DEF Frozen, Runnable
  <2>3. RecordIsOfTheStore'
    <3>1. Reconstructed' = Reconstructed /\ Reconstructed.status # "absent"
      BY <2>1, ReconstructedSame, OverallStatusType DEF Reconstructed
    <3>2. QED
      BY <2>1, <3>1 DEF AggregateInv, RecordIsOfTheStore
  <2>4. QED
    BY <1>0, <1>3, <2>1, <2>2, <2>3 DEF AggregateInv
<1>5. CASE Setup \/ UNCHANGED vars
  <2>1. UNCHANGED <<action, job, disk, store, red, aggregate, record>>
    BY <1>5 DEF Setup, vars
  <2>2. Frozen' /\ RecordIsOfTheStore'
    BY <2>1, ReconstructedSame DEF AggregateInv, Frozen, RecordIsOfTheStore, Runnable
  <2>3. QED
    BY <1>0, <1>3, <2>1, <2>2 DEF AggregateInv
<1>6. QED
  BY <1>1, <1>2, <1>4, <1>5 DEF Next

LEMMA AggregateInvInit == Init => AggregateInv
<1> SUFFICES ASSUME Init PROVE AggregateInv
  OBVIOUS
<1>1. \A c \in Cells : JobOK(c) /\ RanAfter(c) /\ GreenOrRed(c)
  BY DEF Init, JobOK, RanAfter, GreenOrRed, Nothing, Results, Failures
<1>2. OnlyRunnable /\ Frozen /\ RecordIsOfTheStore
  BY DEF Init, OnlyRunnable, Frozen, RecordIsOfTheStore, NoRecord
<1>3. QED
  BY <1>1, <1>2, TypeInit DEF AggregateInv

(* The one entry of a cell.                                                *)
EntryOf(c) ==
  IF store[c].envelope # "none" THEN store[c].envelope
  ELSE IF action[c] = "capability-skipped" THEN "capability-skipped" ELSE "missing"

LEMMA EntriesAreOfCells ==
  Entries = {<<c, EntryOf(c)>> : c \in Cells}
BY DEF Entries, EntryOf, Recorded, Unrecorded, Expected

LEMMA EntryMeans ==
  ASSUME TypeOK, NEW c \in Cells, JobOK(c)
  PROVE  /\ EntryOf(c) \in EntryStatuses
         /\ EntryOf(c) \in Results \cup {"blocked"} =>
              store[c] = disk[c] /\ disk[c].result = EntryOf(c)
<1>1. store[c].envelope \in Results \cup {"none", "blocked"}
  BY DEF TypeOK, Artifact
<1>2. CASE store[c].envelope = "none"
  BY <1>2 DEF EntryOf, EntryStatuses, Results, Failures
<1>3. CASE store[c].envelope # "none"
  BY <1>1, <1>3 DEF EntryOf, EntryStatuses, JobOK, Nothing
<1>4. QED
  BY <1>2, <1>3

LEMMA AsManyEntriesAsCells == Cardinality(Entries) = Cardinality(Cells)
<1> DEFINE f == [c \in Cells |-> <<c, EntryOf(c)>>]
<1>1. f \in Bijection(Cells, Entries)
  <2>1. f \in [Cells -> Entries]
    BY EntriesAreOfCells
  <2>2. \A c, d \in Cells : f[c] = f[d] => c = d
    OBVIOUS
  <2>3. \A e \in Entries : \E c \in Cells : f[c] = e
    BY EntriesAreOfCells
  <2>4. QED
    BY <2>1, <2>2, <2>3, Fun_IsBij
<1>2. QED
  BY <1>1, PlanAssumption, FS_Bijection DEF ExistsBijection

(* Each entry is in one of the counts.                                     *)
LEMMA CountsAddUp ==
  ASSUME TypeOK
  PROVE  Count({"passed"}) + Count(Failures) + Count(CountedAsBlocked)
           + Count({"capability-skipped"}) = Cardinality(Cells)
<1> DEFINE With(S) == {entry \in Entries : entry[2] \in S}
           P == With({"passed"})          F == With(Failures)
           B == With(CountedAsBlocked)    S == With({"capability-skipped"})
<1>1. IsFiniteSet(P) /\ IsFiniteSet(F) /\ IsFiniteSet(B) /\ IsFiniteSet(S)
  BY EntriesAreFinite, FS_Subset
<1>2. P \cap F = {} /\ (P \cup F) \cap B = {} /\ (P \cup F \cup B) \cap S = {}
  BY DEF Failures, CountedAsBlocked
<1>3. Entries = P \cup F \cup B \cup S
  <2>1. \A e \in Entries : e[2] \in EntryStatuses
    BY EntriesType
  <2>2. EntryStatuses = {"passed"} \cup Failures \cup CountedAsBlocked
                        \cup {"capability-skipped"}
    BY DEF EntryStatuses, Results, CountedAsBlocked
  <2>3. QED
    BY <2>1, <2>2
<1>4. /\ Count({"passed"}) = Cardinality(P) /\ Count(Failures) = Cardinality(F)
      /\ Count(CountedAsBlocked) = Cardinality(B)
      /\ Count({"capability-skipped"}) = Cardinality(S)
  BY DEF Count
<1> HIDE DEF P, F, B, S
<1>5. IsFiniteSet(P \cup F) /\ Cardinality(P \cup F) = Cardinality(P) + Cardinality(F)
  BY <1>1, <1>2, DisjointUnion
<1>6. /\ IsFiniteSet(P \cup F \cup B)
      /\ Cardinality(P \cup F \cup B) = Cardinality(P \cup F) + Cardinality(B)
  BY <1>1, <1>2, <1>5, DisjointUnion
<1>7. Cardinality(P \cup F \cup B \cup S) = Cardinality(P \cup F \cup B) + Cardinality(S)
  BY <1>1, <1>2, <1>6, DisjointUnion
<1>8. QED
  BY <1>3, <1>4, <1>5, <1>6, <1>7, AsManyEntriesAsCells

(* Every cell of the plan has one entry and one count in the record, and   *)
(* no entry tells another outcome than the cell's machine has seen,        *)
(* whatever gets lost (aggregate.nu:383-482).                              *)
THEOREM RecordAddsUp == Spec => []RecordIsComplete
<1>1. AggregateInv => RecordIsComplete
  <2> SUFFICES ASSUME AggregateInv, record.status # "absent"
               PROVE  /\ \A c \in Cells :
                           \E s \in EntryStatuses :
                             /\ <<c, s>> \in record.entries
                             /\ \A e \in record.entries : e[1] = c => e[2] = s
                             /\ s \in Results \cup {"blocked"} => disk[c].result = s
                      /\ record.counts.passed + record.counts.failed
                           + record.counts.blocked + record.counts.skipped
                         = Cardinality(Cells)
    BY DEF RecordIsComplete, EntryStatuses
  <2>1. record = Reconstructed /\ TypeOK
    BY DEF AggregateInv, RecordIsOfTheStore
  <2>2. /\ record.entries = Entries
        /\ record.counts.passed = Count({"passed"})
        /\ record.counts.failed = Count(Failures)
        /\ record.counts.blocked = Count(CountedAsBlocked)
        /\ record.counts.skipped = Count({"capability-skipped"})
    BY <2>1 DEF Reconstructed
  <2>3. ASSUME NEW c \in Cells
        PROVE  /\ EntryOf(c) \in EntryStatuses
               /\ <<c, EntryOf(c)>> \in Entries
               /\ \A e \in Entries : e[1] = c => e[2] = EntryOf(c)
               /\ EntryOf(c) \in Results \cup {"blocked"} => disk[c].result = EntryOf(c)
    BY <2>1, EntriesAreOfCells, EntryMeans DEF AggregateInv
  <2>4. QED
    BY <2>1, <2>2, <2>3, CountsAddUp
<1>2. QED
  BY <1>1, AggregateInvInit, AggregateInvStep, PTL DEF Spec

(* The record agrees with what the cells have looked at: behind a cell     *)
(* with an outcome of its own are passed or missing ones only, in any      *)
(* order of the jobs (prereq-status.nu, aggregate.nu).                     *)
THEOREM DependentsAgree == Spec => []DependentsAgreeWithTheRecord
<1>1. AggregateInv => DependentsAgreeWithTheRecord
  <2> SUFFICES ASSUME AggregateInv, NEW e \in record.entries, e[2] \in Results,
                      NEW d \in DependsOn(e[1], action)
               PROVE  <<d, "passed">> \in record.entries \/ <<d, "missing">> \in record.entries
    BY DEF DependentsAgreeWithTheRecord
  <2>1. CASE record.status = "absent"
    BY <2>1 DEF AggregateInv, RecordIsOfTheStore
  <2>2. CASE record.status # "absent"
    <3>1. record.entries = {<<c, EntryOf(c)>> : c \in Cells} /\ TypeOK
      BY <2>2, EntriesAreOfCells DEF AggregateInv, RecordIsOfTheStore, Reconstructed
    <3>2. PICK c \in Cells : e = <<c, EntryOf(c)>>
      BY <3>1
    <3>3. disk[c].result \in Results /\ d \in DependsOn(c, action)
      BY <3>1, <3>2, EntryMeans DEF AggregateInv
    <3>4. store[d].result = "passed" /\ d \in Cells /\ action[d] = "run"
      BY <3>3, DependsOnCells DEF AggregateInv, RanAfter, DependsOn, Runnable
    <3>5. store[d] = disk[d] /\ store[d].envelope \in {"none", "passed"}
      BY <3>4 DEF AggregateInv, JobOK, Nothing
    <3>6. EntryOf(d) \in {"passed", "missing"}
      BY <3>4, <3>5 DEF EntryOf
    <3>7. QED
      BY <3>1, <3>4, <3>6
  <2>3. QED
    BY <2>1, <2>2
<1>2. QED
  BY <1>1, AggregateInvInit, AggregateInvStep, PTL DEF Spec

-----------------------------------------------------------------------------
(* Green runs. Whoever blocks or is blocked has a loss or a failure behind *)
(* it.                                                                     *)
BlockedForAReason ==
  (\E c \in Cells : job[c] = "blocking" \/ disk[c].result = "blocked") =>
    lost # {} \/ red # {}

GreenInv == Inv /\ AggregateInv /\ BlockedForAReason

LEMMA BlockedForAReasonStays ==
  ASSUME CapabilitiesFirst, GreenInv, [Next]_vars
  PROVE  BlockedForAReason'
<1>0. Inv' /\ Inv
  BY InvStep DEF GreenInv
<1>1. lost \subseteq lost' /\ red \subseteq red'
  BY DEF Next, vars, Setup, Aggregate, SkipWave, CellStep, StartJob, Download,
         CheckPrereqs, EmitBlocked, RunEnds, Break, Upload, Lose, JobFails
<1>2. CASE lost # {} \/ red # {}
  BY <1>1, <1>2 DEF BlockedForAReason
<1>3. CASE lost = {} /\ red = {}
  <2>1. \A c \in Cells : job[c] # "blocking" /\ disk[c].result # "blocked"
    BY <1>3 DEF GreenInv, BlockedForAReason
  <2> SUFFICES ASSUME lost' = {}, red' = {}, NEW c \in Cells,
                      job'[c] = "blocking" \/ disk'[c].result = "blocked"
               PROVE  FALSE
    BY DEF BlockedForAReason
  <2>2. CASE \E e \in Cells : CellStep(e)
    <3>1. CellStep(c)
      BY <2>1, <2>2, CellMoves DEF OnlyMoves, Inv, GreenInv
    <3>2. job'[c] = "blocking"
      <4>1. CASE StartJob(c) \/ CheckPrereqs(c)
        <5>1. disk'[c].result \in {disk[c].result, "running"}
          <6>1. disk \in [Cells -> Artifact]
            BY DEF GreenInv, Inv, TypeOK
          <6>2. disk' = disk \/ disk' = [disk EXCEPT ![c].result = "running"]
            BY <4>1 DEF StartJob, CheckPrereqs, BeginRun
          <6>3. QED
            BY <6>1, <6>2 DEF Artifact
        <5>2. disk'[c].result # "blocked"
          BY <2>1, <5>1
        <5>3. QED
          BY <5>2
      <4>2. CASE RunEnds(c)
        <5>1. PICK r \in Results : disk'[c].result = r /\ job'[c] = "upload"
          BY <4>2 DEF RunEnds, GreenInv, Inv, TypeOK
        <5>2. QED
          BY <5>1 DEF Results, Failures
      <4>3. CASE Download(c) \/ Upload(c) \/ Break(c) \/ Lose(c)
        BY <2>1, <4>3 DEF Download, Upload, Break, Lose, GreenInv, Inv, TypeOK
      <4>4. CASE EmitBlocked(c)
        BY <2>1, <4>4 DEF EmitBlocked
      <4>5. QED
        BY <3>1, <4>1, <4>2, <4>3, <4>4 DEF CellStep
    <3>3. PICK d \in DependsOn(c, action)' :
            {c, d} \cap lost' # {} \/ (job'[d] = "ended" /\ disk'[d].result # "passed")
      BY <1>0, <3>2 DEF Inv, CellOK, HasCause
    <3>4. OnlyMoves(c)
      BY <3>1, CellMoves DEF GreenInv, Inv
    <3>5. d \in Cells /\ d # c
      BY <3>2, <3>3, DependsOnCells DEF DependsOn, Runnable
    <3>6. job[d] = "ended" /\ disk[d].result # "passed"
      BY <3>3, <3>4, <3>5 DEF OnlyMoves
    <3>7. disk[d].result \in {"passed", "blocked"}
      BY <1>3, <3>5, <3>6 DEF GreenInv, AggregateInv, GreenOrRed
    <3>8. QED
      BY <2>1, <3>5, <3>6, <3>7
  <2>3. CASE UNCHANGED <<job, disk>>
    BY <2>1, <2>3
  <2>4. CASE \E f \in Flows : SkipWave(f)
    BY <2>1, <2>4 DEF SkipWave
  <2>5. QED
    BY <2>2, <2>3, <2>4 DEF Next, Setup, Aggregate, vars
<1>4. QED
  BY <1>2, <1>3

(* A green run has no cell that failed, and one that was blocked only if   *)
(* something got lost, where the flows that produce capabilities come      *)
(* first (source-run.nu:10-34).                                            *)
THEOREM GreenMeansNoFailure ==
  ASSUME CapabilitiesFirst PROVE Spec => []GreenRunsHaveNoFailure
<1>1. Init => GreenInv
  <2> SUFFICES ASSUME Init PROVE GreenInv
    OBVIOUS
  <2>1. BlockedForAReason
    BY DEF Init, BlockedForAReason, Nothing
  <2>2. QED
    BY <2>1, InvInit, AggregateInvInit DEF GreenInv
<1>2. GreenInv /\ [Next]_vars => GreenInv'
  BY InvStep, AggregateInvStep, BlockedForAReasonStays DEF GreenInv
<1>3. GreenInv => GreenRunsHaveNoFailure
  <2> SUFFICES ASSUME GreenInv, aggregate = "success", red = {},
                      NEW c \in Runnable(action)
               PROVE  disk[c].result = "passed" \/ (disk[c].result = "blocked" /\ lost # {})
    BY DEF GreenRunsHaveNoFailure
  <2>1. c \in Cells /\ job[c] = "ended"
    BY DEF Runnable, GreenInv, AggregateInv, Frozen
  <2>2. disk[c].result \in {"passed", "blocked"}
    BY <2>1 DEF GreenInv, AggregateInv, GreenOrRed
  <2>3. QED
    BY <2>1, <2>2 DEF GreenInv, BlockedForAReason
<1>4. QED
  BY <1>1, <1>2, <1>3, PTL DEF Spec

-----------------------------------------------------------------------------
(* Where the record is not that of a local suite. A cell that is not to be *)
(* run has nothing in the store, so that its entry is made of the plan.    *)
LEMMA EntryOfTheOthers ==
  ASSUME AggregateInv, NEW c \in Cells, c \notin Runnable(action)
  PROVE  EntryOf(c) = IF action[c] = "capability-skipped"
                      THEN "capability-skipped" ELSE "missing"
<1>1. job[c] = "waiting"
  BY DEF AggregateInv, OnlyRunnable
<1>2. store[c] = Nothing
  BY <1>1 DEF AggregateInv, JobOK
<1>3. QED
  BY <1>2 DEF EntryOf, Nothing

(* The status of the record is that of the entries of all cells.           *)
LEMMA StatusOfTheEntries ==
  ASSUME AggregateInv, record.status # "absent"
  PROVE  record.status = OverallStatus({EntryOf(c) : c \in Cells})
<1>1. record.status = OverallStatus({entry[2] : entry \in Entries})
  BY DEF AggregateInv, RecordIsOfTheStore, Reconstructed
<1>2. \A c \in Cells : <<c, EntryOf(c)>> \in Entries /\ <<c, EntryOf(c)>>[2] = EntryOf(c)
  BY EntriesAreOfCells
<1>3. \A entry \in Entries : \E c \in Cells : entry[2] = EntryOf(c)
  BY EntriesAreOfCells
<1>4. \A s : s \in {entry[2] : entry \in Entries} <=> s \in {EntryOf(c) : c \in Cells}
  <2>1. \A s : s \in {entry[2] : entry \in Entries} <=> \E entry \in Entries : s = entry[2]
    OBVIOUS
  <2>2. \A s : s \in {EntryOf(c) : c \in Cells} <=> \E c \in Cells : s = EntryOf(c)
    OBVIOUS
  <2>3. QED
    BY <1>2, <1>3, <2>1, <2>2, Zenon
<1>5. {entry[2] : entry \in Entries} = {EntryOf(c) : c \in Cells}
  BY <1>4
<1>6. QED
  BY <1>1, <1>5

(* If the plan excludes no cell and nothing got lost, the record has the   *)
(* status that a local run of the suite would have: what the run           *)
(* ExcludedMissing shows happens to plans with an excluded cell only       *)
(* (aggregate.nu:105-243).                                                 *)
THEOREM AggregateOfAFullPlan ==
  Spec => []((\A c \in Cells : action[c] # "exclude-placeholder")
               => AggregateIsTheSuite)
<1>1. AggregateInv /\ (\A c \in Cells : action[c] # "exclude-placeholder")
        => AggregateIsTheSuite
  <2> DEFINE Skipped == {s \in {"capability-skipped"} : \E c \in Cells : action[c] = s}
             Local   == {disk[c].result : c \in Runnable(action)} \cup Skipped
  <2> SUFFICES ASSUME AggregateInv, \A c \in Cells : action[c] # "exclude-placeholder",
                      Runnable(action) \subseteq Recorded, record.status # "absent"
               PROVE  record.status = OverallStatus(Local)
    BY DEF AggregateIsTheSuite
  <2>1. ASSUME NEW c \in Runnable(action)
        PROVE  c \in Cells /\ EntryOf(c) = disk[c].result
    <3>1. c \in Cells /\ store[c].envelope # "none"
      BY <2>1 DEF Recorded
    <3>2. store[c] = disk[c] /\ disk[c].envelope \in {"none", disk[c].result}
      BY <3>1 DEF AggregateInv, JobOK, Nothing
    <3>3. QED
      BY <3>1, <3>2 DEF EntryOf
  <2>2. ASSUME NEW c \in Cells \ Runnable(action)
        PROVE  action[c] = "capability-skipped" /\ EntryOf(c) = "capability-skipped"
    <3>1. action[c] = "capability-skipped"
      BY <2>2 DEF AggregateInv, TypeOK, Actions, Runnable
    <3>2. QED
      BY <2>2, <3>1, EntryOfTheOthers
  <2>3. \A c \in Cells : EntryOf(c) \in Local
    <3> TAKE c \in Cells
    <3>1. CASE c \in Runnable(action)
      BY <2>1, <3>1
    <3>2. CASE c \notin Runnable(action)
      BY <2>2, <3>2
    <3>3. QED
      BY <3>1, <3>2
  <2>4. \A s \in Local : \E c \in Cells : s = EntryOf(c)
    <3> TAKE s \in Local
    <3>1. CASE s \in {disk[c].result : c \in Runnable(action)}
      BY <2>1, <3>1
    <3>2. CASE s \in Skipped
      <4>1. PICK c \in Cells : action[c] = s /\ s = "capability-skipped"
        BY <3>2
      <4>2. c \notin Runnable(action)
        BY <4>1 DEF Runnable
      <4>3. QED
        BY <4>1, <4>2, <2>2
    <3>3. QED
      BY <3>1, <3>2
  <2> HIDE DEF Local
  <2>5. {EntryOf(c) : c \in Cells} = Local
    BY <2>3, <2>4
  <2>6. QED
    BY <2>5, StatusOfTheEntries
<1>2. QED
  BY <1>1, AggregateInvInit, AggregateInvStep, PTL DEF Spec

(* With an excluded cell, no order of the jobs and no outcome of theirs    *)
(* gives a record that says passed: the aggregate takes the cell for one   *)
(* whose artifact is missing (aggregate.nu:105-243).                       *)
THEOREM ExcludedNeverPassed ==
  Spec => []((\E c \in Cells : action[c] = "exclude-placeholder")
               => record.status # "passed")
<1>1. AggregateInv /\ (\E c \in Cells : action[c] = "exclude-placeholder")
        => record.status # "passed"
  <2> SUFFICES ASSUME AggregateInv, record.status = "passed",
                      NEW c \in Cells, action[c] = "exclude-placeholder"
               PROVE  FALSE
    OBVIOUS
  <2>1. EntryOf(c) = "missing"
    BY EntryOfTheOthers DEF Runnable
  <2>2. OverallStatus({EntryOf(d) : d \in Cells}) = "passed"
    BY StatusOfTheEntries
  <2>3. "missing" \in {EntryOf(d) : d \in Cells}
    BY <2>1
  <2>4. QED
    BY <2>2, <2>3 DEF OverallStatus
<1>2. QED
  BY <1>1, AggregateInvInit, AggregateInvStep, PTL DEF Spec

=============================================================================
