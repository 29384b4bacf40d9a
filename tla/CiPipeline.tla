------------------------------ MODULE CiPipeline ------------------------------
(***************************************************************************)
(* The suite as the generated GitHub workflows run it (ci-matrix.yml,      *)
(* ci-run-wave.yml, ci-run-cell.yml and the `ci` commands they call): the  *)
(* flows are waves one after the other, the cells of a wave are jobs of    *)
(* their own on machines of their own, what a cell depends on it downloads *)
(* and looks at itself, and a last job puts the artifacts together. The    *)
(* second implementation of PrereqGate, beside SuiteRunner.                *)
(***************************************************************************)
EXTENDS SuitePlan

VARIABLES
  action,     \* what the capability gate says of each cell
  setup,      \* the preflight and setup jobs
  job,        \* the step each cell's job is at
  seen,       \* the dependencies whose artifacts each cell has downloaded
  disk,       \* artifacts/ on the machine of each cell's job
  store,      \* the artifacts uploaded
  red,        \* the cells whose job has failed
  lost,       \* history: the cells whose machine, step, up- or download failed
  aggregate,  \* the aggregate job
  record      \* artifacts/suites/runs/<suite_id>.json that it writes

vars == <<action, setup, job, seen, disk, store, red, lost, aggregate, record>>

-----------------------------------------------------------------------------
Results == Failures \cup {"passed"}
Steps   == {"waiting", "download", "check", "blocking", "running", "upload",
            "ended"}

(* result.v1.json ("running": a run without one) and the status in the     *)
(* publish envelope.                                                       *)
Artifact ==
  [result : Results \cup {"none", "running", "blocked"},
   envelope : Results \cup {"none", "blocked"}]

Nothing  == [result |-> "none", envelope |-> "none"]
NoCounts == [passed |-> 0, failed |-> 0, blocked |-> 0, skipped |-> 0]
NoRecord == [status |-> "absent", entries |-> {}, counts |-> NoCounts]

RecordState ==
  [status : {"absent", "running", "passed", "failed", "blocked", "missing",
             "unknown"},
   entries : SUBSET (Cells \X (Results \cup {"blocked", "missing",
                                             "capability-skipped"})),
   counts : [DOMAIN NoCounts -> Nat]]

TypeOK ==
  /\ action \in [Cells -> Actions]
  /\ setup \in {"waiting", "success", "failure"}
  /\ job \in [Cells -> Steps]
  /\ seen \in [Cells -> SUBSET Cells]
  /\ disk \in [Cells -> Artifact]
  /\ store \in [Cells -> Artifact]
  /\ red \subseteq Cells
  /\ lost \subseteq Cells
  /\ aggregate \in {"waiting", "success", "failure"}
  /\ record \in RecordState

Init ==
  /\ action \in [Cells -> Actions]
  /\ setup = "waiting"
  /\ job = [c \in Cells |-> "waiting"]
  /\ seen = [c \in Cells |-> {}]
  /\ disk = [c \in Cells |-> Nothing]
  /\ store = [c \in Cells |-> Nothing]
  /\ red = {}
  /\ lost = {}
  /\ aggregate = "waiting"
  /\ record = NoRecord

-----------------------------------------------------------------------------
(* A job per flow with cells to run, in the order of their first cells,    *)
(* each needing those before it.                                           *)
Wave(f) == {c \in Runnable(action) : CellOf[c].flow = f}

WaveBefore(f, g) == \E c \in Wave(f) : \A d \in Wave(g) : Before(c, d)

EarlierCells(f) ==
  {c \in Runnable(action) : WaveBefore(CellOf[c].flow, f)}

(* Mutant: a wave needs those before it to have succeeded.                 *)
WaveMayStartIfGreen(f) ==
  /\ setup = "success"
  /\ \A c \in EarlierCells(f) : job[c] = "ended" /\ c \notin red

WaveMayStart(f) ==
  /\ setup = "success"
  /\ \A c \in EarlierCells(f) : job[c] = "ended"

Setup ==
  /\ setup = "waiting"
  /\ setup' \in {"success", "failure"}
  /\ UNCHANGED <<action, job, seen, disk, store, red, lost, aggregate, record>>

(* The job of the cell c fails, for no fault of the cell.                  *)
JobFails(c) == red' = red \cup {c} /\ lost' = lost \cup {c}

(* load-cells fails: the cells of the wave get no job.                     *)
SkipWave(f) ==
  /\ WaveMayStart(f)
  /\ Wave(f) # {} /\ \A c \in Wave(f) : job[c] = "waiting"
  /\ job' = [c \in Cells |-> IF c \in Wave(f) THEN "ended" ELSE job[c]]
  /\ red' = red \cup Wave(f) /\ lost' = lost \cup Wave(f)
  /\ UNCHANGED <<action, setup, seen, disk, store, aggregate, record>>

MayStart(c) == c \in Runnable(action) /\ job[c] = "waiting" /\ WaveMayStart(CellOf[c].flow)

(* `services up run` begins: the run has a directory, and no result yet.   *)
BeginRun(c) ==
  /\ job' = [job EXCEPT ![c] = "running"]
  /\ disk' = [disk EXCEPT ![c].result = "running"]

(* A cell that depends on nothing skips the prerequisite steps.            *)
StartJob(c) ==
  /\ MayStart(c)
  /\ IF DependsOn(c, action) = {}
     THEN BeginRun(c)
     ELSE job' = [job EXCEPT ![c] = "download"] /\ UNCHANGED disk
  /\ UNCHANGED <<action, setup, seen, store, red, lost, aggregate, record>>

Available(c) == {d \in DependsOn(c, action) : store[d] # Nothing}

(* download-prereqs goes on to the next dependency when one is missing.    *)
Download(c) ==
  /\ job[c] = "download"
  /\ \E got \in SUBSET Available(c) :
       /\ seen' = [seen EXCEPT ![c] = got]
       /\ lost' = IF got = Available(c) THEN lost ELSE lost \cup {c}
  /\ job' = [job EXCEPT ![c] = "check"]
  /\ UNCHANGED <<action, setup, disk, store, red, aggregate, record>>

(* Mutant: any artifact of a dependency will do.                           *)
IsBlockedMissing(c) == \E d \in DependsOn(c, action) : d \notin seen[c]

(* eval-prereq-status: a dependency without a result.v1.json, or with one  *)
(* that does not say passed.                                               *)
IsBlocked(c) ==
  \E d \in DependsOn(c, action) : d \notin seen[c] \/ store[d].result # "passed"

CheckPrereqs(c) ==
  /\ job[c] = "check"
  /\ IF IsBlocked(c)
     THEN job' = [job EXCEPT ![c] = "blocking"] /\ UNCHANGED disk
     ELSE BeginRun(c)
  /\ UNCHANGED <<action, setup, seen, store, red, lost, aggregate, record>>

(* publish-envelope-safe only warns when it fails.                         *)
Envelopes(status) == {status, "none"}

EmitBlocked(c) ==
  /\ job[c] = "blocking"
  /\ \E e \in Envelopes("blocked") :
       disk' = [disk EXCEPT ![c] = [result |-> "blocked", envelope |-> e]]
  /\ job' = [job EXCEPT ![c] = "upload"]
  /\ UNCHANGED <<action, setup, seen, store, red, lost, aggregate, record>>

(* Mutant: only a test that failed makes the job fail.                     *)
ExitsWithZeroLax(result) == result # "failed"

ExitsWithZero(result) == result = "passed"

RunEnds(c) ==
  /\ job[c] = "running"
  /\ \E r \in Results : \E e \in Envelopes(r) :
       /\ disk' = [disk EXCEPT ![c] = [result |-> r, envelope |-> e]]
       /\ red' = IF ExitsWithZero(r) THEN red ELSE red \cup {c}
  /\ job' = [job EXCEPT ![c] = "upload"]
  /\ UNCHANGED <<action, setup, seen, store, lost, aggregate, record>>

(* A step of the job fails and the later ones are skipped, but the upload. *)
Break(c) ==
  /\ MayStart(c) \/ job[c] \in {"download", "check", "blocking", "running"}
  /\ job' = [job EXCEPT ![c] = "upload"]
  /\ JobFails(c)
  /\ UNCHANGED <<action, setup, seen, disk, store, aggregate, record>>

Upload(c) ==
  /\ job[c] = "upload"
  /\ job' = [job EXCEPT ![c] = "ended"]
  /\ \/ store' = [store EXCEPT ![c] = disk[c]] /\ UNCHANGED <<red, lost>>
     \/ JobFails(c) /\ UNCHANGED store
  /\ UNCHANGED <<action, setup, seen, disk, aggregate, record>>

(* The machine of the job is gone, or its time is up.                      *)
Lose(c) ==
  /\ job[c] \notin {"waiting", "ended"}
  /\ job' = [job EXCEPT ![c] = "ended"]
  /\ JobFails(c)
  /\ UNCHANGED <<action, setup, seen, disk, store, aggregate, record>>

-----------------------------------------------------------------------------
(* ci aggregate: the cells with an envelope, and those of the plan without *)
(* one. `ci plan --cell-ids` names every cell of the plan.                 *)
Expected == Cells
Recorded == {c \in Cells : store[c].envelope # "none"}

(* Mutant: the aggregate knows nothing of the plan.                        *)
UnrecordedNone == {}

Unrecorded == Expected \ Recorded

Entries ==
  {<<c, store[c].envelope>> : c \in Recorded} \cup
  {<<c, IF action[c] = "capability-skipped" THEN action[c] ELSE "missing">> :
     c \in Unrecorded}

(* Mutant: cells without an outcome are not counted.                       *)
CountedAsBlockedOnly == {"blocked"}

CountedAsBlocked == {"blocked", "missing"}

Count(statuses) == Cardinality({entry \in Entries : entry[2] \in statuses})

(* reconstruct-suite-index, of the merged manifest.                        *)
Reconstructed ==
  [status |-> OverallStatus({entry[2] : entry \in Entries}),
   entries |-> Entries,
   counts |-> [passed  |-> Count({"passed"}),
               failed  |-> Count(Failures),
               blocked |-> Count(CountedAsBlocked),
               skipped |-> Count({"capability-skipped"})]]

(* The aggregate job. It may fail, for one without an artifact, before it  *)
(* has written anything, and the archive may fail after it has.            *)
Aggregate ==
  /\ aggregate = "waiting" /\ setup = "success"
  /\ \A c \in Runnable(action) : job[c] = "ended"
  /\ \/ /\ Recorded # {}
        /\ record' = Reconstructed
        /\ aggregate' \in {"success", "failure"}
     \/ aggregate' = "failure" /\ UNCHANGED record
  /\ UNCHANGED <<action, setup, job, seen, disk, store, red, lost>>

-----------------------------------------------------------------------------
CellStep(c) ==
  \/ StartJob(c) \/ Download(c) \/ CheckPrereqs(c) \/ EmitBlocked(c)
  \/ RunEnds(c) \/ Break(c) \/ Upload(c) \/ Lose(c)

Next ==
  \/ Setup \/ Aggregate
  \/ \E f \in Flows : SkipWave(f)
  \/ \E c \in Cells : CellStep(c)

Spec == Init /\ [][Next]_vars

(* GitHub starts every job whose needs are met and ends every job, if need *)
(* be at its time limit.                                                   *)
FairSpec == Spec /\ WF_vars(Next)

-----------------------------------------------------------------------------
(* What the pipeline looks like to PrereqGate. A run that has ended without*)
(* a result has failed; a job that never got to run or to block is pending.*)
GateStatus ==
  [c \in Cells |->
     CASE job[c] = "running" -> "running"
       [] job[c] # "running" /\ disk[c].result = "none" -> "pending"
       [] job[c] # "running" /\ disk[c].result \in {"passed", "blocked"} ->
            disk[c].result
       [] OTHER -> "failed"]

GateDeps == [c \in Cells |-> DependsOn(c, action)]

Gate == INSTANCE PrereqGate
          WITH status <- GateStatus, deps <- GateDeps

(* The pipeline keeps the promise of PrereqGate: with any loss of machines *)
(* and artifacts no cell runs before all it depends on has passed, and one *)
(* is blocked only because of one of those or of what the two have lost    *)
(* (prereq-status.nu, ci-run-cell.yml.tpl:69-154).                         *)
KeepsTheGate == Gate!Spec

(* The aggregate never turns something lost into a pass: a record that     *)
(* says passed has a passed result behind every cell that was to run, and  *)
(* the aggregate has seen it (aggregate.nu:105-243).                       *)
PassedMeansEveryCellPassed ==
  record.status = "passed" =>
    \A c \in Runnable(action) : disk[c].result = "passed" /\ store[c] = disk[c]

(* Every cell of the plan has one entry in the record and is in one of its *)
(* counts, lost ones included, and no entry tells another outcome than the *)
(* machine of the cell has seen (aggregate.nu:383-482).                    *)
RecordIsComplete ==
  record.status # "absent" =>
    /\ \A c \in Cells :
         \E s \in Results \cup {"blocked", "missing", "capability-skipped"} :
           /\ <<c, s>> \in record.entries
           /\ \A e \in record.entries : e[1] = c => e[2] = s
           /\ s \in Results \cup {"blocked"} => disk[c].result = s
    /\ record.counts.passed + record.counts.failed + record.counts.blocked
         + record.counts.skipped = Cardinality(Cells)

(* The cells and the aggregate read different files of an artifact at      *)
(* different times, and agree: in a record in which a cell has an outcome  *)
(* of its own, all it depends on has passed or is missing.                 *)
DependentsAgreeWithTheRecord ==
  \A e \in record.entries : e[2] \in Results =>
    \A d \in DependsOn(e[1], action) :
      <<d, "passed">> \in record.entries \/ <<d, "missing">> \in record.entries

(* A green run, which is the one a manual rebuild of the site looks for    *)
(* (source-run.nu:10-34), has no cell that failed; if nothing got lost it  *)
(* has none that was blocked either.                                       *)
GreenRunsHaveNoFailure ==
  aggregate = "success" /\ red = {} =>
    \A c \in Runnable(action) :
      disk[c].result = "passed" \/ (disk[c].result = "blocked" /\ lost # {})

(* A wave that failed stops nothing (`if: always()`, `fail-fast: false`):  *)
(* the aggregate job gets its turn, and until then every cell has passed,  *)
(* failed or been blocked with its artifact uploaded, or its job was lost. *)
EveryCellIsDecided ==
  setup = "success" ~>
    /\ aggregate # "waiting"
    /\ \A c \in Runnable(action) :
         /\ job[c] = "ended"
         /\ c \in lost \/ store[c].result \in Results \cup {"blocked"}

-----------------------------------------------------------------------------
(* What the documentation says and the code does not do.                   *)

(* "reconstruct a single suite-manifest from per-cell artifact             *)
(* directories, as if the suite had been a single run" (aggregate.nu): if  *)
(* no cell got lost the status is that of the cells that were run or       *)
(* skipped, as in the record of a local suite.                             *)
AggregateIsTheSuite ==
  Runnable(action) \subseteq Recorded /\ record.status # "absent" =>
    record.status =
      OverallStatus({disk[c].result : c \in Runnable(action)} \cup
                    {s \in {"capability-skipped"} : \E c \in Cells : action[c] = s})

=============================================================================
