------------------------------ MODULE SuiteRunner ------------------------------
(***************************************************************************)
(* `test cypress suite` (domains/test/cypress-suite.nu): one process that  *)
(* takes the cells of the plan one by one and runs `services up run` as a  *)
(* child for each, or blocks or skips it. It and its children write the    *)
(* record of the suite (lib/suite/index.nu) and the artifacts of the       *)
(* cells; it moves the marker of the latest suite. RunLifecycle is what    *)
(* goes on inside a child.                                                 *)
(***************************************************************************)
EXTENDS SuitePlan

CONSTANTS
  NoCell,   \* no child is running
  Limits    \* the values of --max, 0 for none

ASSUME RunnerAssumption ==
  /\ NoCell \notin Cells
  /\ Limits \subseteq Nat

VARIABLES
  action,     \* what the capability gate says of each cell
  opts,       \* --stop-on-fail and --max
  pc,         \* where the suite runner is
  child,      \* the cell whose `services up run` is running
  outcome,    \* which of the runner's lists and counters each cell is in
  record,     \* artifacts/suites/runs/<suite_id>.json
  artifact,   \* the status in each cell's meta/result.v1.json
  latest,     \* artifacts/suites/LATEST_SUITE_ID: this suite, or an earlier one
  exit,       \* the exit code of the command
  saveFailed  \* history: a save has failed, with a warning, since the start

vars == <<action, opts, pc, child, outcome, record, artifact, latest, exit,
          saveFailed>>

-----------------------------------------------------------------------------
Results  == {"passed", "failed", "infra-failed", "cleanup-failed"}
Outcomes == {"none", "passed", "failed", "blocked", "skipped",
             "capability-skipped"}
Ended    == {"done", "killed"}
Pcs      == Ended \cup {"init", "gated", "loop", "child", "tail", "finish",
                        "mark", "publish"}

NoCounts  == [o \in Outcomes \ {"none"} |-> 0]
NoRecord  == [status |-> "absent", entries |-> {}, counts |-> NoCounts]

RecordState ==
  [status : {"absent", "running", "passed", "failed", "blocked", "missing",
             "unknown"},
   entries : SUBSET (Cells \X (Results \cup Outcomes)),
   counts : [Outcomes \ {"none"} -> Nat]]

TypeOK ==
  /\ action \in [Cells -> Actions]
  /\ opts \in [stop : BOOLEAN, max : Limits]
  /\ pc \in Pcs
  /\ child \in Cells \cup {NoCell}
  /\ outcome \in [Cells -> Outcomes]
  /\ record \in RecordState
  /\ artifact \in [Cells -> Results \cup {"none", "blocked", "capability-skipped"}]
  /\ latest \in {"earlier", "this"}
  /\ exit \in {"none", "ok", "failure"}
  /\ saveFailed \in BOOLEAN

Init ==
  /\ action \in [Cells -> Actions]
  /\ opts \in [stop : BOOLEAN, max : Limits]
  /\ pc = "init"
  /\ child = NoCell
  /\ outcome = [c \in Cells |-> "none"]
  /\ record = NoRecord
  /\ artifact = [c \in Cells |-> "none"]
  /\ latest = "earlier"
  /\ exit = "none"
  /\ saveFailed = FALSE

-----------------------------------------------------------------------------
(* cells_to_run: the runnable cells, or the first `max` of them.           *)
Earlier(c) == {d \in Runnable(action) : Before(d, c)}

Scheduled ==
  {c \in Runnable(action) : opts.max = 0 \/ Cardinality(Earlier(c)) < opts.max}

Gated == {c \in Cells : action[c] = "capability-skipped"}

With(o) == {c \in Cells : outcome[c] = o}

(* Mutant: a blocked cell is not done with.                                *)
RemainingBlocked == {c \in Scheduled : outcome[c] \in {"none", "blocked"}}

Remaining == {c \in Scheduled : outcome[c] = "none"}

IsNext(c) == c \in Remaining /\ \A d \in Remaining \ {c} : Before(c, d)

(* A save that fails is only warned of.                                    *)
Notice(saved) == saveFailed' = IF saved THEN saveFailed ELSE TRUE

(* An entry of the record.                                                 *)
AddEntry(c, status, saved) ==
  record' = IF saved THEN [record EXCEPT !.entries = @ \cup {<<c, status>>}]
            ELSE record

(* emit-terminal-cell-artifact.                                            *)
Emit(c, status, saved) ==
  artifact' = IF saved THEN [artifact EXCEPT ![c] = status] ELSE artifact

(* A cell that is not run is done with.                                    *)
Account(c, status) ==
  /\ outcome' = [outcome EXCEPT ![c] = status]
  /\ \E emitted, added \in BOOLEAN :
       /\ Emit(c, status, emitted)
       /\ AddEntry(c, status, added)
       /\ Notice(emitted /\ added)

(* init-suite-record, unless there is nothing to run and nothing to skip.  *)
InitRecord ==
  /\ pc = "init"
  /\ IF Scheduled \cup Gated # {}
     THEN /\ record' = [NoRecord EXCEPT !.status = "running"]
          /\ pc' = "gated"
     ELSE /\ pc' = "mark"
          /\ UNCHANGED record
  /\ UNCHANGED <<action, opts, child, outcome, artifact, latest, exit, saveFailed>>

SkipGated(c) ==
  /\ pc = "gated"
  /\ c \in Gated /\ outcome[c] = "none"
  /\ Account(c, "capability-skipped")
  /\ UNCHANGED <<action, opts, pc, child, latest, exit>>

StartLoop ==
  /\ pc = "gated"
  /\ \A c \in Gated : outcome[c] # "none"
  /\ pc' = "loop"
  /\ UNCHANGED <<action, opts, child, outcome, record, artifact, latest, exit, saveFailed>>

(* Mutant: only failed cells block.                                        *)
UnavailableFailedOnly == With("failed")

Unavailable == With("failed") \cup With("blocked")

(* eval-blocked-cells of the next cell.                                    *)
IsBlocked(c) == DependsOn(c, action) \cap Unavailable # {}

BlockCell(c) ==
  /\ pc = "loop" /\ IsNext(c)
  /\ IsBlocked(c)
  /\ Account(c, "blocked")
  /\ UNCHANGED <<action, opts, pc, child, latest, exit>>

RunCell(c) ==
  /\ pc = "loop" /\ IsNext(c)
  /\ ~IsBlocked(c)
  /\ child' = c
  /\ pc' = "child"
  /\ UNCHANGED <<action, opts, outcome, record, artifact, latest, exit, saveFailed>>

(* The child has a result, and with or without an entry in the record.     *)
ChildReports ==
  /\ child # NoCell /\ artifact[child] = "none"
  /\ \E r \in Results :
       /\ artifact' = [artifact EXCEPT ![child] = r]
       /\ \/ record' = [record EXCEPT !.entries = @ \cup {<<child, r>>}]
          \/ UNCHANGED record
  /\ UNCHANGED <<action, opts, pc, child, outcome, latest, exit, saveFailed>>

(* Mutant: a child that has reported has passed.                           *)
ExitsWithZeroAny == artifact[child] # "none"

(* Its exit code is 0 only if it has passed, and then an entry that is not *)
(* there could not be saved. It may be another one whatever it has written:*)
(* `up run` can abort after the verdict, or be killed.                     *)
ExitsWithZero == artifact[child] = "passed"

ChildPasses ==
  /\ pc = "child" /\ ExitsWithZero
  /\ outcome' = [outcome EXCEPT ![child] = "passed"]
  /\ child' = NoCell
  /\ pc' = "loop"
  /\ Notice(<<child, "passed">> \in record.entries)
  /\ UNCHANGED <<action, opts, record, artifact, latest, exit>>

(* Mutant: --stop-on-fail is not looked at.                                *)
AfterFailureGoOn == "loop"

(* Mutant: the cells after the failed one are not recorded.                *)
AfterFailureNoTail == IF opts.stop THEN "finish" ELSE "loop"

AfterFailure == IF opts.stop THEN "tail" ELSE "loop"

ChildFails ==
  /\ pc = "child"
  /\ outcome' = [outcome EXCEPT ![child] = "failed"]
  /\ child' = NoCell
  /\ pc' = AfterFailure
  /\ UNCHANGED <<action, opts, record, artifact, latest, exit, saveFailed>>

(* stop-on-fail-tail: everything after the failed cell.                    *)
SkipCell(c) ==
  /\ pc = "tail" /\ IsNext(c)
  /\ outcome' = [outcome EXCEPT ![c] = "skipped"]
  /\ \E added \in BOOLEAN : AddEntry(c, "skipped", added) /\ Notice(added)
  /\ UNCHANGED <<action, opts, pc, child, artifact, latest, exit>>

EndLoop ==
  /\ pc \in {"loop", "tail"} /\ Remaining = {}
  /\ pc' = "finish"
  /\ UNCHANGED <<action, opts, child, outcome, record, artifact, latest, exit, saveFailed>>

-----------------------------------------------------------------------------
(* finish-suite-record makes a list of statuses of its counts, in which a  *)
(* skipped cell is missing.                                                *)
SyntheticStatuses ==
  {IF outcome[c] = "skipped" THEN "missing" ELSE outcome[c] :
     c \in {d \in Cells : outcome[d] # "none"}}

Counts == [o \in Outcomes \ {"none"} |-> Cardinality(With(o))]

FinishRecord ==
  /\ pc = "finish"
  /\ \/ /\ record' = [record EXCEPT !.status = OverallStatus(SyntheticStatuses),
                                    !.counts = Counts]
        /\ UNCHANGED saveFailed
     \/ saveFailed' = TRUE /\ UNCHANGED record
  /\ pc' = "mark"
  /\ UNCHANGED <<action, opts, child, outcome, artifact, latest, exit>>

(* Mutant: a partial suite is the latest one, too.                         *)
LatestAlways == "this"

LatestNow == IF opts.max = 0 THEN "this" ELSE latest

(* update-latest-suite-id; without a cell to run that is the end.          *)
Mark ==
  /\ pc = "mark"
  /\ latest' = LatestNow
  /\ IF Scheduled = {}
     THEN pc' = "done" /\ exit' = "ok"
     ELSE pc' = "publish" /\ UNCHANGED exit
  /\ UNCHANGED <<action, opts, child, outcome, record, artifact, saveFailed>>

(* Mutant: only the publication counts.                                    *)
ExitCodeOfPublish(published) == IF published THEN "ok" ELSE "failure"

ExitCode(published) ==
  IF With("failed") = {} /\ published THEN "ok" ELSE "failure"

(* --publish-site and --optimize: they fail, or they do not.               *)
Publish ==
  /\ pc = "publish"
  /\ \E published \in BOOLEAN : exit' = ExitCode(published)
  /\ pc' = "done"
  /\ UNCHANGED <<action, opts, child, outcome, record, artifact, latest, saveFailed>>

(* The suite runner is killed. Its child is killed with it, or still       *)
(* reports.                                                                *)
Kill ==
  /\ pc \notin Ended
  /\ pc' = "killed"
  /\ UNCHANGED <<action, opts, child, outcome, record, artifact, latest, exit, saveFailed>>

-----------------------------------------------------------------------------
Step ==
  \/ InitRecord \/ StartLoop \/ ChildReports \/ ChildPasses \/ ChildFails
  \/ EndLoop \/ FinishRecord \/ Mark \/ Publish
  \/ \E c \in Cells : SkipGated(c) \/ BlockCell(c) \/ RunCell(c) \/ SkipCell(c)

Next == Step \/ Kill

Spec == Init /\ [][Next]_vars

(* The process goes on, and `services up run` returns: it waits for docker *)
(* and for Cypress, whose own timeouts end a test.                         *)
FairSpec == Spec /\ WF_vars(Step)

-----------------------------------------------------------------------------
(* What the suite looks like to PrereqGate. A cell the suite has not come  *)
(* to, or leaves out, is pending.                                          *)
GateStatus ==
  [c \in Cells |->
     CASE c = child -> "running"
       [] c # child /\ outcome[c] \in {"none", "capability-skipped"} -> "pending"
       [] OTHER -> outcome[c]]

GateDeps == [c \in Cells |-> DependsOn(c, action)]

Gate == INSTANCE PrereqGate
          WITH status <- GateStatus, deps <- GateDeps, lost <- {}

(* The local runner keeps the promise of PrereqGate, for any --max and     *)
(* --stop-on-fail and whatever the gate leaves out: nothing runs before    *)
(* what it depends on has passed, and nothing is blocked for another       *)
(* reason (cypress-suite.nu:137-200).                                      *)
KeepsTheGate == Gate!Spec

(* A record that says passed (index.nu:202-234) is backed by every cell    *)
(* that was scheduled: its own artifact says so, and so does its entry,    *)
(* unless a save has failed.                                               *)
PassedMeansEveryCellPassed ==
  record.status = "passed" =>
    \A c \in Scheduled :
      /\ artifact[c] = "passed"
      /\ saveFailed \/ <<c, "passed">> \in record.entries

(* The counts of a finished record cover every cell that was scheduled or  *)
(* gated exactly once, killed children and blocked cells included, and no  *)
(* entry contradicts another one or the count its cell is in. An entry     *)
(* whose save failed may be missing (index.nu:74-167).                     *)
RecordIsComplete ==
  record.status \notin {"absent", "running"} =>
    /\ record.counts["passed"] + record.counts["failed"]
         + record.counts["blocked"] + record.counts["skipped"]
       = Cardinality(Scheduled)
    /\ record.counts["capability-skipped"] = Cardinality(Gated)
    /\ \A c \in Cells, s, t \in Results \cup Outcomes :
         <<c, s>> \in record.entries =>
           /\ <<c, t>> \in record.entries => s = t
           /\ s \notin Results => outcome[c] = s
           /\ s \in Failures => outcome[c] = "failed"

(* Exit code 0 and a failing record never go together, and neither exit    *)
(* code nor record calls a suite good that left a cell out for a failure   *)
(* (cypress-suite.nu:306-308, status.nu).                                  *)
ExitAgreesWithRecord ==
  exit = "ok" =>
    /\ record.status \in {"passed", "absent"} \/ (saveFailed /\ record.status = "running")
    /\ \A c \in Scheduled : outcome[c] = "passed"

(* The cell that is running has no dependency that is still to come, that  *)
(* failed, was blocked or was left out of this suite by --max: what        *)
(* CapabilitiesFirst makes of looking back only (cypress-suite.nu:137-180).*)
DependenciesHavePassed ==
  child # NoCell => DependsOn(child, action) \subseteq With("passed")

(* --stop-on-fail (cypress-suite.nu:186-198): once a cell has failed, none *)
(* is started any more, and what was left is skipped, not blocked.         *)
StopsAtTheFirstFailure ==
  [][opts.stop /\ With("failed") # {} =>
       child' = NoCell /\ \A c \in Cells : outcome'[c] = "blocked" => outcome[c] = "blocked"]_vars

(* The marker that `site publish --latest-suite` and `artifacts prune      *)
(* --latest-suite` follow moves only to a complete suite with a finished   *)
(* record, also if the runner is killed on the way (index.nu:66-70).       *)
LatestIsFinished ==
  latest = "this" /\ Scheduled \cup Gated # {} =>
    /\ opts.max = 0
    /\ Scheduled = Runnable(action)
    /\ record.status # "running" \/ saveFailed

(* The suite ends, with every cell that was scheduled accounted for.       *)
SuiteEnds ==
  <>(pc = "killed" \/ (pc = "done" /\ Remaining = {}))

=============================================================================
