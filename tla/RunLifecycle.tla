----------------------------- MODULE RunLifecycle -----------------------------
(***************************************************************************)
(* The life of one cell execution on a developer machine or a CI runner:   *)
(* the commands `services up`, `services up run`, `services up open`,      *)
(* `services down`, `test cypress run` and `artifacts prune`, each a       *)
(* process of its own, that share the artifacts directory of an execution, *)
(* its temporary compose directory and its docker project, and hold no     *)
(* lock on any of them.                                                    *)
(*                                                                         *)
(* One step is one file written or one docker call: another command, or a  *)
(* kill, may come between any two of them.                                 *)
(***************************************************************************)
EXTENDS FiniteSets

CONSTANTS
  Execs,          \* execution ids of one (flow, pair); each is brought up once
  Procs,          \* command invocations; each runs one command
  NoExec,         \* no LAST_EXECUTION_ID marker
  TwoParty,       \* whether the cell has a receiver
  TestEnv,        \* whether the operator supplies what `test cypress run` looks for
                  \* outside the artifacts: config/compose/runner-ci.yml, which the
                  \* repository does not have, and the image variables
  MayFail,        \* whether docker and its validation may fail by themselves
  Used,           \* the commands the operators of this instance use
  PruneScopes     \* the --scope values they pass to `artifacts prune`

ASSUME LifecycleAssumption ==
  /\ NoExec \notin Execs
  /\ {TwoParty, TestEnv, MayFail} \subseteq BOOLEAN
  /\ Used \subseteq {"up", "run", "open", "down", "test", "prune", "evidence"}
  /\ PruneScopes \subseteq {"non-latest", "all"}

VARIABLES
  files,      \* artifacts/<flow>/<pair>/<execution_id>
  host,       \* /tmp/ocmts/<execution_id> and the docker project of the execution
  last,       \* artifacts/<flow>/<pair>/LAST_EXECUTION_ID
  suiteRuns,  \* entries of the suite record, <<execution, status>>
  proc,       \* the command processes
  crossed     \* history: executions two live commands have worked on at once

vars == <<files, host, last, suiteRuns, proc, crossed>>

-----------------------------------------------------------------------------
BringUp     == {"up", "run", "open"}
Commands    == BringUp \cup {"down", "test", "prune", "evidence"}
Verdicts    == {"passed", "failed"}
Broken      == {"infra-failed", "cleanup-failed"}
Nonterminal == {"prepared", "active", "open"}
DownStates  == {"stopped", "down-failed"}
RunStatuses == Nonterminal \cup Verdicts \cup Broken \cup DownStates

(* The commands' program counters; "done" is an end the code handles,      *)
(* "aborted" an error that nothing catches.                                *)
Ended == {"done", "aborted"}
Pcs   == Ended \cup
         {"idle", "prepare", "mark", "compose", "validate", "up", "images",
          "dev", "devCompose", "devUp", "validateRunner", "runCompose",
          "cypress", "down", "writeRun", "writeResult", "teardown", "record",
          "publish", "envelope", "cleanTemp", "lifecycle", "delete"}

(* `dir` is "meta" when only a meta/ directory exists, recreated after a   *)
(* prune; a directory without meta/ counts as none. `run`, `result` and    *)
(* `envelope` are the status in meta/run.json, meta/result.v1.json and     *)
(* meta/suite-manifest.v1.json; `error` and `reason` say whether the first *)
(* carries an error and the last a failure_reason.                         *)
NoFiles == [dir |-> "none", compose |-> FALSE, run |-> "absent",
            error |-> FALSE, result |-> "absent", envelope |-> "absent",
            reason |-> FALSE]

Idle == [cmd |-> "none", exec |-> NoExec, pc |-> "idle", keepUp |-> FALSE,
         suite |-> FALSE, teardown |-> "no", outcome |-> "none",
         seen |-> "none", seenReason |-> FALSE, dead |-> FALSE]

Results == Verdicts \cup Broken

FileState == [dir : {"none", "meta", "full"}, compose : BOOLEAN,
              run : RunStatuses \cup {"absent"}, error : BOOLEAN,
              result : Results \cup {"absent"},
              envelope : Results \cup {"absent"}, reason : BOOLEAN]

HostState == [temp : BOOLEAN, stack : {"none", "partial", "up"}]

(* `outcome` is the status the command is about to record, `teardown`      *)
(* whether the stack of a failed phase is to be torn down before it ends,  *)
(* `seen` and `seenReason` what it has read for the envelope it is about   *)
(* to save.                                                                *)
ProcState == [cmd : Commands \cup {"none"}, exec : Execs \cup {NoExec},
              pc : Pcs, keepUp : BOOLEAN, suite : BOOLEAN,
              teardown : {"no", "todo", "failed"},
              outcome : Results \cup DownStates \cup {"none"},
              seen : Results \cup {"none"}, seenReason : BOOLEAN,
              dead : BOOLEAN]

TypeOK ==
  /\ files \in [Execs -> FileState]
  /\ host \in [Execs -> HostState]
  /\ last \in Execs \cup {NoExec}
  /\ suiteRuns \subseteq Execs \X Results
  /\ proc \in [Procs -> ProcState]
  /\ crossed \subseteq Execs

Init ==
  /\ files = [e \in Execs |-> NoFiles]
  /\ host = [e \in Execs |-> [temp |-> FALSE, stack |-> "none"]]
  /\ last = NoExec
  /\ suiteRuns = {}
  /\ proc = [p \in Procs |-> Idle]
  /\ crossed = {}

-----------------------------------------------------------------------------
At(p, where) == proc[p].pc = where /\ ~proc[p].dead

Live(p) == proc[p].pc \notin Ended \cup {"idle"} /\ ~proc[p].dead

LiveOn(e) == {p \in Procs : Live(p) /\ proc[p].exec = e}

Exec(p) == proc[p].exec

Goto(p, where) == proc' = [proc EXCEPT ![p].pc = where]

(* Mutants of FailPhase: the failed phase is not reported, the stack is    *)
(* left.                                                                   *)
FailPhaseSilent(p, teardown) == Goto(p, "cleanTemp")

FailPhaseNoTeardown(p, teardown) ==
  proc' = [proc EXCEPT ![p].pc = "writeRun", ![p].outcome = "infra-failed"]

(* with-infra-fail-cleanup and its copies in up-run.nu and up-open.nu: the *)
(* phase failed, infra-failed is to be reported and, if asked, the stack   *)
(* torn down.                                                              *)
FailPhase(p, teardown) ==
  proc' = [proc EXCEPT ![p].pc = "writeRun", ![p].outcome = "infra-failed",
                       ![p].teardown = IF teardown THEN "todo" ELSE "no"]

(* A save into a directory that is gone is an error nothing catches.       *)
SaveOrAbort(p, possible, new, next) ==
  \/ /\ possible
     /\ files' = [files EXCEPT ![Exec(p)] = new]
     /\ Goto(p, next)
  \/ /\ ~possible
     /\ Goto(p, "aborted")
     /\ UNCHANGED files

(* The compose files of a bring-up command are those in its temporary      *)
(* directory, with the env file in the artifacts; the other commands use   *)
(* the copies in the artifacts.                                            *)
FilesReady(p) ==
  /\ files[Exec(p)].dir = "full"
  /\ proc[p].cmd \in BringUp => host[Exec(p)].temp

MayFailNow(p) == MayFail \/ ~FilesReady(p)

(* The docker calls of process p leave the stack of its execution in one   *)
(* of `states`, and touch nothing without the compose files.               *)
StackBecomes(p, states) ==
  \E s \in IF FilesReady(p) THEN states \cup {host[Exec(p)].stack}
                            ELSE {host[Exec(p)].stack} :
    host' = [host EXCEPT ![Exec(p)].stack = s]

(* What `compose up`, `compose run` (which starts the services Cypress     *)
(* depends on) and `compose down` can leave when they fail or are killed.  *)
HalfUp   == {"partial", "up"}
HalfDown(e) == IF host[e].stack = "none" THEN {} ELSE {"partial"}

-----------------------------------------------------------------------------
(* Starting a command on e; from here on no other command knows of it.     *)
Start(p, cmd, e, pc) ==
  /\ cmd \in Used
  /\ proc[p].pc = "idle"
  /\ proc' = [proc EXCEPT ![p] = [Idle EXCEPT !.cmd = cmd, !.exec = e, !.pc = pc]]
  /\ crossed' = IF LiveOn(e) = {} THEN crossed ELSE crossed \cup {e}

(* setup-run-context up to init-artifact-dirs: a new execution id. Only    *)
(* `up run` knows --keep-up, and the suite runner never passes it.         *)
InitDirs(p, e, cmd, keepUp, suite) ==
  /\ cmd \in Used /\ proc[p].pc = "idle"
  /\ \A q \in Procs : proc[q].exec # e
  /\ keepUp \/ suite => cmd = "run"
  /\ ~(keepUp /\ suite)
  /\ proc' = [proc EXCEPT ![p] = [Idle EXCEPT !.cmd = cmd, !.exec = e,
                                  !.pc = "prepare", !.keepUp = keepUp,
                                  !.suite = suite]]
  /\ files' = [files EXCEPT ![e] = [NoFiles EXCEPT !.dir = "full"]]
  /\ UNCHANGED <<host, last, suiteRuns, crossed>>

(* The compose overlays go to the temporary directory and the artifacts,   *)
(* cell.json and run.json to meta/.                                        *)
WritePrepared(p) ==
  /\ At(p, "prepare")
  /\ host' = [host EXCEPT ![Exec(p)].temp = TRUE]
  /\ LET f == files[Exec(p)]
     IN  SaveOrAbort(p, f.dir = "full", [f EXCEPT !.run = "prepared"], "mark")
  /\ UNCHANGED <<last, suiteRuns, crossed>>

(* Mutant: every command writes the manifest late.                         *)
AfterMarkLate(p) == "validate"

AfterMark(p) == IF proc[p].cmd = "open" THEN "validate" ELSE "compose"

WriteMarker(p) ==
  /\ At(p, "mark")
  /\ last' = Exec(p)
  /\ Goto(p, AfterMark(p))
  /\ UNCHANGED <<files, host, suiteRuns, crossed>>

(* write-compose-manifest: `up open` writes the manifest only after the    *)
(* stack is up, and both it and `up run` rewrite it once they add a runner *)
(* to it.                                                                  *)
WriteCompose(p) ==
  LET after == [compose    |-> IF proc[p].cmd = "open" THEN "dev" ELSE "validate",
                runCompose |-> "cypress",
                devCompose |-> "devUp"]
      f == files[Exec(p)]
  IN  /\ proc[p].pc \in DOMAIN after /\ ~proc[p].dead
      /\ SaveOrAbort(p, f.dir = "full", [f EXCEPT !.compose = TRUE],
                     after[proc[p].pc])
      /\ UNCHANGED <<host, last, suiteRuns, crossed>>

(* The validations before the platform, of the base file set ...           *)
ValidateBase(p) ==
  /\ At(p, "validate")
  /\ \/ FilesReady(p) /\ Goto(p, "up")
     \/ MayFailNow(p) /\ FailPhase(p, FALSE)
  /\ UNCHANGED <<files, host, last, suiteRuns, crossed>>

(* ... and of the file set with Cypress in it, by `up run` and             *)
(* `test cypress run`. The latter never tears a stack down.                *)
ValidateRunner(p) ==
  /\ At(p, "validateRunner")
  /\ LET test == proc[p].cmd = "test"
     IN  \/ /\ FilesReady(p) /\ (test => TestEnv)
            /\ Goto(p, IF test THEN "cypress" ELSE "runCompose")
         \/ /\ MayFailNow(p) \/ (test /\ ~TestEnv)
            /\ FailPhase(p, ~test /\ ~proc[p].keepUp)
  /\ UNCHANGED <<files, host, last, suiteRuns, crossed>>

ComposeUp(p) ==
  /\ At(p, "up")
  /\ \/ /\ FilesReady(p)
        /\ host' = [host EXCEPT ![Exec(p)].stack = "up"]
        /\ Goto(p, "images")
     \/ /\ MayFailNow(p)
        /\ StackBecomes(p, HalfUp)
        /\ FailPhase(p, ~proc[p].keepUp)
  /\ UNCHANGED <<files, last, suiteRuns, crossed>>

(* emit-cell-images makes the meta directory it writes to. Only `up` runs  *)
(* it under with-infra-fail-cleanup.                                       *)
EmitImages(p) ==
  /\ At(p, "images")
  /\ \/ /\ files' = [files EXCEPT ![Exec(p)].dir = IF @ = "none" THEN "meta" ELSE @]
        /\ Goto(p, CASE proc[p].cmd = "run"  -> "validateRunner"
                     [] proc[p].cmd = "up"   -> "lifecycle"
                     [] proc[p].cmd = "open" -> "compose")
     \/ /\ MayFail
        /\ IF proc[p].cmd = "up" THEN FailPhase(p, TRUE) ELSE Goto(p, "aborted")
        /\ UNCHANGED files
  /\ UNCHANGED <<host, last, suiteRuns, crossed>>

(* `up open`: validate the file set with cypress_dev; later start it and   *)
(* look its port up.                                                       *)
ValidateDev(p) ==
  /\ At(p, "dev")
  /\ \/ FilesReady(p) /\ Goto(p, "devCompose")
     \/ MayFailNow(p) /\ FailPhase(p, TRUE)
  /\ UNCHANGED <<files, host, last, suiteRuns, crossed>>

(* Mutant: the outcome of starting cypress_dev is not looked at.           *)
DevUpUnchecked(p) ==
  /\ At(p, "devUp")
  /\ StackBecomes(p, HalfUp)
  /\ Goto(p, "lifecycle")
  /\ UNCHANGED <<files, last, suiteRuns, crossed>>

DevUp(p) ==
  /\ At(p, "devUp")
  /\ \/ /\ FilesReady(p)
        /\ host' = [host EXCEPT ![Exec(p)].stack = "up"]
        /\ Goto(p, "lifecycle")
     \/ /\ MayFailNow(p)
        /\ StackBecomes(p, HalfUp)
        /\ FailPhase(p, TRUE)
  /\ UNCHANGED <<files, last, suiteRuns, crossed>>

(* Mutant: a failed teardown is reported like any other.                   *)
LifecycleStatusStopped(p) ==
  CASE proc[p].cmd = "up"   -> "active"
    [] proc[p].cmd = "open" -> "open"
    [] proc[p].cmd = "down" -> "stopped"

LifecycleStatus(p) ==
  CASE proc[p].cmd = "up"   -> "active"
    [] proc[p].cmd = "open" -> "open"
    [] proc[p].cmd = "down" -> proc[p].outcome

(* update-run-lifecycle, a no-op without run.json: the last step of `up`,  *)
(* `up open` and `down`.                                                   *)
Lifecycle(p) ==
  /\ At(p, "lifecycle")
  /\ files' = IF files[Exec(p)].run = "absent" THEN files
              ELSE [files EXCEPT
                      ![Exec(p)].run   = LifecycleStatus(p),
                      ![Exec(p)].error = (LifecycleStatus(p) = "down-failed")]
  /\ Goto(p, "done")
  /\ UNCHANGED <<host, last, suiteRuns, crossed>>

(* run-cypress-ci. Any exit code but 0, docker's own failures included, is *)
(* a failed run; a directory that is gone may come back as the one for the *)
(* warning that there is no log.                                           *)
Cypress(p) ==
  /\ At(p, "cypress")
  /\ \E verdict \in Verdicts :
       /\ proc' = [proc EXCEPT
            ![p].outcome = verdict,
            ![p].pc = IF proc[p].cmd = "run" /\ ~proc[p].keepUp THEN "down"
                      ELSE "writeRun"]
       /\ \/ /\ verdict = "passed" /\ FilesReady(p)
             /\ host' = [host EXCEPT ![Exec(p)].stack = "up"]
          \/ /\ verdict = "failed"
             /\ StackBecomes(p, HalfUp)
  /\ \/ UNCHANGED files
     \/ /\ files[Exec(p)].dir = "none"
        /\ files' = [files EXCEPT ![Exec(p)].dir = "meta"]
  /\ UNCHANGED <<last, suiteRuns, crossed>>

(* The end of `up run`: validate the file set, compose down, network gone. *)
RunDown(p) ==
  /\ At(p, "down") /\ proc[p].cmd = "run"
  /\ \/ /\ FilesReady(p)
        /\ host' = [host EXCEPT ![Exec(p)].stack = "none"]
        /\ Goto(p, "writeRun")
     \/ /\ MayFailNow(p)
        /\ StackBecomes(p, HalfDown(Exec(p)))
        /\ proc' = [proc EXCEPT ![p].pc = "writeRun",
                                ![p].outcome = "cleanup-failed"]
  /\ UNCHANGED <<files, last, suiteRuns, crossed>>

(* `services down` does the same and reports it in run.json only.          *)
Down(p) ==
  /\ At(p, "down") /\ proc[p].cmd = "down"
  /\ \/ /\ FilesReady(p)
        /\ host' = [host EXCEPT ![Exec(p)].stack = "none"]
        /\ proc' = [proc EXCEPT ![p].pc = "cleanTemp", ![p].outcome = "stopped"]
     \/ /\ MayFailNow(p)
        /\ StackBecomes(p, HalfDown(Exec(p)))
        /\ proc' = [proc EXCEPT ![p].pc = "cleanTemp", ![p].outcome = "down-failed"]
  /\ UNCHANGED <<files, last, suiteRuns, crossed>>

(* Mutant: write-terminal-run where write-terminal-outcome is needed.      *)
AfterRunNoResult(p) == "publish"

AfterRun(p) == "writeResult"

(* finalize-run and write-terminal-outcome: two saves, run.json first.     *)
WriteRun(p) ==
  /\ At(p, "writeRun")
  /\ LET f == files[Exec(p)]
     IN  SaveOrAbort(p, f.dir # "none",
                     [f EXCEPT !.run = proc[p].outcome,
                               !.error = proc[p].outcome \in Broken],
                     AfterRun(p))
  /\ UNCHANGED <<host, last, suiteRuns, crossed>>

(* A broken suite run is recorded before it is published, unless it broke  *)
(* again in overwrite-cleanup-failed.                                      *)
RecordsBroken(p) ==
  proc[p].suite /\ proc[p].outcome \in Broken /\ proc[p].teardown # "failed"

(* Mutant: `test cypress run` forgets to publish.                          *)
AfterResultNoPublish(p) ==
  IF proc[p].cmd = "test" THEN "done"
  ELSE IF proc[p].teardown = "todo" THEN "teardown"
  ELSE IF RecordsBroken(p) THEN "record"
  ELSE "publish"

AfterResult(p) ==
  IF proc[p].teardown = "todo" THEN "teardown"
  ELSE IF RecordsBroken(p) THEN "record"
  ELSE "publish"

WriteResult(p) ==
  /\ At(p, "writeResult")
  /\ LET f == files[Exec(p)]
     IN  SaveOrAbort(p, f.dir # "none", [f EXCEPT !.result = proc[p].outcome],
                     AfterResult(p))
  /\ UNCHANGED <<host, last, suiteRuns, crossed>>

(* cleanup-down after a failed phase; if it fails as well,                 *)
(* overwrite-cleanup-failed writes everything again, publishes, cleans up  *)
(* and throws, past the caller's suite entry.                              *)
Teardown(p) ==
  /\ At(p, "teardown")
  /\ \/ /\ FilesReady(p)
        /\ host' = [host EXCEPT ![Exec(p)].stack = "none"]
        /\ Goto(p, IF proc[p].suite THEN "record" ELSE "publish")
     \/ /\ MayFailNow(p)
        /\ StackBecomes(p, HalfDown(Exec(p)))
        /\ proc' = [proc EXCEPT ![p].pc = "writeRun", ![p].teardown = "failed",
                                ![p].outcome = "cleanup-failed"]
  /\ UNCHANGED <<files, last, suiteRuns, crossed>>

(* Mutant: the entry of a run that broke always says infra-failed.         *)
SuiteEntryInfra(p) ==
  <<Exec(p), IF proc[p].outcome \in Broken THEN "infra-failed" ELSE proc[p].outcome>>

SuiteEntry(p) == <<Exec(p), proc[p].outcome>>

(* record-suite-run-safe.                                                  *)
Record(p) ==
  /\ At(p, "record")
  /\ suiteRuns' = suiteRuns \cup {SuiteEntry(p)}
  /\ Goto(p, IF proc[p].outcome \in Verdicts THEN "cleanTemp" ELSE "publish")
  /\ UNCHANGED <<files, host, last, crossed>>

-----------------------------------------------------------------------------
(* Mutant: the temporary directory is not removed.                         *)
AfterPublishNoCleanup(p) ==
  IF proc[p].suite /\ proc[p].outcome \in Verdicts THEN "record" ELSE "done"

AfterPublish(p) ==
  IF proc[p].cmd \in {"test", "evidence"} THEN "done"
  ELSE IF proc[p].suite /\ proc[p].outcome \in Verdicts THEN "record"
  ELSE "cleanTemp"

(* emit-publish-envelope: read run.json and result.v1.json, hash the       *)
(* evidence, save the envelope. Where it throws, `up run` and              *)
(* `test cypress run` abort after a verdict; the others only warn.         *)
PublishThrows(p) ==
  Goto(p, IF proc[p].outcome \in Verdicts THEN "aborted" ELSE AfterPublish(p))

Publish(p) ==
  LET f == files[Exec(p)]
      readable == f.dir = "full" /\ f.run # "absent" /\ f.result # "absent"
  IN  /\ At(p, "publish")
      /\ \/ /\ readable
            /\ proc' = [proc EXCEPT ![p].pc = "envelope", ![p].seen = f.result,
                                    ![p].seenReason = f.error \/ f.result # "passed"]
         \/ ~readable /\ PublishThrows(p)
      /\ UNCHANGED <<files, host, last, suiteRuns, crossed>>

SaveEnvelope(p) ==
  /\ At(p, "envelope")
  /\ \/ /\ files[Exec(p)].dir # "none"
        /\ files' = [files EXCEPT ![Exec(p)].envelope = proc[p].seen,
                                  ![Exec(p)].reason = proc[p].seenReason]
        /\ Goto(p, AfterPublish(p))
     \/ /\ files[Exec(p)].dir = "none"
        /\ PublishThrows(p)
        /\ UNCHANGED files
  /\ UNCHANGED <<host, last, suiteRuns, crossed>>

(* cleanup-temp, without --preserve-temp.                                  *)
CleanTemp(p) ==
  /\ At(p, "cleanTemp")
  /\ host' = [host EXCEPT ![Exec(p)].temp = FALSE]
  /\ Goto(p, IF proc[p].cmd = "down" THEN "lifecycle" ELSE "done")
  /\ UNCHANGED <<files, last, suiteRuns, crossed>>

-----------------------------------------------------------------------------
(* The commands on an existing execution, the latest or the one named. One *)
(* that is refused changes nothing.                                        *)
StartDown(p, e) ==
  /\ files[e].run # "absent" /\ files[e].compose
  /\ Start(p, "down", e, "down")
  /\ UNCHANGED <<files, host, last, suiteRuns>>

(* stack-platform-running: it asks compose for the service "sender", or    *)
(* for "platform" without a receiver; the generated one-party stacks, too, *)
(* call it sender. Like the rest of the command it needs TestEnv.          *)
PlatformRunning(e) == TwoParty /\ TestEnv /\ host[e].stack # "none"

(* Mutant: any run can be tested.                                          *)
TestableAny(e) == files[e].run # "absent"

Testable(e) == files[e].run \in {"active", "open"} \cup Verdicts

StartTest(p, e) ==
  /\ Testable(e) /\ files[e].compose
  /\ files[e].run \in Verdicts => PlatformRunning(e)
  /\ Start(p, "test", e, "validateRunner")
  /\ UNCHANGED <<files, host, last, suiteRuns>>

(* Mutant: the status is not looked at.                                    *)
PassesSafetyFiltersAny(e) == TRUE

(* run-passes-safety-filters with the default options: a run without       *)
(* run.json passes.                                                        *)
PassesSafetyFilters(e) == files[e].run \notin Nonterminal

(* resolve-latest-for-pair: the marker, or the youngest directory.         *)
MayBeLatest(e) ==
  /\ files[e].dir # "none"
  /\ (last # NoExec /\ files[last].dir # "none") => e = last

(* `artifacts prune --apply` selects, then deletes. One process is the     *)
(* deletion of one of the runs selected.                                   *)
StartPrune(p, e) ==
  /\ files[e].dir # "none" /\ PassesSafetyFilters(e)
  /\ \/ "all" \in PruneScopes
     \/ "non-latest" \in PruneScopes /\ \E x \in Execs \ {e} : MayBeLatest(x)
  /\ Start(p, "prune", e, "delete")
  /\ UNCHANGED <<files, host, last, suiteRuns>>

PruneDelete(p) ==
  /\ At(p, "delete")
  /\ files' = [files EXCEPT ![Exec(p)] = NoFiles]
  /\ Goto(p, "done")
  /\ UNCHANGED <<host, last, suiteRuns, crossed>>

(* `artifacts prune --mode evidence` republishes what it deletes from.     *)
StartEvidence(p, e) ==
  /\ files[e].envelope # "absent" /\ PassesSafetyFilters(e)
  /\ Start(p, "evidence", e, "publish")
  /\ UNCHANGED <<files, host, last, suiteRuns>>

(* A kill, or a runner that goes away, also in the middle of a docker call.*)
Crash(p) ==
  /\ Live(p)
  /\ proc' = [proc EXCEPT ![p].dead = TRUE]
  /\ StackBecomes(p, CASE proc[p].pc \in {"up", "devUp", "cypress"} -> HalfUp
                       [] proc[p].pc \in {"down", "teardown"} ->
                            HalfDown(Exec(p)) \cup {"none"}
                       [] OTHER -> {})
  /\ UNCHANGED <<files, last, suiteRuns, crossed>>

-----------------------------------------------------------------------------
Begin(p) ==
  \E e \in Execs :
    \/ \E cmd \in BringUp, keepUp, suite \in BOOLEAN :
         InitDirs(p, e, cmd, keepUp, suite)
    \/ StartDown(p, e) \/ StartTest(p, e)
    \/ StartPrune(p, e) \/ StartEvidence(p, e)

Step(p) ==
  \/ WritePrepared(p) \/ WriteMarker(p) \/ WriteCompose(p) \/ ValidateBase(p)
  \/ ValidateRunner(p) \/ ComposeUp(p) \/ EmitImages(p) \/ ValidateDev(p)
  \/ DevUp(p) \/ Lifecycle(p) \/ Cypress(p) \/ RunDown(p) \/ Down(p)
  \/ WriteRun(p) \/ WriteResult(p) \/ Teardown(p) \/ Record(p) \/ Publish(p)
  \/ SaveEnvelope(p) \/ CleanTemp(p) \/ PruneDelete(p)

Next == \E p \in Procs : Begin(p) \/ Step(p) \/ Crash(p)

Spec == Init /\ [][Next]_vars

(* A command that runs goes on, and its docker calls return; whether a     *)
(* command is started, or killed, is up to its operator.                   *)
FairSpec == Spec /\ \A p \in Procs : WF_vars(Step(p))

-----------------------------------------------------------------------------
(* What holds of the executions that commands have worked on one after the *)
(* other, killed ones included. `alone` executions are the usual case: no  *)
(* lock makes them the only one.                                           *)
Alone(e) == e \notin crossed

(* Some command on e is at, or was killed at, one of the places.           *)
Stuck(e, places) == \E p \in Procs : proc[p].exec = e /\ proc[p].pc \in places

(* run.json and result.v1.json are two saves (finalize.nu, metadata.nu).   *)
(* They agree on the outcome of the run unless a command was cut off       *)
(* between the two, and no result is on disk for a run that has not ended. *)
ResultAgreesWithRun ==
  \A e \in Execs : Alone(e) =>
    \/ files[e].result = "absent" /\ files[e].run \notin Results
    \/ files[e].run \in {files[e].result} \cup DownStates
    \/ Stuck(e, {"writeResult"})

(* The envelope the site is built from (envelope.nu) shows the latest      *)
(* result, unless a command that has written a newer result was cut off    *)
(* before it published it.                                                 *)
EnvelopeIsCurrent ==
  \A e \in Execs : Alone(e) =>
    \/ files[e].envelope \in {"absent", files[e].result}
    \/ Stuck(e, {"teardown", "record", "publish", "envelope"})

(* `up run` without --keep-up (up-run.nu) never ends, even badly, with its *)
(* stack still there and no record of it: then run.json says that the      *)
(* teardown failed.                                                        *)
NoSilentLeak ==
  \A p \in Procs :
    LET e == proc[p].exec
    IN  /\ proc[p].cmd = "run" /\ ~proc[p].keepUp /\ proc[p].pc = "done"
        /\ Alone(e) /\ files[e].dir = "full" /\ host[e].stack # "none"
        => files[e].run \in {"cleanup-failed", "down-failed"}

(* What `services down` (down.nu) reports stopped is gone.                 *)
StoppedIsDown ==
  \A e \in Execs : Alone(e) /\ files[e].run = "stopped" => host[e].stack = "none"

(* An active or open run has its whole stack, until a `services down` or   *)
(* `test cypress run` has touched it (up.nu, up-open.nu; nothing looks at  *)
(* docker again before tests are run on it).                               *)
ActiveMeansUp ==
  \A e \in Execs :
    Alone(e) /\ files[e].run \in {"active", "open"} /\ host[e].stack # "up" =>
      \E p \in Procs : proc[p].exec = e /\ proc[p].cmd \in {"down", "test"}

(* Whatever the commands do to each other, an execution with containers    *)
(* has what `services down` needs to remove them (down.nu, read-run-meta,  *)
(* read-compose-files-from-manifest) as long as its directory is there.    *)
(* The exception is `up open`, which writes the manifest late.             *)
StackCanBeTornDown ==
  \A e \in Execs :
    host[e].stack # "none" /\ files[e].dir = "full" =>
      /\ files[e].run # "absent"
      /\ \/ files[e].compose
         \/ \E p \in Procs : proc[p].cmd = "open" /\ proc[p].exec = e

(* The suite record (index.nu) holds one entry per execution, and it shows *)
(* what the result of the execution shows, whatever ran on it afterwards.  *)
SuiteEntryIsTheResult ==
  \A e \in Execs, s, t \in Results :
    <<e, s>> \in suiteRuns =>
      /\ <<e, t>> \in suiteRuns => t = s
      /\ Alone(e) => files[e].result \in {s, "absent"}

(* When `up run` ends, every store shows the same outcome: run.json, the   *)
(* result, the suite record (but for SuiteRunIsRecorded) and the envelope, *)
(* which explains every outcome but passed (and only those), and the       *)
(* temporary directory is gone (up-run.nu, infra-fail.nu, lifecycle.nu).   *)
RunEndsConsistent ==
  [][\A p \in Procs :
       LET e == proc[p].exec
           f == files'[e]
       IN  /\ proc[p].cmd = "run" /\ proc[p].pc # "done" /\ proc'[p].pc = "done"
           /\ e \notin crossed'
           => /\ f.run = f.result /\ f.run = f.envelope
              /\ f.run = proc[p].outcome
              /\ proc[p].suite /\ proc[p].teardown # "failed" =>
                   <<e, f.run>> \in suiteRuns'
              /\ f.reason <=> f.run # "passed"
              /\ ~host'[e].temp]_vars

(* A run that broke, or was torn down, never counts as alive or tested     *)
(* again (cypress-run.nu:61, metadata.nu), even if its containers are up.  *)
BrokenRunsStayBroken ==
  [][\A e \in Execs :
       /\ e \notin crossed' /\ files[e].run \in Broken \cup DownStates
       => files'[e].run \notin Nonterminal \cup Verdicts]_vars

(* `artifacts prune` with its default scope, when nothing else works on    *)
(* what it selects, never deletes the run the next command takes as the    *)
(* latest, nor one that is still being set up or in use (prune.nu).        *)
PruneSparesRunsInUse ==
  [][\A e \in Execs :
       /\ e \notin crossed' /\ "all" \notin PruneScopes
       /\ files[e].dir # "none" /\ files'[e].dir = "none"
       => e # last /\ files[e].run \notin Nonterminal]_vars

(* Every `up run` leads to a result on disk, unless it is killed, aborts,  *)
(* or its directory is pruned meanwhile (up-run.nu).                       *)
RunIsReported ==
  \A p \in Procs, e \in Execs :
    proc[p].cmd = "run" /\ proc[p].exec = e ~>
      \/ proc[p].dead \/ proc[p].pc = "aborted"
      \/ files[e].dir # "full"
      \/ proc[p].pc = "done" /\ files[e].result \in Results

(* Every stack that `up run` starts without --keep-up is removed again, or *)
(* the teardown is reported as failed (and the report, perhaps, pruned),   *)
(* unless the command is killed or aborts or another one works on the same *)
(* execution (up-run.nu).                                                  *)
StackIsRemoved ==
  \A p \in Procs, e \in Execs :
    (/\ proc[p].cmd = "run" /\ ~proc[p].keepUp /\ proc[p].exec = e
     /\ host[e].stack # "none") ~>
      \/ proc[p].dead \/ proc[p].pc = "aborted" \/ ~Alone(e)
      \/ host[e].stack = "none"
      \/ files[e].run \in {"cleanup-failed", "down-failed"}
      \/ files[e].dir # "full"

-----------------------------------------------------------------------------
(* What the documentation says and the code does not do.                   *)

(* "runs Cypress against an already-up stack and updates meta/run.json     *)
(* plus meta/result.v1.json" (docs/operations/cli.md, of                   *)
(* `test cypress run`): where docker does not fail, that ends in a verdict.*)
TestRunsCypress ==
  \A p \in Procs :
    proc[p].cmd = "test" /\ proc[p].pc = "done" /\ Alone(proc[p].exec) =>
      proc[p].outcome \in Verdicts

(* "On failure: writes an infra-failed terminal outcome, optionally        *)
(* invokes --suite-record closure" (infra-fail.nu): a suite run that has   *)
(* ended has its entry in the suite record.                                *)
SuiteRunIsRecorded ==
  \A p \in Procs :
    proc[p].suite /\ proc[p].pc = "done" =>
      \E s \in Results : <<proc[p].exec, s>> \in suiteRuns

=============================================================================
