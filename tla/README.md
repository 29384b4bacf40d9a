# A specification of the OCM Test Suite

The OCM Test Suite is a Nushell command line (`scripts/ocmts.nu`) that runs a
matrix of cells. A cell is a flow (login, share-with, contact-token,
contact-wayf, webapp-share), a sending platform and, for most flows, a
receiving platform. For each cell it starts the platforms with docker compose,
drives them with Cypress, keeps what happened under `artifacts/`, and a GitHub
Actions pipeline runs all cells in parallel, aggregates their artifacts and
publishes a site.

This directory holds TLA+ modules that model that code, TLC configurations that
check them on small instances, and theorems checked by TLAPS. Every definition
that models code names its source lines in `PROJECT.json` (`map`).

Paths below are relative to `scripts/`, or in sections 6 to 8 to
`cypress/support/`, unless they begin with another directory of the repository.

## 1. Inventory

| Component | State it keeps | Operations | Hard part |
|---|---|---|---|
| Run lifecycle commands (`domains/services/*`, `domains/test/cypress-run.nu`, `lib/services/*`) | docker project `ocmts--<id>`, `/tmp/ocmts/<id>`, the compose manifest | `services up`, `up run`, `up open`, `down`, `test cypress run` | separate OS processes without locks; every phase may fail; kills; a teardown that fails |
| Run metadata and verdict (`lib/run/*`, `lib/artifacts/init.nu`) | `meta/run.json`, `meta/result.v1.json`, `LAST_EXECUTION_ID` | `write-prepared-run`, `write-terminal-outcome`, `finalize-run`, `update-run-lifecycle` | several files that have to agree, saved one at a time |
| Publish envelope (`lib/publish/envelope.nu`) | `meta/suite-manifest.v1.json` | `emit-publish-envelope` | a read, a long computation and a save |
| Artifacts prune (`lib/artifacts/prune.nu`, `domains/artifacts/prune.nu`) | deletes run directories | `artifacts prune` in runs and evidence mode | decides from files other commands are writing |
| Suite runner (`domains/test/cypress-suite.nu`, `lib/suite/index.nu`) | `artifacts/suites/runs/<id>.json`, `LATEST_SUITE_ID` | plan, block, run, skip, finish | a child process writes the same record; counts and statuses have to agree |
| CI pipeline (`lib/ci/*`, `domains/ci/*`, the workflow templates) | uploaded artifacts, the merged suite record | plan, waves, blocked cells, prerequisite check, aggregate | parallel jobs, lost artifacts, attempts |
| Site (`lib/site/*`) | the site's manifest store | ingest, media projection, build, publish | merge of several envelopes, a gate on the status |
| Matrix (`lib/matrix/*`) | none | rules, cells, expansion, gating | precedence of overrides, ordering of statuses |
| Images, actors (`lib/images/*`, `lib/actors/*`) | none | resolution with overrides | precedence |
| Compose rendering (`lib/compose/*`) | overlay files | render, subnet preflight | address arithmetic, check then act |
| MITM capture (`python/lib/mitm`, `lib/mitm/*`, `lib/ocm/endpoints.nu`, `cypress/support/shared/mitm-traffic.ts`) | `traffic.jsonl`, `connect-errors.v1.jsonl`, `session.json`, the tests' marker | addon hooks, the tests' reads, summaries | a log that is read while it is written; writes that fail halfway |
| Media optimisation (`lib/artifacts/*media*`) | optimised copies | optimise, aggregate | per-file failures |
| Cypress flows (`cypress/e2e`, `cypress/support/shared`) | the runner's origin and page, cookies, cached identity provider sessions, the base URL, the runtime file, variables of the spec | the tests of each flow | one origin per test, reloads of the spec, what one test hands to the next, reruns |
| Platform adapters (`cypress/support/adapters`) | what the two servers hold: invitations, contacts, files, shares, cards | create, accept, verify, prepare, send, receive, compare, launch | pages that lag behind their server, requests in flight, entries of earlier runs, five products that differ in what they confirm |

How they interact. A command of the lifecycle is one process; it shares files
and a docker project with the others and nothing else. The suite runner spawns
`services up run` once per cell and both append to the suite record. In CI each
cell is a job that runs the same command and uploads its run directory; the
aggregate job merges the directories and rebuilds the suite record; the site
job reads the envelopes. Inside a run, Cypress drives two servers through their
pages, one test per party; its tests meet through a runtime file, and the
proxy between the servers writes the log that the last test reads.

What makes each part correct:

- lifecycle: the records of an execution agree with each other and with its
  containers; no stack is leaked silently, and what is up can be torn down;
- suite runner: every scheduled cell is accounted for once, a blocked cell is
  blocked by a cell that failed, the status is the one the entries imply;
- pipeline: no cell runs before what it depends on is decided, a lost artifact
  never turns into a pass, the aggregate does not depend on the order of its
  inputs;
- Cypress flows: a test works as its own party, takes only what this run has put
  there, and fails only for what a product did; a run that passes has got its
  own invitation, share and content all the way;
- proxy log: what is before the tests' marker is ignored and nothing after it, but
  for one record at most on either side, each in a case that is stated;
- prune and site: what is in use, or newer, is never dropped;
- pure functions: they do what their reference definition says.

The hazards of the code, each at its line and with the properties that cover
it, are listed in `PROJECT.json`.

## 2. Plan

1. `RunLifecycle` (done): the commands on executions, the core of the system.
   `RunLifecycleProofs` (done): type correctness, every safety invariant and the
   three action properties.
2. `PrereqGate`, `SuitePlan`, `SuiteRunner` (done): the local suite, its record,
   blocking and stop-on-fail, with `up run` as one step, and the promise it
   implements. `SuitePlanProofs`, `SuiteRunnerProofs`, `PrereqGateProofs` (done).
3. `CiPipeline`, `CiPipelineProofs` (done): waves, parallel jobs, lost artifacts,
   the prerequisite check, the aggregate, as a second implementation of
   `PrereqGate`. A second attempt of failed jobs is left for later.
4. `Registry`, `ScenarioFlow`, `ScenarioFlowProofs` (done): the tests of all flows,
   origins, sessions and what tests hand on.
5. `Attempts`, `InviteExchange`, `FederatedShare`, `ContactShare`, with
   `Handshake` as the promise, and `ContactShareProofs` (done): inside the
   adapters, on servers that outlive a run.
6. `MitmTraffic`, `WebappLaunch` and their proofs (done): the proxy's log, the
   marker and the launch.
7. An abstract specification of an execution's outcome (a run is undecided, then
   decided once, then published), implemented by `RunLifecycle`.
8. Pure algorithms: verdict and validator merge, capability gating and status
   rank, site ingest, subnet preflight, image precedence, matrix expansion, each
   against a reference definition; preflight also as a race of bring-ups.
9. The summaries of the proxy's log, evidence and video renaming, media, compose
   topology, site clone and publish.

Theorems worth proving next: that the outcome of an execution is decided once
(the refinement of 7.), and the lemmas on status precedence.

## 3. RunLifecycle

**State.** `files[e]` is `artifacts/<flow>/<pair>/<e>`: whether the directory is
there, whether it has a compose manifest, and the status shown by each of
`run.json`, `result.v1.json` and the envelope. `host[e]` is the machine: the
temporary compose directory and the docker project. `last` is the
`LAST_EXECUTION_ID` marker, `suiteRuns` the entries of the suite record.
`proc[p]` is a command: its program counter names the next file it saves or
docker call it makes. `crossed` is a history variable: the executions on which
two live commands ever worked at the same time.

**Actions.** One action per save or docker call, in the order the commands make
them:

| Command | Path through the actions |
|---|---|
| `services up` | InitDirs, WritePrepared, WriteMarker, WriteCompose, ValidateBase, ComposeUp, EmitImages, Lifecycle |
| `services up open` | InitDirs, WritePrepared, WriteMarker, ValidateBase, ComposeUp, EmitImages, WriteCompose, ValidateDev, WriteCompose, DevUp, Lifecycle |
| `services up run` | InitDirs, WritePrepared, WriteMarker, WriteCompose, ValidateBase, ComposeUp, EmitImages, ValidateRunner, WriteCompose, Cypress, RunDown (not with `--keep-up`), WriteRun, WriteResult, Publish, SaveEnvelope, Record (in a suite), CleanTemp |
| any failed phase | FailPhase, then WriteRun, WriteResult, Teardown (if asked), Record, Publish, SaveEnvelope, CleanTemp; a teardown that fails repeats them as `cleanup-failed` without Record |
| `services down` | StartDown, Down, CleanTemp, Lifecycle |
| `test cypress run` | StartTest, ValidateRunner, Cypress, WriteRun, WriteResult, Publish, SaveEnvelope |
| `artifacts prune` | StartPrune, PruneDelete; StartEvidence, Publish, SaveEnvelope in evidence mode |

`Crash` kills a command anywhere; in the middle of a docker call it leaves the
stack in any of the states the call can leave. A docker call may fail by itself
(`MayFail`) and does fail when the compose files or the env file are gone. A
save into a directory that was deleted is an error nothing catches: `aborted`.

**Abstractions.** Saves are atomic (the code truncates and rewrites, see the
hazards). A stack is `none`, `partial` or `up`. Exit codes, log collection,
evidence rows, video renaming and the texts are left out. The verdict is the
Cypress exit code: `dispatch-validators` installs no validator, so
`finalize-run` never overrides it. `--preserve-temp` is not used. The commands
name their execution. One prune process deletes one of the runs it selected.

**Properties.** They are stated for executions that commands have worked on one
after the other, killed commands included (`Alone`), because no lock makes
anything else hold; `StackCanBeTornDown` needs no such restriction.
`ResultAgreesWithRun`, `EnvelopeIsCurrent`, `SuiteEntryIsTheResult` and
`RunEndsConsistent` relate the stores; `NoSilentLeak`, `StoppedIsDown`,
`ActiveMeansUp` and `StackIsRemoved` relate them to docker;
`BrokenRunsStayBroken` and `PruneSparesRunsInUse` are action properties;
`RunIsReported` and `StackIsRemoved` are liveness.

**Fairness.** `FairSpec` assumes weak fairness of each command's steps: a
process that runs goes on, and its docker calls return (there is no
`--wait-timeout`, so this is an assumption about docker, not about the code).
Starting and killing commands is not fair.

**Runs and bounds.**

| Run | Instance | Why it is enough |
|---|---|---|
| `one_execution` | 1 execution, 3 commands of any kind | three commands give every pair of racing commands plus a third that sees what they left |
| `prune` | 2 executions, 3 commands (`up`, `down`, `prune`) | prune looks at one other execution at most, through the marker |
| `liveness` | 1 execution, 2 commands | the second command is the interference |
| `test_never_runs`, `suite_entry_lost` | the smallest instance that shows the disagreement | |

The lifecycle cfgs say `CHECK_DEADLOCK FALSE`: the commands are one-shot
processes and the system stops when all have ended.

**Disagreements found** (the runs that expect a violation, details in
`PROJECT.json`): `test cypress run` never reaches Cypress because it composes
with a file that is not in the repository; a suite run whose teardown fails
after a failed phase has no entry in the suite record. The model also shows two
that have no run of their own: a run that is being set up has no `run.json` yet,
so the default prune may take it (`PruneSparesRunsInUse` therefore speaks of a
prune nothing raced with); and `stack-platform-running` looks for a service
`platform`, which one-party stacks call `sender`, so it never sees theirs.

## 4. The suite: PrereqGate, SuitePlan, SuiteRunner

`PrereqGate` is the abstract promise of any suite: each cell has a status, and a
cell starts only when all it depends on has passed, is blocked only because one
of those has failed or was blocked, is skipped only after a failure, and keeps
what it has become. `SuitePlan` holds the plan: which cells a cell depends on
(`DependsOn`), the order they are taken in (`Before`), and the precedence of
statuses (`OverallStatus`). `SuiteRunner` is `test cypress suite`.

**State of SuiteRunner.** `action` is the capability gate's verdict on each
cell, `opts` the two options that change control, `pc` the place in
`cypress-suite.nu`, `child` the cell whose `services up run` is running,
`outcome` the list or counter a cell is in, `record` the suite record (status,
entries, counts), `artifact` the status in each cell's `result.v1.json`,
`latest` the `LATEST_SUITE_ID` marker, `exit` the exit code.

**Actions.** InitRecord, SkipGated per gated cell, then per cell of the loop
BlockCell, or RunCell followed by ChildReports and ChildPasses or ChildFails;
SkipCell for the tail of `--stop-on-fail`; EndLoop, FinishRecord, Mark, Publish.
A child may exit with a failure whatever it has written, also without having
written anything; `RunLifecycle` is what it does in detail. `Kill` ends the
runner anywhere; the child it leaves may still report. Every
entry and the end of the record, and the artifact of a cell that did not run,
may fail to be saved, with a warning, as the `try` blocks allow; the history
variable `saveFailed` says that one has.

**Left out.** An invalid `--suite-id`, which ends the command before it has
written anything; a `--suite-id` used twice; `--preview`; the optimisation and
publication of the site, which either fail or do not.

**Properties.** `KeepsTheGate` says that the runner implements `PrereqGate`
under the mapping `GateStatus`, `GateDeps`. `PassedMeansEveryCellPassed`,
`RecordIsComplete`, `ExitAgreesWithRecord` and `LatestIsFinished` relate the
five stores that ought to tell the same story; a failed save weakens them only
where it must. `StopsAtTheFirstFailure` is about steps; `SuiteEnds` is liveness.
`DependenciesHavePassed` is what the theorem `DependenciesFirst` is about;
`KeepsTheGate` contains it.

**Runs and bounds.** Four cells: a login cell for each of two parties, a share
between them, and a cell that needs the share and the logins, so that a block
propagates over two steps and a cell has two dependencies of which either may
fail. Every combination of the gate's verdicts, `--stop-on-fail` and `--max` in
{0, 3}, none and all but one, is an initial state (`suite`). It says
`CHECK_DEADLOCK FALSE`, since the command ends.

**Fairness.** Weak fairness of the steps of the runner and its child together:
the process goes on, and `services up run` returns because Cypress and docker
do. The kill is not fair.

**Observed.** Dependencies are resolved among the runnable cells
(`lib/ci/planner.nu:141`): a login cell the capability gate keeps from running is
no longer a condition for anything. A suite with nothing to run or to skip moves
the marker to a record nobody has written (`domains/test/cypress-suite.nu:125`);
`LatestIsFinished` speaks of suites that have a record.

## 5. The pipeline: CiPipeline

`CiPipeline` is one run of the generated `ci-matrix.yml` with the reusable
workflows it calls (`lib/ci/blueprints`, `lib/ci/workflow-gen.nu`) and the `ci`
commands of their steps. It shares `SuitePlan` with the local runner and is the
second implementation of `PrereqGate`.

**State.** `action` is the capability gate's verdict; `setup` the preflight and
setup jobs together; `job[c]` the step the job of a cell is at; `seen[c]` the
dependencies whose artifact it has downloaded; `disk[c]` and `store[c]` the
artifact of the cell on its machine and as uploaded, each with the status in
`result.v1.json` and the one in the envelope; `red` the cells whose job failed
and `lost`, a history variable, those of which something got lost;
`aggregate` the aggregate job and `record` the suite record it reconstructs. A
machine is only used by one job, so a cell of another job is only seen through
`store`.

**Actions.** Setup; per cell StartJob (with `services up run` at once if it
depends on nothing), Download, CheckPrereqs, EmitBlocked or RunEnds, Upload;
Aggregate. A wave is no job of its own: its cells may start when the cells of
earlier waves have ended. A step may fail and the `always()` upload still runs
(Break), the machine may be lost (Lose), the job that loads a wave's cells may
fail (SkipWave), and a download, an upload, an envelope or the archive may fail.

**Abstractions.** The downloads of a cell are one step: the cell is blocked as
soon as one of them is missing, and its dependencies are in earlier waves, so
the moment at which each is fetched makes no difference. The suite id has the
standard shape. `services up run` is one step here and `RunLifecycle` in detail;
a run without a result is `running`. Not modelled: another attempt of failed
jobs, the cancel of a run, the optimised media of a cell, the summary files, the
site job.

**Properties.** `KeepsTheGate` under `GateStatus`: a cell runs only after its
dependencies even when any download fails, and it is blocked only for one that
did not pass or for something it or that one lost. `PassedMeansEveryCellPassed`
and `RecordIsComplete`: the aggregate turns no loss into a pass and accounts for
each cell once. `DependentsAgreeWithTheRecord`: the prerequisite check and the
aggregate read different files at different times. `GreenRunsHaveNoFailure`:
what a manual rebuild of the site takes for a good run. `EveryCellIsDecided`:
liveness of the waves.

**Runs and bounds.** Four cells in three waves, with two parallel cells in the
first and a cell that depends on two waves; every verdict of the gate on every
cell is an initial state. `pipeline` has every loss at any place.
`excluded_missing` expects a violation: the aggregate takes the cells the gate
excludes, which never get a job, for lost ones. All say `CHECK_DEADLOCK FALSE`,
since a run of the workflow ends.

**Fairness.** Weak fairness of `Next`: GitHub starts every job whose needs are
met, and ends each at its time limit if need be. Which step is next is open, and
losses may happen but need not.

## 6. The tests of a flow: Registry, ScenarioFlow

`Registry` holds the adapter tables of `adapters/registry.ts` and what the flows
tell the adapters apart by: whether a login uses an external identity provider,
whether the sender's adapter gives the content it wrote and the receiver's can
check it, and the pages each login takes for success. `Supports` says which
cells a flow can resolve.

`ScenarioFlow` is one run of a spec. `Tests` gives the tests of each flow as
sequences of steps (`TestsOf`), and one action per kind of step carries it out.

**State.** `scenario` is the cell and its environment, `at` the next step, `page`
the origin the runner is loaded from, the origin the test is bound to and the
account shown; `cookies` and `sessions` are the cookie jar, which every test
starts with empty, and the cache of `cy.session`, which it does not; `runtime` is
the runtime file, each key with the run of the spec that wrote it, `loaded` what
the test has read of it, `content` the variable `capturedExpectedContent`.

**Actions.** `Idp` and `App` are the two halves of a login; `Reload` is what
Cypress does when a test first visits another origin than the runner's: the spec
is loaded again, its variables are new and the test starts over, while the
session cache and the disk stay. `SetBaseUrl`, `ClearRuntime`, `ReadRuntime`,
`RequireString`, `ResolveRecipient` and `WriteRuntime` are the helpers of
`shared/procedural-flow.ts`; `Act` stands for an adapter's operation, `Compare`
for the check of the content. Every step may fail (`ProductFails`), the run may
be killed, and `Again` starts the spec anew on what is left.

**Properties.** `ActsAsTheIntendedUser`: whatever is cached, an adapter works on
its own party's application as its own party's account. `RuntimeIsThisAttempts`:
the file of an earlier run is never used, although only the first test removes
it. `FailsOnlyForTheProducts`: with an environment that is complete, no order of
visits, sessions and reloads makes a flow fail by itself; it needs the tests that
visit the providers ahead (`Prewarm`). `PassedMeansContentCompared`: a contact
flow that passes has compared the content.

**Disagreement found** (`content_lost`): share-with keeps the content in a
variable of the spec, which the reload for the receiver's origin empties; the
comparison is then skipped and the cell passes. The contact flows keep it in the
runtime file.

**Runs and bounds** (`scenario`, `content_lost`). All flows, with every platform
in each role (the version lines of Nextcloud share these adapters, one stands
for them), two users and two providers, any of which may be the same or missing,
and two runs of the spec: a third would find nothing a second does not. `Kill`
and failures are possible everywhere. `CHECK_DEADLOCK FALSE`: a run ends.

## 7. Invitation and share: Attempts, InviteExchange, FederatedShare, Handshake, ContactShare

These look inside the adapters' operations. `InviteExchange` is the way to a
contact, `FederatedShare` the way of a file, both over `Attempts`, the stages of
a run; `ContactShare` composes them with the two servers, the timeouts of
Cypress and further runs on the same servers. `Handshake` is what a cell is
there to show.

**State.** Each server's store (`invites`, `contacts`; `outgoing`, `pending`,
`mounted`, the file of the shared name), what a page shows of it (`shown`,
`rows`, `route`), each request in flight (`creating`, `accepting`, `sending`, `syncing`) and
what the test holds (`handed`, `url`, `chosen`, `left`, `compared`). Items are
named by the run of the spec that made them, because what a helper may mistake
for its own is an item of an earlier run.

**Actions.** One for each point at which a helper waits or acts, one for each
request a server answers, and one for each time a page reads its server again.
The helpers of the five products are records that say what they await (the
answer, or a row), what they copy from, which form of token they type, where
they take the contact's URL from and what they take for its proof; the actions
read the record of the pair's adapters. What a helper does not wait for is an
action of the server's: "enable sync" of OCIS and OpenCloud is a click
(`EnableSync`) whose answer (`ServerSyncs`) may come after the next test has
begun, or never; content can be read only of a share that is mounted.

**Abstractions.** A token is one of two forms, a redirect one of two places, a
search finds any set of recipients. A server either does what it is asked or
refuses. Selectors and texts are left out. An entry stays once it is there.

**Properties.** `ThisInviteAccepted`: the contact a run goes on with comes from
its own invitation. On servers that had an earlier run this is stated for the
platforms that wait for answers; OCIS, OpenCloud and CERNBox take any row, and
on such a stack an old row satisfies them. `AcceptedUrlIsTheContact`,
`NeverStuckOnItsOwn` (token forms, redirects and file names of a first run),
`PassedMeansThisShare` (the share and the content are this run's, although all
files have one name) and the liveness `EveryRunEnds`, for which
`handleShareAcceptance` must not call itself for ever. `KeepsTheContract`: under
the mapping `Reached`, `Verdict` the composition implements `Handshake`, so no
run passes before its servers got from invitation to trust to share to receipt
in this order.

**Run and bounds** (`contact_share`). Every pair the registry supports, with v34
and v35 of Nextcloud apart, where the contact adapters differ; three runs of the
spec, so that an invitation, a contact and a share may come from different
earlier ones; three dialogs, as in the code. `CHECK_DEADLOCK FALSE`: a run ends.

**Fairness.** Weak fairness of `TestStep \/ TimeOut`: Cypress carries out the
next command or gives it up after its timeout. Nothing is assumed of the
servers and pages.

## 8. The webapp and the proxy's log: MitmTraffic, WebappLaunch

`MitmTraffic` is `traffic.jsonl` and the other files of the proxy's addon, and
the tests' view of them. A record begins (`BeginRecord`), is written
(`WritePiece`, `WriteRecord`) and ended by its newline (`FinishRecord`), which is a
write of its own, or fails at any of these points (`FailRecord`). `tail` is what
then follows the last newline: nothing, a piece, which a reader skips, or a whole
record, which it counts. The next line is glued to either, and neither part can
be parsed any more. The lock of `_append_jsonl` is the condition `writing = 0`;
`Done` writes `session.json` without it. `CaptureMarker` counts the records that can be parsed at any moment,
`InScope` is what the test looks at afterwards.

`WebappLaunch` is the second half of webapp-share on top of the log: the sender
makes a folder and shares it, the receiver accepts the card, takes the marker and
launches. Nextcloud's helper looks for the only card that fits before each of its
clicks; CERNBox takes the first folder of the name.

**Properties.** `AtMostOneStaleRecord`: of the old records at most one, which was
being written when the marker was taken, is looked at. `NewRecordsAreInScope`: a
new record is overlooked in one case only, which the property names. The marker
has counted a record whose newline was missing, the newline's write failed, and
the next line was glued to it: both are lost, and the first new record after
them takes the place the marker has counted. That is a weakness of a marker that
counts records; no comment or document denies it, so it is the exception of the
property and not a finding.
`SessionCountsTheLog`: how far the count in `session.json` may be off.
`OpenedWhatItAccepted`: another share that arrives between two looks makes the
helper fail, not open the wrong one. It is not claimed for CERNBox.

**Run and bounds** (`webapp`). Both receivers, two runs of the spec, three
records and one connect error. Three records are what the one hidden record
takes (one that is counted and loses its newline, the line glued to it, and the
one that is hidden), and enough for a record before, at and after the marker with
a torn line between. `CHECK_DEADLOCK FALSE`: a run ends.

## 9. What is proved

`RunLifecycleProofs` proves, for every set of executions and commands and every
value of the other constants, from `LifecycleAssumption` alone (only
`NoExec \notin Execs` is used):

- `TypeCorrect`: `Spec => []TypeOK`. `TypeOK` is not inductive: what an action
  saves depends on what the process carries. `TypeInv` adds `ProcOK`, which says
  for each program counter which commands can be there and which outcome they
  carry. One lemma per action (`...Type`), joined in `StepType`.
- `StacksCanBeTornDown`: `Spec => []StackCanBeTornDown`. The invariant speaks
  of the files of an execution and of its stack, which different processes
  change; it is inductive only together with `FilesOK` (what a live bring-up
  command that has reached a given place has already written) and `FreshOK`
  (an execution nobody has started has neither files nor stack). Steps are
  classified as *tame*: they remove no file except by deleting the whole
  directory, they raise a stack only behind its files, and they move their
  process forward. `TameKeeps` shows that a tame step keeps the invariant, one
  lemma per action shows that it is tame, and `InitDirs` and the starts are
  treated on their own. The inductive invariant was checked with TLC on the
  instances of `one_execution` and `prune` before it was proved.
- The other five invariants of `one_execution` and `SuiteEntryIsTheResult`, and
  the action properties `RunEndsConsistent`, `BrokenRunsStayBroken` and
  `PruneSparesRunsInUse`, all but the uniqueness of the suite entry for the
  executions that no two live commands have worked on at once (`Alone`). Their
  invariant is `FullInv`, `IInv` with `LifeInv`: one live command at a time
  (`OneAtATime`) and one bring-up per execution ever (`OneBringUp`); what the live
  command knows at each program counter of the files, the stack and the suite
  record (`Working`); what holds of an execution whether a command works on it or
  not, with the traces of the killed ones as the only excuse (`Resting`: the
  properties, and that a directory is whole or gone); what an `up run` that drops
  its stack leaves for ever (`Settling`), which keeps `test cypress run` off it; and
  the run behind each suite entry (`Entered`). A step changes one execution and
  leaves those four things true of it (`Acts`); `ActsKeep` concludes that `LifeInv`
  lasts, one lemma per action (`...Acts`) shows that it acts so, three lemmas
  collecting what quiet steps, docker calls and saves have in common, and the
  commands that start are treated on their own (`InitDirsLife`, `StartLife`). An
  action property is then a fact about `Acts` and the place of the command.
  `LifeInv`, too, was checked with TLC on the instance of `one_execution` first.
- `UnrecordedExactly`, which makes the disagreement of `suite_entry_lost` exact: a suite
  run that is done has no entry if and only if the teardown of a failed phase has
  failed too, whatever other commands do to its execution. `RecordedOK` follows the
  outcome, the teardown and the entry of a run through its last steps.
- `TestNeedsItsEnvironment` does the same for `test_never_runs`: where docker does
  not fail, a `test cypress run` that nothing has raced with ends in a verdict if
  and only if the operator supplies what it looks for outside the artifacts. That
  nothing but `TestEnv` is in its way comes from `Working`: the files it composes
  with are there.

`PrereqGateProofs` proves the type invariant of the promise and `GateIsKept`:
any system that follows it starts no cell before its dependencies have passed
and, where nothing gets lost, leaves none out without a failure.

`SuiteRunnerProofs` proves for every plan, every value of `--max` and whichever
saves fail:

- `TypeCorrect`, the type invariant;
- `DependenciesFirst`: a cell runs only when everything it depends on has
  passed. It needs the hypothesis `CapabilitiesFirst` on `job_order`, which the
  shipped configuration satisfies and nothing in the code checks (`job_order` is
  documented as a visual order);
- `RunnerKeepsTheGate`: under the same hypothesis `Spec` implements
  `PrereqGate!Spec`. The inductive invariant adds to the types that the child is
  the next cell of the order, that skipped cells come after all others
  (`SkipsComeLast`), that a tail follows a failure and that only gated cells are
  capability-skipped. With them a dependency of the next cell has an outcome,
  and if that is neither failed nor blocked it is passed. Each action is then a
  step of the promise or a stutter.

Without any hypothesis on `job_order` it proves what the record, the marker and
the exit code tell, from `FullInv`, which adds to these facts what is on file:

- `Books`: of each cell, what its artifact and its entries can be, given the
  list it is in;
- `Lists`: only scheduled cells are in the lists, a block or a skip follows a
  failure, a stop stops, and nothing remains once the loop is through;
- `Closing`: the record is written once, from the final lists, and the marker
  and the exit code come after it.

`PassedIsBacked`, `ExitCodeIsHonest`, `LatestSuiteIsFinished` and
`FailureStopsTheSuite` follow from it directly. `RecordAddsUp` also needs that
the five lists part the plan, which `DisjointUnion` turns into the sum of their
cardinalities.

`SuitePlanProofs` holds the lemmas on the plan that both implementations use.
`CiPipelineProofs` proves for every plan:

- `TypeCorrect`, the type invariant, for which the entries of the record have to
  be finitely many;
- `PipelineKeepsTheGate`: `Spec` implements `PrereqGate!Spec` under
  `CapabilitiesFirst`, whatever gets lost. The invariant says of each cell what
  it has at each step of its job (`JobOK`), that its dependencies have ended
  once it has started (`DependenciesEnded`), that what has ended is in the store
  unless it was lost (`NotLost`), and that a cell about to be blocked has a
  cause (`HasCause`). A step moves one cell, or skips a wave, and a job that has
  ended is not taken up again (`OnlyMoves`), so the other cells keep theirs;
- `NothingLostIsAPass`: `PassedMeansEveryCellPassed` always holds, with any
  losses and for any order of the jobs. The record is written when all jobs have
  ended, which makes its verdict stable (`PassedForGood`).

- `RecordAddsUp` and `DependentsAgree`, for any order of the jobs, from
  `AggregateInv`: the record is the one the final store gives
  (`RecordIsOfTheStore`), a cell has run after what it depends on had passed
  (`RanAfter`), and the entries are in bijection with the cells;
- `GreenMeansNoFailure`, under `CapabilitiesFirst`, from `GreenInv`: a block goes
  back to a failure or a loss (`BlockedForAReason`);
- `AggregateOfAFullPlan` and `ExcludedNeverPassed`, for any order of the jobs, which
  make the disagreement about excluded cells exact: where the plan excludes none,
  the aggregate has the status a local suite would have, and where it excludes one
  it never says passed.

These invariants were checked with TLC on the instance of `pipeline` before they
were proved.


`WebappLaunchProofs` first proves the three properties of the log for any number of
records and errors, from `TrafficAssumption` alone. The inductive invariant
`LogInv` adds to the types that the parsed records are in the order in which
they began (`Ordered`), that those before the marker's last place began no later
than the last event before it, that the one at that place did so unless the
record counted there has been lost, and that the others began no earlier
(`Marked`); that every line lost is a failed write's, where a record without its
newline is one the next line may still lose (`AtRisk`, `Counted`); and that one
line at most is still to come once the session is written (`Closed`). `Marked` is
an invariant because the log shrinks only at its end (`KeptIsAPrefix`), and by a
record that is at risk. The theorems are `MarkerDropsTheOld`, `MarkerKeepsTheNew` and
`SessionCount`.

Of the flow itself `WebappLaunchProofs` proves `WebappTypeCorrect`, `OpensTheAccepted` and
`LaunchMarkerKeepsTheNew`. `TestsOnlyRead` shows that a step of the composed flow
is a step of the log or leaves it alone, so the log's theorems carry over. For
the card, `PageInv` adds that there are finitely many cards and that the card the
test has accepted is there and accepted once the test has got that far
(`AcceptedFirst`); with one card at most to choose from, the one opened is the
one accepted.

`ContactShareProofs` proves `AdaptersKeepTheContract`: for any set of pairs and
any number of runs and dialogs, `Spec` implements `Handshake!Spec`, from
`AttemptsAssumption` alone. `Handshake` wants the servers to move one step at a time,
so the invariant says that a request is under way only where its precondition
holds: an accepted contact has an invitation behind it (`Invited`), a share in
the making a contact (`Trusted`), a share at the receiver one that was sent
(`Delivered`). Every step is then quiet, advances the servers by one, decides
the verdict, or is a restart. `ContactTypeCorrect` is its type invariant, from
`DialogsAssumption` and `PairsAssumption` besides: that an adapter has the part a
step asks it for follows from the tables of the registry. `Named` says what the
types need to last: what is being accepted was copied from a list with an entry,
a dialog is taken on only while one is left. `Delivered` covers the requests to
sync as well, which OCIS's and OpenCloud's helpers do not await.

The four safety invariants of `contact_share` are proved as well.
`UrlIsTheContacts` and `FirstRunIsNotStuck` are mostly about the tables: the
adapters that take the URL from the location are those that wait for the
contact's own page, and every receiver takes the form of every sender it can
be paired with (`LinksAreParsed`, `TokensAreTaken`). `AcceptsItsOwnInvite` needs that
all that is known is of this run or an earlier one (`Past`), and of the helpers
that await an answer that the first entry they read is this run's
(`NewestFirst`, `HandsOverItsOwn`). `PassedWithItsOwnFile` needs that a file with
content is made once, and that all that was sent under its name is it
(`MadeOnce`).

`ScenarioFlowProofs` proves the five invariants of `scenario` for any cells, users
and number of attempts. `ScenarioAssumption` asks that a cell's flow is one of the
five that have a spec and that no user has the name that stands for none.

It begins with what the tests of all flows have in common, which is a matter of
the sequences they are made of. A test is a few steps, a login of one or two
steps depending on the platform, and more steps (`Within`); whatever the login,
a session is made before it, everything the adapters do comes after it, and
what takes a key of the file comes after the read (`WithinInOrder`,
`EveryTestInOrder`). Of the flows that stop, `Handover` says which test clears,
writes and reads the file; the tests ahead of it make the sessions.

Every action then goes on in its test, starts the next one, ends the spec or
starts the test over (`AdvanceOutcome`, `FailOutcome`, `ReloadOutcome`). `IInv` is
written in terms of the steps the running test has taken (`Done`):

- `PageInv`: the base URL is the receiver's once the test has set it, the page is
  the party's own after the login, and nowhere before the first visit;
- `FileInv`: after the first test has cleared the file everything in it is this
  attempt's, and each later test finds what the ones before it write;
- `SessionInv`: unless a product has failed, the sessions that were to be made
  ahead are cached, so no test visits a provider before its application.

The last two are needed because the properties are not inductive: that a test
reads nothing old depends on the stop at the first failure, and that a flow
does not trap itself on the cache outliving reloads and failed tests.

`ShareWithComparesNothing` makes the disagreement of `content_lost` exact: no
`share-with` flow ever compares content, whatever its platforms, users and
outcomes. Its invariant `ShareInv` is that the captured content lives on the
sender's origin and that the page is at the origin of the runner, so the reload at
the start of the receiver's test empties the variable.

The type invariants of `ContactShare` and `WebappLaunch` are not repeated in the
runs, where the theorems say more.

These invariants, too, were checked with TLC before they were proved.

Only model-checked: the liveness properties, which are out of the prover's
reach, as is ENABLED. Also out of its reach are induction over data and modules with RECURSIVE operators; the modules
proved about have none.

## 10. Not modelled

The components with status `not_modelled` in `PROJECT.json` are either planned
(see the plan) or rendering and I/O without state worth a model: workflow
generation, CLI routing, the unit-test runner. Of the Cypress code, selectors,
the matching of texts, screenshots and evidence names are left out: an action
says what a helper waits for and takes, not how it finds it on the page. The
servers, the browser and Cypress itself are external; their actions are marked
so in the map and allow whatever the code in `cypress/` has to cope with.

Hazards this code has that no property covers yet, for want of a model of the
detail: `emit-cell-images` is the one step of `up run` outside every `try`
(`domains/services/up-run.nu:106`); two bring-ups of one cell overwrite the
latest marker, so `services down` without an id may take the other's stack
(`lib/artifacts/init.nu:31`); `services down` removes a temporary directory an
`up run` still uses (`domains/services/down.nu:65`); a save truncates before it
writes (`lib/run/metadata.nu:104`); `LAST_EXIT_CODE` is that of the last external
command (`lib/services/infra-fail.nu:36`); the list of networks is read before
the stack creates its own, and a base address that is not aligned is compared
wrongly (`lib/services/subnet-preflight.nu:173`, `:42`); `compose up` waits
without a limit (`lib/services/lifecycle.nu:122`); a re-run of failed CI jobs
uploads the same artifact name with another execution id; an aggregate without
any artifact fails before it writes (`domains/ci/aggregate.nu:30`); a suite id
of another shape is passed through and the record then skipped
(`domains/ci/suite-id.nu:10`).
