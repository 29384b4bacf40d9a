------------------------- MODULE RunLifecycleProofs -------------------------
(***************************************************************************)
(* Proofs about RunLifecycle, for any number of executions and commands:   *)
(*   - the states are well typed;                                          *)
(*   - an execution that has containers has the files that are needed to   *)
(*     remove them, whatever commands run at once (TeardownInv);           *)
(*   - on an execution that no two live commands have worked on at once,   *)
(*     the stores agree with each other and with docker (LifeInv), and the *)
(*     three action properties;                                            *)
(*   - a suite run lacks its entry exactly if a teardown has failed, and   *)
(*     `test` runs Cypress exactly if it is given what it looks for.       *)
(***************************************************************************)
EXTENDS RunLifecycle, TLAPS

-----------------------------------------------------------------------------
(* The commands that can be at a program counter.                          *)
CommandOK(pc, cmd) ==
  /\ pc \in {"prepare", "mark", "compose", "validate", "up", "images",
             "teardown"} => cmd \in BringUp
  /\ pc \in {"dev", "devCompose", "devUp"} => cmd = "open"
  /\ pc \in {"validateRunner", "cypress"} => cmd \in {"run", "test"}
  /\ pc \in {"runCompose", "record"} => cmd = "run"
  /\ pc = "down" => cmd \in {"run", "down"}
  /\ pc \in {"writeRun", "writeResult"} => cmd \in BringUp \cup {"test"}
  /\ pc \in {"publish", "envelope"} => cmd \in BringUp \cup {"test", "evidence"}
  /\ pc = "cleanTemp" => cmd \in BringUp \cup {"down"}
  /\ pc = "lifecycle" => cmd \in {"up", "open", "down"}
  /\ pc = "delete" => cmd = "prune"
  /\ pc = "idle" <=> cmd = "none"

(* A command works on an execution, is one that can be where it is, and    *)
(* has an outcome where it records one.                                    *)
ProcOK(p) ==
  /\ proc[p].pc # "idle" => proc[p].exec \in Execs
  /\ proc[p].pc = "idle" => proc[p].exec = NoExec
  /\ CommandOK(proc[p].pc, proc[p].cmd)
  /\ proc[p].suite => proc[p].cmd = "run"
  /\ proc[p].teardown = "todo" => proc[p].cmd \in BringUp
  /\ proc[p].pc \in {"writeRun", "writeResult", "teardown", "record"} =>
       proc[p].outcome \in Results
  /\ proc[p].pc = "down" /\ proc[p].cmd = "run" => proc[p].outcome \in Results
  /\ proc[p].cmd = "down" /\ proc[p].pc \in {"cleanTemp", "lifecycle"} =>
       proc[p].outcome \in DownStates
  /\ proc[p].pc = "envelope" => proc[p].seen \in Results

TypeInv == TypeOK /\ \A p \in Procs : ProcOK(p)

(* The places of a command before it has run.json, and the manifest.       *)
BeforeRun      == {"idle", "prepare"} \cup Ended
BeforeManifest == BeforeRun \cup {"mark", "compose"}

(* A command that is past them works on an execution that has them, as     *)
(* long as nobody deletes its directory.                                   *)
FilesOK(p) ==
  LET f == files[proc[p].exec]
  IN  f.dir = "full" =>
        /\ proc[p].cmd \in BringUp \cup {"down", "test"}
             /\ proc[p].pc \notin BeforeRun => f.run # "absent"
        /\ proc[p].cmd \in {"up", "run"} /\ proc[p].pc \notin BeforeManifest =>
             f.compose
        /\ proc[p].cmd \in {"down", "test"} /\ proc[p].pc \notin BeforeRun =>
             f.compose

(* Nothing is left of an execution that no command works on.               *)
FreshOK(e) ==
  (\A q \in Procs : proc[q].exec # e) => host[e].stack = "none"

TeardownInv ==
  /\ \A p \in Procs : proc[p].pc # "idle" => FilesOK(p)
  /\ \A e \in Execs : FreshOK(e)
  /\ StackCanBeTornDown

IInv == TypeInv /\ TeardownInv

-----------------------------------------------------------------------------
(* One process moves; the others keep what holds of them.                  *)
LEMMA MoveOne ==
  ASSUME TypeInv, NEW p \in Procs, NEW r \in ProcState,
         proc' = [proc EXCEPT ![p] = r],
         r.pc # "idle" => r.exec \in Execs,
         r.pc = "idle" => r.exec = NoExec,
         CommandOK(r.pc, r.cmd),
         r.suite => r.cmd = "run",
         r.teardown = "todo" => r.cmd \in BringUp,
         r.pc \in {"writeRun", "writeResult", "teardown", "record"} =>
           r.outcome \in Results,
         r.pc = "down" /\ r.cmd = "run" => r.outcome \in Results,
         r.cmd = "down" /\ r.pc \in {"cleanTemp", "lifecycle"} =>
           r.outcome \in DownStates,
         r.pc = "envelope" => r.seen \in Results
  PROVE  proc' \in [Procs -> ProcState] /\ \A q \in Procs : ProcOK(q)'
<1>1. proc \in [Procs -> ProcState]
  BY DEF TypeInv, TypeOK
<1>2. proc' \in [Procs -> ProcState]
  BY <1>1
<1>3. ASSUME NEW q \in Procs PROVE ProcOK(q)'
  <2>1. CASE q = p
    <3>1. proc'[q] = r
      BY <1>1, <2>1
    <3> QED BY <3>1 DEF ProcOK
  <2>2. CASE q # p
    <3>1. proc'[q] = proc[q]
      BY <1>1, <2>2
    <3>2. ProcOK(q)
      BY DEF TypeInv
    <3> QED BY <3>1, <3>2 DEF ProcOK
  <2> QED BY <2>1, <2>2
<1> QED BY <1>2, <1>3

(* Where a process can go without another change to it.                    *)
Onward == Pcs \ {"idle", "envelope", "down"}

(* The ways in which processes move.                                       *)
ProcInv == proc \in [Procs -> ProcState] /\ \A q \in Procs : ProcOK(q)

LEMMA GotoOK ==
  ASSUME TypeInv, NEW p \in Procs, NEW w \in Onward,
         Goto(p, w), proc[p].pc # "idle", CommandOK(w, proc[p].cmd),
         w \in {"writeRun", "writeResult", "teardown", "record"} =>
           proc[p].outcome \in Results,
         proc[p].cmd = "down" /\ w \in {"cleanTemp", "lifecycle"} =>
           proc[p].outcome \in DownStates
  PROVE  ProcInv'
<1> DEFINE r == [proc[p] EXCEPT !.pc = w]
<1>1. proc[p] \in ProcState /\ ProcOK(p)
  BY DEF TypeInv, TypeOK
<1>2. r \in ProcState
  BY <1>1 DEF ProcState, Onward
<1>3. proc' = [proc EXCEPT ![p] = r]
  BY DEF Goto
<1>4. /\ r.pc = w /\ r.exec = proc[p].exec /\ r.cmd = proc[p].cmd
      /\ r.suite = proc[p].suite /\ r.teardown = proc[p].teardown
      /\ r.outcome = proc[p].outcome /\ r.seen = proc[p].seen
  BY <1>1 DEF ProcState
<1> HIDE DEF r
<1> QED
  BY <1>1, <1>2, <1>3, <1>4, MoveOne DEF ProcOK, ProcInv, Onward

LEMMA OutcomeOK ==
  ASSUME TypeInv, NEW p \in Procs, NEW w \in Pcs \ {"idle", "envelope"},
         NEW o \in Results \cup DownStates,
         proc' = [proc EXCEPT ![p].pc = w, ![p].outcome = o],
         proc[p].pc # "idle", CommandOK(w, proc[p].cmd),
         w = "cleanTemp" \/ o \in Results,
         proc[p].cmd = "down" => w = "cleanTemp" /\ o \in DownStates
  PROVE  ProcInv'
<1> DEFINE r == [proc[p] EXCEPT !.pc = w, !.outcome = o]
<1>1. proc[p] \in ProcState /\ ProcOK(p)
  BY DEF TypeInv, TypeOK
<1>2. r \in ProcState
  BY <1>1 DEF ProcState
<1>3. proc' = [proc EXCEPT ![p] = r]
  OBVIOUS
<1>4. /\ r.pc = w /\ r.exec = proc[p].exec /\ r.cmd = proc[p].cmd
      /\ r.suite = proc[p].suite /\ r.teardown = proc[p].teardown
      /\ r.outcome = o
  BY <1>1 DEF ProcState
<1>5. /\ r.exec \in Execs /\ r.pc # "idle" /\ r.pc # "envelope"
      /\ CommandOK(r.pc, r.cmd)
      /\ r.suite => r.cmd = "run"
      /\ r.teardown = "todo" => r.cmd \in BringUp
  BY <1>1, <1>4 DEF ProcOK
<1>6. /\ r.pc # "cleanTemp" => r.outcome \in Results
      /\ r.cmd = "down" => r.pc = "cleanTemp" /\ r.outcome \in DownStates
  BY <1>4
<1> HIDE DEF r
<1> QED
  BY <1>2, <1>3, <1>5, <1>6, MoveOne DEF ProcInv

LEMMA FailPhaseOK ==
  ASSUME TypeInv, NEW p \in Procs, NEW t \in BOOLEAN, FailPhase(p, t),
         proc[p].pc # "idle", proc[p].cmd \in BringUp \cup {"test"},
         t => proc[p].cmd \in BringUp
  PROVE  ProcInv'
<1> DEFINE r == [proc[p] EXCEPT !.pc = "writeRun", !.outcome = "infra-failed",
                                !.teardown = IF t THEN "todo" ELSE "no"]
<1>1. proc[p] \in ProcState /\ ProcOK(p)
  BY DEF TypeInv, TypeOK
<1>2. r \in ProcState
  <2>1. "writeRun" \in Pcs /\ "infra-failed" \in Results
    BY DEF Pcs, Results, Broken
  <2>2. (IF t THEN "todo" ELSE "no") \in {"no", "todo", "failed"}
    OBVIOUS
  <2> QED BY <1>1, <2>1, <2>2 DEF ProcState
<1>3. proc' = [proc EXCEPT ![p] = r]
  BY DEF FailPhase
<1>4. /\ r.pc = "writeRun" /\ r.exec = proc[p].exec /\ r.cmd = proc[p].cmd
      /\ r.suite = proc[p].suite /\ (r.teardown = "todo" => t)
      /\ r.outcome \in Results
  BY <1>1 DEF ProcState, Results, Broken
<1>5. CommandOK("writeRun", proc[p].cmd)
  BY DEF CommandOK, BringUp
<1>6. /\ r.exec \in Execs /\ CommandOK(r.pc, r.cmd)
      /\ r.suite => r.cmd = "run"
      /\ r.teardown = "todo" => r.cmd \in BringUp
  BY <1>1, <1>4, <1>5 DEF ProcOK
<1> HIDE DEF r
<1> QED
  BY <1>2, <1>3, <1>4, <1>6, MoveOne DEF ProcInv

LEMMA SaveOrAbortOK ==
  ASSUME TypeInv, NEW p \in Procs, NEW possible, NEW new \in FileState,
         NEW w \in Onward,
         SaveOrAbort(p, possible, new, w), proc[p].pc # "idle",
         CommandOK(w, proc[p].cmd),
         w \in {"writeRun", "writeResult", "teardown", "record"} =>
           proc[p].outcome \in Results,
         proc[p].cmd = "down" /\ w \in {"cleanTemp", "lifecycle"} =>
           proc[p].outcome \in DownStates
  PROVE  ProcInv' /\ files' \in [Execs -> FileState]
<1>1. files \in [Execs -> FileState]
  BY DEF TypeInv, TypeOK
<1>2. CASE Goto(p, w) /\ files' = [files EXCEPT ![Exec(p)] = new]
  BY <1>1, <1>2, GotoOK
<1>3. CASE Goto(p, "aborted") /\ UNCHANGED files
  <2>1. proc[p].cmd # "none"
    BY DEF TypeInv, ProcOK, CommandOK
  <2>2. CommandOK("aborted", proc[p].cmd) /\ "aborted" \in Onward
    BY <2>1 DEF CommandOK, Onward, Pcs, Ended
  <2> QED BY <1>1, <1>3, <2>2, GotoOK
<1> QED BY <1>2, <1>3 DEF SaveOrAbort

(* The other variables of the type invariant.                              *)
LEMMA TypeInvParts ==
  ASSUME ProcInv', files' \in [Execs -> FileState], host' \in [Execs -> HostState],
         last' \in Execs \cup {NoExec}, suiteRuns' \subseteq Execs \X Results,
         crossed' \subseteq Execs
  PROVE  TypeInv'
BY DEF TypeInv, TypeOK, ProcInv

(* What docker calls leave.                                                *)
LEMMA StackTyped ==
  ASSUME TypeInv, NEW p \in Procs, NEW states \in SUBSET {"none", "partial", "up"},
         proc[p].pc # "idle", StackBecomes(p, states)
  PROVE  host' \in [Execs -> HostState]
<1>1. host \in [Execs -> HostState] /\ Exec(p) \in Execs
  BY DEF TypeInv, TypeOK, ProcOK, Exec
<1>2. PICK s \in states \cup {host[Exec(p)].stack} :
        host' = [host EXCEPT ![Exec(p)].stack = s]
  BY DEF StackBecomes
<1>3. s \in {"none", "partial", "up"}
  BY <1>1, <1>2 DEF HostState
<1> QED
  BY <1>1, <1>2, <1>3 DEF HostState

LEMMA WritePreparedType ==
  ASSUME TypeInv, NEW p \in Procs, WritePrepared(p)
  PROVE  TypeInv'
<1> DEFINE f == files[Exec(p)]
<1>1. /\ proc[p].pc = "prepare" /\ ProcOK(p) /\ Exec(p) \in Execs
      /\ proc[p].cmd \in BringUp
  BY DEF WritePrepared, At, TypeInv, ProcOK, CommandOK, Exec
<1>2. [f EXCEPT !.run = "prepared"] \in FileState
  BY <1>1 DEF TypeInv, TypeOK, FileState, RunStatuses, Nonterminal
<1>3. CommandOK("mark", proc[p].cmd) /\ "mark" \in Onward
  BY <1>1 DEF CommandOK, BringUp, Onward, Pcs
<1>4. ProcInv' /\ files' \in [Execs -> FileState]
  BY <1>1, <1>2, <1>3, SaveOrAbortOK DEF WritePrepared
<1>5. host' \in [Execs -> HostState]
  BY <1>1 DEF WritePrepared, TypeInv, TypeOK, HostState
<1> QED
  BY <1>4, <1>5, TypeInvParts DEF WritePrepared, TypeInv, TypeOK

LEMMA WriteMarkerType ==
  ASSUME TypeInv, NEW p \in Procs, WriteMarker(p)
  PROVE  TypeInv'
<1>1. /\ proc[p].pc = "mark" /\ Exec(p) \in Execs /\ proc[p].cmd \in BringUp
  BY DEF WriteMarker, At, TypeInv, ProcOK, CommandOK, Exec
<1>2. /\ AfterMark(p) \in Onward
      /\ AfterMark(p) \in {"validate", "compose"}
      /\ CommandOK(AfterMark(p), proc[p].cmd)
  BY <1>1 DEF AfterMark, CommandOK, BringUp, Onward, Pcs
<1>3. ProcInv'
  BY <1>1, <1>2, GotoOK DEF WriteMarker
<1> QED
  BY <1>1, <1>3, TypeInvParts DEF WriteMarker, TypeInv, TypeOK

LEMMA WriteComposeType ==
  ASSUME TypeInv, NEW p \in Procs, WriteCompose(p)
  PROVE  TypeInv'
<1> DEFINE f == files[Exec(p)]
           w == [compose    |-> IF proc[p].cmd = "open" THEN "dev" ELSE "validate",
                 runCompose |-> "cypress",
                 devCompose |-> "devUp"][proc[p].pc]
<1>1. proc[p].pc \in {"compose", "runCompose", "devCompose"}
  BY DEF WriteCompose
<1>2. /\ Exec(p) \in Execs
      /\ proc[p].pc = "compose" => proc[p].cmd \in BringUp
      /\ proc[p].pc = "runCompose" => proc[p].cmd = "run"
      /\ proc[p].pc = "devCompose" => proc[p].cmd = "open"
  BY <1>1 DEF TypeInv, ProcOK, CommandOK, Exec
<1>3. [f EXCEPT !.compose = TRUE] \in FileState
  BY <1>2 DEF TypeInv, TypeOK, FileState
<1>4. /\ proc[p].pc = "compose" => w = IF proc[p].cmd = "open" THEN "dev" ELSE "validate"
      /\ proc[p].pc = "runCompose" => w = "cypress"
      /\ proc[p].pc = "devCompose" => w = "devUp"
  OBVIOUS
<1>5. /\ w \in Onward /\ CommandOK(w, proc[p].cmd)
      /\ w \notin {"writeRun", "writeResult", "teardown", "record"}
      /\ w \notin {"cleanTemp", "lifecycle"}
  BY <1>1, <1>2, <1>4 DEF CommandOK, BringUp, Onward, Pcs
<1>6. SaveOrAbort(p, f.dir = "full", [f EXCEPT !.compose = TRUE], w)
  BY DEF WriteCompose
<1> HIDE DEF w
<1>7. ProcInv' /\ files' \in [Execs -> FileState]
  BY <1>1, <1>3, <1>5, <1>6, SaveOrAbortOK
<1> QED
  BY <1>7, TypeInvParts DEF WriteCompose, TypeInv, TypeOK

LEMMA ValidateBaseType ==
  ASSUME TypeInv, NEW p \in Procs, ValidateBase(p)
  PROVE  TypeInv'
<1>1. proc[p].pc = "validate" /\ proc[p].cmd \in BringUp
  BY DEF ValidateBase, At, TypeInv, ProcOK, CommandOK
<1>2. CommandOK("up", proc[p].cmd) /\ "up" \in Onward
  BY <1>1 DEF CommandOK, BringUp, Onward, Pcs
<1>3. ProcInv'
  BY <1>1, <1>2, GotoOK, FailPhaseOK DEF ValidateBase
<1> QED
  BY <1>3, TypeInvParts DEF ValidateBase, TypeInv, TypeOK

LEMMA ValidateRunnerType ==
  ASSUME TypeInv, NEW p \in Procs, ValidateRunner(p)
  PROVE  TypeInv'
<1> DEFINE test == proc[p].cmd = "test"
           w    == IF test THEN "cypress" ELSE "runCompose"
           t    == ~test /\ ~proc[p].keepUp
<1>1. proc[p].pc = "validateRunner" /\ proc[p].cmd \in {"run", "test"}
  BY DEF ValidateRunner, At, TypeInv, ProcOK, CommandOK
<1>2. ProcInv'
  <2>1. CASE Goto(p, w)
    <3>1. /\ CommandOK(w, proc[p].cmd) /\ w \in Onward
          /\ w \in {"cypress", "runCompose"}
      BY <1>1 DEF CommandOK, Onward, Pcs
    <3> HIDE DEF w
    <3> QED BY <1>1, <2>1, <3>1, GotoOK
  <2>2. CASE FailPhase(p, t)
    <3>1. /\ proc[p].cmd \in BringUp \cup {"test"}
          /\ t => proc[p].cmd \in BringUp
          /\ t \in BOOLEAN
      BY <1>1 DEF BringUp
    <3> HIDE DEF t
    <3> QED BY <1>1, <2>2, <3>1, FailPhaseOK
  <2> QED BY <2>1, <2>2 DEF ValidateRunner
<1> QED
  BY <1>2, TypeInvParts DEF ValidateRunner, TypeInv, TypeOK

LEMMA ComposeUpType ==
  ASSUME TypeInv, NEW p \in Procs, ComposeUp(p)
  PROVE  TypeInv'
<1>1. proc[p].pc = "up" /\ proc[p].cmd \in BringUp /\ Exec(p) \in Execs
  BY DEF ComposeUp, At, TypeInv, ProcOK, CommandOK, Exec
<1>2. CommandOK("images", proc[p].cmd) /\ "images" \in Onward
  BY <1>1 DEF CommandOK, BringUp, Onward, Pcs
<1>3. proc[p].keepUp \in BOOLEAN
  BY DEF TypeInv, TypeOK, ProcState
<1>4. ProcInv'
  BY <1>1, <1>2, <1>3, GotoOK, FailPhaseOK DEF ComposeUp
<1>5. HalfUp \in SUBSET {"none", "partial", "up"}
  BY DEF HalfUp
<1>6. host' \in [Execs -> HostState]
  BY <1>1, <1>5, StackTyped DEF ComposeUp, TypeInv, TypeOK, HostState
<1> QED
  BY <1>4, <1>6, TypeInvParts DEF ComposeUp, TypeInv, TypeOK

LEMMA EmitImagesType ==
  ASSUME TypeInv, NEW p \in Procs, EmitImages(p)
  PROVE  TypeInv'
<1> DEFINE w == CASE proc[p].cmd = "run"  -> "validateRunner"
                  [] proc[p].cmd = "up"   -> "lifecycle"
                  [] proc[p].cmd = "open" -> "compose"
<1>1. proc[p].pc = "images" /\ proc[p].cmd \in BringUp /\ Exec(p) \in Execs
  BY DEF EmitImages, At, TypeInv, ProcOK, CommandOK, Exec
<1>2. /\ CommandOK(w, proc[p].cmd) /\ w \in Onward
      /\ w \notin {"writeRun", "writeResult", "teardown", "record"}
      /\ proc[p].cmd # "down"
  BY <1>1 DEF CommandOK, BringUp, Onward, Pcs
<1>3. /\ CommandOK("aborted", proc[p].cmd)
      /\ "aborted" \in Onward
  BY <1>1 DEF CommandOK, BringUp, Onward, Pcs, Ended
<1>4. ProcInv'
  <2>1. CASE Goto(p, w)
    BY <1>1, <1>2, <2>1, GotoOK
  <2>2. CASE FailPhase(p, TRUE)
    BY <1>1, <2>2, FailPhaseOK
  <2>3. CASE Goto(p, "aborted")
    BY <1>1, <1>3, <2>3, GotoOK
  <2> QED BY <2>1, <2>2, <2>3 DEF EmitImages
<1>5. files' \in [Execs -> FileState]
  <2> DEFINE d == IF files[Exec(p)].dir = "none" THEN "meta" ELSE files[Exec(p)].dir
  <2>1. files \in [Execs -> FileState]
    BY DEF TypeInv, TypeOK
  <2>2. d \in {"none", "meta", "full"}
    BY <1>1, <2>1 DEF FileState
  <2>3. files' = [files EXCEPT ![Exec(p)].dir = d] \/ files' = files
    BY DEF EmitImages
  <2> HIDE DEF d
  <2> QED
    BY <1>1, <2>1, <2>2, <2>3 DEF FileState
<1> QED
  BY <1>4, <1>5, TypeInvParts DEF EmitImages, TypeInv, TypeOK

LEMMA ValidateDevType ==
  ASSUME TypeInv, NEW p \in Procs, ValidateDev(p)
  PROVE  TypeInv'
<1>1. proc[p].pc = "dev" /\ proc[p].cmd = "open"
  BY DEF ValidateDev, At, TypeInv, ProcOK, CommandOK
<1>2. /\ CommandOK("devCompose", proc[p].cmd) /\ proc[p].cmd \in BringUp
      /\ "devCompose" \in Onward
  BY <1>1 DEF CommandOK, BringUp, Onward, Pcs
<1>3. ProcInv'
  BY <1>1, <1>2, GotoOK, FailPhaseOK DEF ValidateDev
<1> QED
  BY <1>3, TypeInvParts DEF ValidateDev, TypeInv, TypeOK

LEMMA DevUpType ==
  ASSUME TypeInv, NEW p \in Procs, DevUp(p)
  PROVE  TypeInv'
<1>1. proc[p].pc = "devUp" /\ proc[p].cmd = "open" /\ Exec(p) \in Execs
  BY DEF DevUp, At, TypeInv, ProcOK, CommandOK, Exec
<1>2. /\ CommandOK("lifecycle", proc[p].cmd) /\ proc[p].cmd \in BringUp
      /\ "lifecycle" \in Onward
  BY <1>1 DEF CommandOK, BringUp, Onward, Pcs
<1>3. ProcInv'
  BY <1>1, <1>2, GotoOK, FailPhaseOK DEF DevUp
<1>4. HalfUp \in SUBSET {"none", "partial", "up"}
  BY DEF HalfUp
<1>5. host' \in [Execs -> HostState]
  BY <1>1, <1>4, StackTyped, ZenonT(30) DEF DevUp, TypeInv, TypeOK, HostState
<1> QED
  BY <1>3, <1>5, TypeInvParts DEF DevUp, TypeInv, TypeOK

LEMMA LifecycleType ==
  ASSUME TypeInv, NEW p \in Procs, Lifecycle(p)
  PROVE  TypeInv'
<1>1. /\ proc[p].pc = "lifecycle" /\ proc[p].cmd \in {"up", "open", "down"}
      /\ Exec(p) \in Execs /\ (proc[p].cmd = "down" => proc[p].outcome \in DownStates)
  BY DEF Lifecycle, At, TypeInv, ProcOK, CommandOK, Exec
<1>2. CommandOK("done", proc[p].cmd) /\ "done" \in Onward
  BY <1>1 DEF CommandOK, Onward, Pcs, Ended
<1>3. ProcInv'
  BY <1>1, <1>2, GotoOK DEF Lifecycle
<1>4. LifecycleStatus(p) \in RunStatuses
  BY <1>1 DEF LifecycleStatus, RunStatuses, Nonterminal
<1>5. files' \in [Execs -> FileState]
  <2> DEFINE status == LifecycleStatus(p)
             failed == LifecycleStatus(p) = "down-failed"
  <2>1. files \in [Execs -> FileState]
    BY DEF TypeInv, TypeOK
  <2>2. \/ files' = [files EXCEPT ![Exec(p)].run = status, ![Exec(p)].error = failed]
        \/ files' = files
    BY DEF Lifecycle
  <2>3. status \in RunStatuses /\ failed \in BOOLEAN
    BY <1>4
  <2> HIDE DEF status, failed
  <2> QED
    BY <1>1, <2>1, <2>2, <2>3 DEF FileState
<1> QED
  BY <1>3, <1>5, TypeInvParts DEF Lifecycle, TypeInv, TypeOK

LEMMA CypressType ==
  ASSUME TypeInv, NEW p \in Procs, Cypress(p)
  PROVE  TypeInv'
<1> DEFINE w == IF proc[p].cmd = "run" /\ ~proc[p].keepUp THEN "down" ELSE "writeRun"
<1>1. /\ proc[p].pc = "cypress" /\ proc[p].cmd \in {"run", "test"}
      /\ Exec(p) \in Execs
  BY DEF Cypress, At, TypeInv, ProcOK, CommandOK, Exec
<1>2. PICK verdict \in Verdicts :
        /\ proc' = [proc EXCEPT ![p].outcome = verdict, ![p].pc = w]
        /\ \/ host' = [host EXCEPT ![Exec(p)].stack = "up"]
           \/ StackBecomes(p, HalfUp)
  BY DEF Cypress
<1>3. /\ w \in Pcs \ {"idle", "envelope"} /\ CommandOK(w, proc[p].cmd)
      /\ verdict \in Results
  BY <1>1 DEF CommandOK, BringUp, Pcs, Results
<1> HIDE DEF w
<1>4. proc' = [proc EXCEPT ![p].pc = w, ![p].outcome = verdict]
  BY <1>2
<1>5. ProcInv'
  BY <1>1, <1>3, <1>4, OutcomeOK
<1>6. HalfUp \in SUBSET {"none", "partial", "up"}
  BY DEF HalfUp
<1>7. host' \in [Execs -> HostState]
  BY <1>1, <1>2, <1>6, StackTyped DEF TypeInv, TypeOK, HostState
<1>8. files' \in [Execs -> FileState]
  BY <1>1 DEF Cypress, TypeInv, TypeOK, FileState
<1> QED
  BY <1>5, <1>7, <1>8, TypeInvParts DEF Cypress, TypeInv, TypeOK

LEMMA RunDownType ==
  ASSUME TypeInv, NEW p \in Procs, RunDown(p)
  PROVE  TypeInv'
<1>1. /\ proc[p].pc = "down" /\ proc[p].cmd = "run" /\ Exec(p) \in Execs
      /\ proc[p].outcome \in Results
  BY DEF RunDown, At, TypeInv, ProcOK, Exec
<1>2. CommandOK("writeRun", proc[p].cmd) /\ "writeRun" \in Onward
  BY <1>1 DEF CommandOK, BringUp, Onward, Pcs
<1>3. "cleanup-failed" \in Results
  BY DEF Results, Broken
<1>4. ProcInv'
  <2>1. CASE Goto(p, "writeRun")
    BY <1>1, <1>2, <2>1, GotoOK
  <2>2. CASE proc' = [proc EXCEPT ![p].pc = "writeRun",
                                  ![p].outcome = "cleanup-failed"]
    BY <1>1, <1>2, <1>3, <2>2, OutcomeOK DEF Onward
  <2> QED BY <2>1, <2>2 DEF RunDown
<1>5. HalfDown(Exec(p)) \in SUBSET {"none", "partial", "up"}
  BY DEF HalfDown
<1>6. host' \in [Execs -> HostState]
  BY <1>1, <1>5, StackTyped DEF RunDown, TypeInv, TypeOK, HostState
<1> QED
  BY <1>4, <1>6, TypeInvParts DEF RunDown, TypeInv, TypeOK

LEMMA DownType ==
  ASSUME TypeInv, NEW p \in Procs, Down(p)
  PROVE  TypeInv'
<1>1. proc[p].pc = "down" /\ proc[p].cmd = "down" /\ Exec(p) \in Execs
  BY DEF Down, At, TypeInv, ProcOK, Exec
<1>2. CommandOK("cleanTemp", proc[p].cmd) /\ "cleanTemp" \in Pcs \ {"idle", "envelope"}
  BY <1>1 DEF CommandOK, BringUp, Pcs
<1>3. ProcInv'
  BY <1>1, <1>2, OutcomeOK DEF Down, DownStates
<1>4. HalfDown(Exec(p)) \in SUBSET {"none", "partial", "up"}
  BY DEF HalfDown
<1>5. host' \in [Execs -> HostState]
  BY <1>1, <1>4, StackTyped DEF Down, TypeInv, TypeOK, HostState
<1> QED
  BY <1>3, <1>5, TypeInvParts DEF Down, TypeInv, TypeOK

LEMMA WriteRunType ==
  ASSUME TypeInv, NEW p \in Procs, WriteRun(p)
  PROVE  TypeInv'
<1> DEFINE f   == files[Exec(p)]
           new == [f EXCEPT !.run = proc[p].outcome,
                            !.error = proc[p].outcome \in Broken]
<1>1. /\ proc[p].pc = "writeRun" /\ Exec(p) \in Execs
      /\ proc[p].cmd \in BringUp \cup {"test"} /\ proc[p].outcome \in Results
  BY DEF WriteRun, At, TypeInv, ProcOK, CommandOK, Exec
<1>2. f \in FileState
  BY <1>1 DEF TypeInv, TypeOK
<1>3. new \in FileState
  <2>1. proc[p].outcome \in RunStatuses /\ (proc[p].outcome \in Broken) \in BOOLEAN
    BY <1>1 DEF Results, RunStatuses
  <2> QED BY <1>2, <2>1 DEF FileState
<1>4. /\ AfterRun(p) \in Onward /\ CommandOK(AfterRun(p), proc[p].cmd)
      /\ proc[p].cmd # "down"
  BY <1>1 DEF AfterRun, CommandOK, BringUp, Onward, Pcs
<1>5. SaveOrAbort(p, f.dir # "none", new, AfterRun(p))
  BY DEF WriteRun
<1> HIDE DEF new
<1>6. ProcInv' /\ files' \in [Execs -> FileState]
  BY <1>1, <1>3, <1>4, <1>5, SaveOrAbortOK
<1> QED
  BY <1>6, TypeInvParts DEF WriteRun, TypeInv, TypeOK

LEMMA WriteResultType ==
  ASSUME TypeInv, NEW p \in Procs, WriteResult(p)
  PROVE  TypeInv'
<1> DEFINE f   == files[Exec(p)]
           new == [f EXCEPT !.result = proc[p].outcome]
<1>1. /\ proc[p].pc = "writeResult" /\ Exec(p) \in Execs
      /\ proc[p].cmd \in BringUp \cup {"test"} /\ proc[p].outcome \in Results
      /\ proc[p].suite => proc[p].cmd = "run"
      /\ proc[p].teardown = "todo" => proc[p].cmd \in BringUp
  BY DEF WriteResult, At, TypeInv, ProcOK, CommandOK, Exec
<1>2. f \in FileState
  BY <1>1 DEF TypeInv, TypeOK
<1>3. new \in FileState
  BY <1>1, <1>2 DEF FileState
<1>4. /\ AfterResult(p) \in Onward /\ CommandOK(AfterResult(p), proc[p].cmd)
      /\ proc[p].cmd # "down"
  BY <1>1 DEF AfterResult, RecordsBroken, CommandOK, BringUp, Onward, Pcs
<1>5. SaveOrAbort(p, f.dir # "none", new, AfterResult(p))
  BY DEF WriteResult
<1> HIDE DEF new
<1>6. ProcInv' /\ files' \in [Execs -> FileState]
  BY <1>1, <1>3, <1>4, <1>5, SaveOrAbortOK
<1> QED
  BY <1>6, TypeInvParts DEF WriteResult, TypeInv, TypeOK

LEMMA TeardownType ==
  ASSUME TypeInv, NEW p \in Procs, Teardown(p)
  PROVE  TypeInv'
<1> DEFINE w == IF proc[p].suite THEN "record" ELSE "publish"
           r == [proc[p] EXCEPT !.pc = "writeRun", !.teardown = "failed",
                                !.outcome = "cleanup-failed"]
<1>1. /\ proc[p].pc = "teardown" /\ proc[p].cmd \in BringUp
      /\ Exec(p) \in Execs /\ proc[p].outcome \in Results
      /\ proc[p].suite => proc[p].cmd = "run"
      /\ proc[p] \in ProcState
  BY DEF Teardown, At, TypeInv, TypeOK, ProcOK, CommandOK, Exec
<1>2. ProcInv'
  <2>1. CASE Goto(p, w)
    <3>1. /\ CommandOK(w, proc[p].cmd) /\ w \in Onward
          /\ proc[p].cmd # "down"
      BY <1>1 DEF CommandOK, BringUp, Onward, Pcs
    <3> HIDE DEF w
    <3> QED BY <1>1, <2>1, <3>1, GotoOK
  <2>2. CASE proc' = [proc EXCEPT ![p].pc = "writeRun", ![p].teardown = "failed",
                                  ![p].outcome = "cleanup-failed"]
    <3>1. r \in ProcState
      BY <1>1 DEF ProcState, Pcs, Results, Broken
    <3>2. proc' = [proc EXCEPT ![p] = r]
      BY <2>2
    <3>3. /\ r.pc = "writeRun" /\ r.exec = proc[p].exec /\ r.cmd = proc[p].cmd
          /\ r.suite = proc[p].suite /\ r.teardown = "failed"
          /\ r.outcome \in Results
      BY <1>1 DEF ProcState, Results, Broken
    <3>4. CommandOK("writeRun", proc[p].cmd)
      BY <1>1 DEF CommandOK, BringUp
    <3> HIDE DEF r
    <3> QED BY <1>1, <3>1, <3>2, <3>3, <3>4, MoveOne DEF Exec, ProcInv
  <2> QED BY <2>1, <2>2 DEF Teardown
<1>3. HalfDown(Exec(p)) \in SUBSET {"none", "partial", "up"}
  BY DEF HalfDown
<1>4. host' \in [Execs -> HostState]
  BY <1>1, <1>3, StackTyped DEF Teardown, TypeInv, TypeOK, HostState
<1> QED
  BY <1>2, <1>4, TypeInvParts DEF Teardown, TypeInv, TypeOK

LEMMA RecordType ==
  ASSUME TypeInv, NEW p \in Procs, Record(p)
  PROVE  TypeInv'
<1> DEFINE w == IF proc[p].outcome \in Verdicts THEN "cleanTemp" ELSE "publish"
<1>1. /\ proc[p].pc = "record" /\ proc[p].cmd = "run"
      /\ Exec(p) \in Execs /\ proc[p].outcome \in Results
  BY DEF Record, At, TypeInv, ProcOK, CommandOK, Exec
<1>2. CommandOK(w, proc[p].cmd) /\ w \in Onward /\ w \in {"cleanTemp", "publish"}
  BY <1>1 DEF CommandOK, BringUp, Onward, Pcs
<1>3. ProcInv'
  <2>1. Goto(p, w)
    BY DEF Record
  <2> HIDE DEF w
  <2> QED BY <1>1, <1>2, <2>1, GotoOK
<1>4. suiteRuns' \subseteq Execs \X Results
  BY <1>1 DEF Record, SuiteEntry, TypeInv, TypeOK
<1> QED
  BY <1>3, <1>4, TypeInvParts DEF Record, TypeInv, TypeOK

(* Where the publication of an envelope leads.                             *)
LEMMA AfterPublishOK ==
  ASSUME TypeInv, NEW p \in Procs, proc[p].pc \in {"publish", "envelope"},
         Goto(p, AfterPublish(p)) \/ PublishThrows(p)
  PROVE  ProcInv'
<1>1. /\ proc[p].cmd \in BringUp \cup {"test", "evidence"}
      /\ proc[p].suite => proc[p].cmd = "run"
  BY DEF TypeInv, ProcOK, CommandOK
<1>2. /\ AfterPublish(p) \in Onward /\ CommandOK(AfterPublish(p), proc[p].cmd)
      /\ AfterPublish(p) = "record" => proc[p].outcome \in Verdicts
      /\ AfterPublish(p) \in {"done", "record", "cleanTemp"}
  BY <1>1 DEF AfterPublish, CommandOK, BringUp, Onward, Pcs, Ended
<1>3. "aborted" \in Onward /\ CommandOK("aborted", proc[p].cmd)
  BY <1>1 DEF CommandOK, BringUp, Onward, Pcs, Ended
<1>4. proc[p].cmd # "down" /\ proc[p].pc # "idle"
  BY <1>1 DEF BringUp
<1>5. CASE Goto(p, AfterPublish(p))
  BY <1>2, <1>4, <1>5, GotoOK DEF Results
<1>6. CASE Goto(p, "aborted")
  BY <1>3, <1>4, <1>6, GotoOK
<1> QED BY <1>5, <1>6 DEF PublishThrows

LEMMA PublishType ==
  ASSUME TypeInv, NEW p \in Procs, Publish(p)
  PROVE  TypeInv'
<1> DEFINE f   == files[Exec(p)]
           why == f.error \/ f.result # "passed"
           r   == [proc[p] EXCEPT !.pc = "envelope", !.seen = f.result,
                                  !.seenReason = why]
<1>1. /\ proc[p].pc = "publish" /\ Exec(p) \in Execs /\ ProcOK(p)
      /\ proc[p] \in ProcState /\ f \in FileState
  BY DEF Publish, At, TypeInv, TypeOK, ProcOK, Exec
<1>2. CASE PublishThrows(p)
  BY <1>1, <1>2, AfterPublishOK, TypeInvParts DEF Publish, TypeInv, TypeOK
<1>3. CASE /\ f.result # "absent"
           /\ proc' = [proc EXCEPT ![p].pc = "envelope", ![p].seen = f.result,
                                   ![p].seenReason = why]
  <2>1. f.result \in Results /\ why \in BOOLEAN
    BY <1>1, <1>3 DEF FileState
  <2>2. proc' = [proc EXCEPT ![p] = r]
    BY <1>3
  <2> HIDE DEF f, why
  <2>3. r \in ProcState
    BY <1>1, <2>1 DEF ProcState, Pcs
  <2>4. /\ r.pc = "envelope" /\ r.exec = proc[p].exec /\ r.cmd = proc[p].cmd
        /\ r.suite = proc[p].suite /\ r.teardown = proc[p].teardown
        /\ r.outcome = proc[p].outcome /\ r.seen \in Results
    BY <1>1, <2>1 DEF ProcState
  <2>5. CommandOK("envelope", proc[p].cmd)
    BY <1>1 DEF ProcOK, CommandOK
  <2> HIDE DEF r
  <2>6. ProcInv'
    BY <1>1, <2>2, <2>3, <2>4, <2>5, MoveOne DEF ProcOK, ProcInv
  <2> QED
    BY <2>6, TypeInvParts DEF Publish, TypeInv, TypeOK
<1> QED BY <1>2, <1>3 DEF Publish

LEMMA SaveEnvelopeType ==
  ASSUME TypeInv, NEW p \in Procs, SaveEnvelope(p)
  PROVE  TypeInv'
<1>1. /\ proc[p].pc = "envelope" /\ Exec(p) \in Execs /\ proc[p].seen \in Results
      /\ proc[p].seenReason \in BOOLEAN
  BY DEF SaveEnvelope, At, TypeInv, TypeOK, ProcOK, ProcState, Exec
<1>2. ProcInv'
  BY <1>1, AfterPublishOK DEF SaveEnvelope
<1>3. files' \in [Execs -> FileState]
  <2>1. files \in [Execs -> FileState]
    BY DEF TypeInv, TypeOK
  <2>2. \/ files' = [files EXCEPT ![Exec(p)].envelope = proc[p].seen,
                                  ![Exec(p)].reason = proc[p].seenReason]
        \/ files' = files
    BY DEF SaveEnvelope
  <2> QED BY <1>1, <2>1, <2>2 DEF FileState
<1> QED
  BY <1>2, <1>3, TypeInvParts DEF SaveEnvelope, TypeInv, TypeOK

LEMMA CleanTempType ==
  ASSUME TypeInv, NEW p \in Procs, CleanTemp(p)
  PROVE  TypeInv'
<1> DEFINE w == IF proc[p].cmd = "down" THEN "lifecycle" ELSE "done"
<1>1. /\ proc[p].pc = "cleanTemp" /\ proc[p].cmd \in BringUp \cup {"down"}
      /\ proc[p].cmd = "down" => proc[p].outcome \in DownStates
      /\ Exec(p) \in Execs
  BY DEF CleanTemp, At, TypeInv, ProcOK, CommandOK, Exec
<1>2. CommandOK(w, proc[p].cmd) /\ w \in Onward /\ w \in {"lifecycle", "done"}
  BY <1>1 DEF CommandOK, BringUp, Onward, Pcs, Ended
<1>3. Goto(p, w)
  BY DEF CleanTemp
<1> HIDE DEF w
<1>4. ProcInv'
  BY <1>1, <1>2, <1>3, GotoOK
<1>5. host' \in [Execs -> HostState]
  BY <1>1 DEF CleanTemp, TypeInv, TypeOK, HostState
<1> QED
  BY <1>4, <1>5, TypeInvParts DEF CleanTemp, TypeInv, TypeOK

LEMMA PruneDeleteType ==
  ASSUME TypeInv, NEW p \in Procs, PruneDelete(p)
  PROVE  TypeInv'
<1>1. /\ proc[p].pc = "delete" /\ proc[p].cmd = "prune" /\ Exec(p) \in Execs
  BY DEF PruneDelete, At, TypeInv, ProcOK, CommandOK, Exec
<1>2. CommandOK("done", proc[p].cmd) /\ "done" \in Onward
  BY <1>1 DEF CommandOK, Onward, Pcs, Ended
<1>3. ProcInv'
  BY <1>1, <1>2, GotoOK DEF PruneDelete
<1>4. NoFiles \in FileState
  BY DEF NoFiles, FileState
<1>5. files' \in [Execs -> FileState]
  BY <1>1, <1>4 DEF PruneDelete, TypeInv, TypeOK
<1> QED
  BY <1>3, <1>5, TypeInvParts DEF PruneDelete, TypeInv, TypeOK

(* What every command starts from.                                         *)
LEMMA IdleOK ==
  /\ Idle \in ProcState
  /\ Idle.suite = FALSE /\ Idle.keepUp = FALSE /\ Idle.teardown = "no"
BY DEF Idle, ProcState, Pcs

(* A process that takes up a command.                                      *)
LEMMA BeginOK ==
  ASSUME TypeInv, NEW p \in Procs, NEW r \in ProcState, r.exec \in Execs,
         r.pc \in {"prepare", "down", "validateRunner", "delete", "publish"},
         proc' = [proc EXCEPT ![p] = r], CommandOK(r.pc, r.cmd),
         r.suite => r.cmd = "run", r.teardown = "no",
         r.pc = "down" => r.cmd = "down"
  PROVE  ProcInv'
BY MoveOne DEF ProcInv

LEMMA StartOK ==
  ASSUME TypeInv, NEW p \in Procs, NEW cmd \in Commands, NEW e \in Execs,
         NEW pc \in {"down", "validateRunner", "delete", "publish"},
         Start(p, cmd, e, pc), CommandOK(pc, cmd), pc = "down" => cmd = "down",
         UNCHANGED <<files, host, last, suiteRuns>>
  PROVE  TypeInv'
<1> DEFINE r == [Idle EXCEPT !.cmd = cmd, !.exec = e, !.pc = pc]
<1>1. proc' = [proc EXCEPT ![p] = r]
  BY DEF Start
<1>2. pc \in Pcs
  BY DEF Pcs
<1>3. r \in ProcState
  BY <1>2, IdleOK DEF ProcState
<1>4. /\ r.pc = pc /\ r.exec = e /\ r.cmd = cmd /\ r.suite = FALSE
      /\ r.teardown = "no"
  BY IdleOK DEF ProcState
<1> HIDE DEF r
<1>5. ProcInv'
  BY <1>1, <1>3, <1>4, BeginOK
<1>6. crossed' \subseteq Execs
  BY DEF Start, TypeInv, TypeOK
<1> QED
  BY <1>5, <1>6, TypeInvParts DEF TypeInv, TypeOK

LEMMA InitDirsType ==
  ASSUME TypeInv, NEW p \in Procs, NEW e \in Execs, NEW cmd \in BringUp,
         NEW keepUp \in BOOLEAN, NEW suite \in BOOLEAN,
         InitDirs(p, e, cmd, keepUp, suite)
  PROVE  TypeInv'
<1> DEFINE r == [Idle EXCEPT !.cmd = cmd, !.exec = e, !.pc = "prepare",
                             !.keepUp = keepUp, !.suite = suite]
<1>1. /\ CommandOK("prepare", cmd) /\ cmd \in Commands /\ "prepare" \in Pcs
      /\ suite => cmd = "run"
  BY DEF CommandOK, BringUp, Commands, InitDirs, Pcs
<1>2. ProcInv'
  <2>1. r \in ProcState
    BY <1>1, IdleOK DEF ProcState
  <2>2. /\ r.pc = "prepare" /\ r.exec = e /\ r.cmd = cmd /\ r.suite = suite
        /\ r.teardown = "no"
    BY IdleOK DEF ProcState
  <2>3. proc' = [proc EXCEPT ![p] = r]
    BY DEF InitDirs
  <2> HIDE DEF r
  <2> QED BY <1>1, <2>1, <2>2, <2>3, BeginOK
<1>3. [NoFiles EXCEPT !.dir = "full"] \in FileState
  BY DEF NoFiles, FileState
<1>4. files' \in [Execs -> FileState]
  BY <1>3 DEF InitDirs, TypeInv, TypeOK
<1> QED
  BY <1>2, <1>4, TypeInvParts DEF InitDirs, TypeInv, TypeOK

LEMMA BeginType ==
  ASSUME TypeInv, NEW p \in Procs, Begin(p)
  PROVE  TypeInv'
<1>1. PICK e \in Execs :
        \/ \E cmd \in BringUp, keepUp, suite \in BOOLEAN :
             InitDirs(p, e, cmd, keepUp, suite)
        \/ StartDown(p, e) \/ StartTest(p, e)
        \/ StartPrune(p, e) \/ StartEvidence(p, e)
  BY DEF Begin
<1>2. CASE \E cmd \in BringUp, keepUp, suite \in BOOLEAN :
             InitDirs(p, e, cmd, keepUp, suite)
  BY <1>2, InitDirsType
<1>3. /\ CommandOK("down", "down") /\ CommandOK("validateRunner", "test")
      /\ CommandOK("delete", "prune") /\ CommandOK("publish", "evidence")
      /\ {"down", "test", "prune", "evidence"} \subseteq Commands
  BY DEF CommandOK, BringUp, Commands
<1>4. CASE StartDown(p, e)
  BY <1>3, <1>4, StartOK DEF StartDown
<1>5. CASE StartTest(p, e)
  BY <1>3, <1>5, StartOK DEF StartTest
<1>6. CASE StartPrune(p, e)
  BY <1>3, <1>6, StartOK DEF StartPrune
<1>7. CASE StartEvidence(p, e)
  BY <1>3, <1>7, StartOK DEF StartEvidence
<1> QED BY <1>1, <1>2, <1>4, <1>5, <1>6, <1>7

(* What a kill can leave of a stack.                                       *)
KilledAt(p) == CASE proc[p].pc \in {"up", "devUp", "cypress"} -> HalfUp
                 [] proc[p].pc \in {"down", "teardown"} ->
                      HalfDown(Exec(p)) \cup {"none"}
                 [] OTHER -> {}

LEMMA CrashType ==
  ASSUME TypeInv, NEW p \in Procs, Crash(p)
  PROVE  TypeInv'
<1> DEFINE r == [proc[p] EXCEPT !.dead = TRUE]
<1>1. /\ proc[p] \in ProcState /\ ProcOK(p) /\ proc[p].pc # "idle"
  BY DEF Crash, Live, TypeInv, TypeOK
<1>2. r \in ProcState
  BY <1>1 DEF ProcState
<1>3. proc' = [proc EXCEPT ![p] = r]
  BY DEF Crash
<1>4. /\ r.pc = proc[p].pc /\ r.exec = proc[p].exec /\ r.cmd = proc[p].cmd
      /\ r.suite = proc[p].suite /\ r.teardown = proc[p].teardown
      /\ r.outcome = proc[p].outcome /\ r.seen = proc[p].seen
  BY <1>1 DEF ProcState
<1> HIDE DEF r
<1>5. ProcInv'
  BY <1>1, <1>2, <1>3, <1>4, MoveOne DEF ProcOK, ProcInv
<1>6. KilledAt(p) \in SUBSET {"none", "partial", "up"}
  BY DEF KilledAt, HalfUp, HalfDown
<1>7. StackBecomes(p, KilledAt(p))
  BY DEF Crash, KilledAt
<1>8. host' \in [Execs -> HostState]
  BY <1>1, <1>6, <1>7, StackTyped
<1> QED
  BY <1>5, <1>8, TypeInvParts DEF Crash, TypeInv, TypeOK

LEMMA StutterType ==
  ASSUME TypeInv, UNCHANGED vars
  PROVE  TypeInv'
BY DEF TypeInv, TypeOK, ProcOK, CommandOK, vars

LEMMA TypeInit == Init => TypeInv
<1> SUFFICES ASSUME Init PROVE TypeInv
  OBVIOUS
<1>1. Idle \in ProcState
  BY DEF Idle, ProcState, Pcs
<1>2. NoFiles \in FileState
  BY DEF NoFiles, FileState
<1>3. TypeOK
  BY <1>1, <1>2 DEF Init, TypeOK, HostState
<1>4. ASSUME NEW p \in Procs PROVE ProcOK(p)
  BY DEF Init, ProcOK, CommandOK, Idle
<1> QED BY <1>3, <1>4 DEF TypeInv

LEMMA StepType ==
  ASSUME TypeInv, [Next]_vars
  PROVE  TypeInv'
<1>1. CASE UNCHANGED vars
  BY <1>1, StutterType
<1>2. ASSUME NEW p \in Procs, Step(p) PROVE TypeInv'
  BY <1>2, WritePreparedType, WriteMarkerType, WriteComposeType,
     ValidateBaseType, ValidateRunnerType, ComposeUpType, EmitImagesType,
     ValidateDevType, DevUpType, LifecycleType, CypressType, RunDownType,
     DownType, WriteRunType, WriteResultType, TeardownType, RecordType,
     PublishType, SaveEnvelopeType, CleanTempType, PruneDeleteType DEF Step
<1> QED
  BY <1>1, <1>2, BeginType, CrashType DEF Next

(* The states of every instance, whatever its executions, processes and    *)
(* constants, are well typed, and a command is only ever where its code    *)
(* leads (ProcOK).                                                         *)
THEOREM TypeCorrect == Spec => []TypeOK
<1>1. TypeInv => TypeOK
  BY DEF TypeInv
<1> QED
  BY <1>1, TypeInit, StepType, PTL DEF Spec

-----------------------------------------------------------------------------
(* What a step of a running command does to the others, to its own place,  *)
(* to the files and to the stacks, as far as TeardownInv is concerned.     *)
Moved(p) ==
  /\ \A q \in Procs \ {p} : proc'[q] = proc[q]
  /\ proc[p].pc # "idle" /\ proc'[p].pc # "idle"
  /\ proc'[p].exec = proc[p].exec /\ proc'[p].cmd = proc[p].cmd

Kept(e) ==
  files'[e].dir = "full" =>
    /\ files[e].dir = "full"
    /\ files[e].run # "absent" => files'[e].run # "absent"
    /\ files[e].compose => files'[e].compose

Advanced(p) ==
  /\ proc[p].pc \in BeforeRun => proc[p].cmd \in BringUp
  /\ files'[Exec(p)].dir = "full" =>
       /\ (proc[p].pc \in BeforeRun /\ proc'[p].pc \notin BeforeRun) =>
            files'[Exec(p)].run # "absent"
       /\ (/\ proc[p].cmd \in {"up", "run"}
           /\ proc[p].pc \in BeforeManifest /\ proc'[p].pc \notin BeforeManifest)
            => files'[Exec(p)].compose

Stacked(p) ==
  /\ \A e \in Execs \ {Exec(p)} : host'[e].stack = host[e].stack
  /\ host[Exec(p)].stack = "none" /\ host'[Exec(p)].stack # "none" =>
       proc[p].pc \in {"up", "devUp", "cypress"}

Tame(p) == /\ Moved(p) /\ (\A e \in Execs : Kept(e))
           /\ Advanced(p) /\ Stacked(p)

(* A tame step preserves the invariant.                                    *)
LEMMA TameKeeps ==
  ASSUME IInv, NEW p \in Procs, Tame(p)
  PROVE  TeardownInv'
<1>1. Exec(p) \in Execs /\ ProcOK(p) /\ FilesOK(p)
  BY DEF IInv, TypeInv, TeardownInv, Tame, Moved, ProcOK, Exec
<1>2. ASSUME NEW q \in Procs, proc'[q].pc # "idle" PROVE FilesOK(q)'
  <2>1. CASE q # p
    <3>1. proc'[q] = proc[q] /\ FilesOK(q) /\ proc[q].exec \in Execs
      BY <1>2, <2>1 DEF IInv, TypeInv, TeardownInv, Tame, Moved, ProcOK
    <3>2. Kept(proc[q].exec)
      BY <3>1 DEF Tame
    <3> QED
      BY <3>1, <3>2 DEF FilesOK, Kept
  <2>2. CASE q = p
    <3>1. Kept(proc[p].exec)
      BY <1>1 DEF Tame, Exec
    <3>2. proc[p].pc \in BeforeRun => proc[p].pc \in BeforeManifest
      BY DEF BeforeManifest
    <3> QED
      BY <1>1, <2>2, <3>1, <3>2
      DEF FilesOK, Kept, Tame, Moved, Advanced, Exec, BringUp
  <2> QED BY <2>1, <2>2
<1>3. ASSUME NEW e \in Execs PROVE FreshOK(e)'
  <2>1. SUFFICES ASSUME \A q \in Procs : proc'[q].exec # e
                 PROVE  host'[e].stack = "none"
    BY DEF FreshOK
  <2>2. \A q \in Procs : proc[q].exec # e
    BY <2>1 DEF Tame, Moved
  <2>3. host[e].stack = "none" /\ e # Exec(p)
    BY <2>2 DEF IInv, TeardownInv, FreshOK, Exec
  <2> QED
    BY <2>3 DEF Tame, Stacked
<1>4. StackCanBeTornDown'
  <2>1. SUFFICES
          ASSUME NEW e \in Execs, host'[e].stack # "none", files'[e].dir = "full"
          PROVE  /\ files'[e].run # "absent"
                 /\ \/ files'[e].compose
                    \/ \E q \in Procs : proc'[q].cmd = "open" /\ proc'[q].exec = e
    BY DEF StackCanBeTornDown
  <2>2. Kept(e)
    BY DEF Tame
  <2>3. \A q \in Procs : proc'[q].cmd = proc[q].cmd /\ proc'[q].exec = proc[q].exec
    BY DEF Tame, Moved
  <2>4. CASE host[e].stack # "none"
    BY <2>1, <2>2, <2>3, <2>4 DEF Kept, IInv, TeardownInv, StackCanBeTornDown
  <2>5. CASE host[e].stack = "none"
    <3>1. e = Exec(p) /\ proc[p].pc \in {"up", "devUp", "cypress"}
      BY <2>1, <2>5 DEF Tame, Stacked
    <3>2. proc[p].cmd \in BringUp \cup {"test"}
      BY <1>1, <3>1 DEF ProcOK, CommandOK, BringUp
    <3>3. proc[p].pc \notin BeforeManifest
      BY <3>1 DEF BeforeManifest, BeforeRun, Ended
    <3>4. files[e].dir = "full" /\ files[e].run # "absent"
          /\ (proc[p].cmd # "open" => files[e].compose)
      BY <1>1, <2>1, <2>2, <3>1, <3>2, <3>3
      DEF FilesOK, Kept, BringUp, BeforeManifest, Exec
    <3> QED
      BY <2>1, <2>2, <2>3, <3>1, <3>4 DEF Kept, Exec
  <2> QED BY <2>4, <2>5
<1> QED BY <1>2, <1>3, <1>4 DEF TeardownInv

(* The ways in which a command moves.                                      *)
LEMMA GotoMoves ==
  ASSUME TypeInv, NEW p \in Procs, NEW w \in Pcs \ {"idle"}, Goto(p, w),
         proc[p].pc # "idle"
  PROVE  Moved(p) /\ proc'[p].pc = w
BY DEF Goto, Moved, TypeInv, TypeOK, ProcState

LEMMA FailPhaseMoves ==
  ASSUME TypeInv, NEW p \in Procs, NEW t, FailPhase(p, t), proc[p].pc # "idle"
  PROVE  Moved(p)
BY DEF FailPhase, Moved, TypeInv, TypeOK, ProcState

(* Past the first saves, a command has nothing more to advance to.         *)
LEMMA LateIsAdvanced ==
  ASSUME NEW p \in Procs, proc[p].pc \notin BeforeManifest
  PROVE  Advanced(p)
BY DEF Advanced, BeforeManifest

(* The saves that leave the status and the manifest in place.              *)
LEMMA SameFilesKept ==
  ASSUME UNCHANGED files
  PROVE  \A e \in Execs : Kept(e)
BY DEF Kept

LEMMA SaveKept ==
  ASSUME TypeInv, NEW p \in Procs, NEW possible, NEW new, NEW w,
         SaveOrAbort(p, possible, new, w), Exec(p) \in Execs,
         new.dir = files[Exec(p)].dir,
         files[Exec(p)].run # "absent" => new.run # "absent",
         files[Exec(p)].compose => new.compose
  PROVE  \A e \in Execs : Kept(e)
BY DEF SaveOrAbort, Kept, TypeInv, TypeOK

LEMMA SaveMoves ==
  ASSUME TypeInv, NEW p \in Procs, NEW possible, NEW new, NEW w \in Pcs \ {"idle"},
         SaveOrAbort(p, possible, new, w), proc[p].pc # "idle"
  PROVE  /\ Moved(p)
         /\ \/ proc'[p].pc = w /\ files' = [files EXCEPT ![Exec(p)] = new]
            \/ proc'[p].pc = "aborted"
<1>1. "aborted" \in Pcs \ {"idle"}
  BY DEF Pcs, Ended
<1> QED
  BY <1>1, GotoMoves DEF SaveOrAbort

(* Docker calls and the other changes to the host.                         *)
LEMMA StackMoves ==
  ASSUME TypeInv, NEW p \in Procs, NEW states, StackBecomes(p, states),
         Exec(p) \in Execs,
         \/ proc[p].pc \in {"up", "devUp", "cypress"}
         \/ host[Exec(p)].stack = "none" => states \subseteq {"none"}
  PROVE  Stacked(p)
BY DEF StackBecomes, Stacked, TypeInv, TypeOK, HostState

LEMMA SameHostStacked ==
  ASSUME UNCHANGED host, NEW p \in Procs
  PROVE  Stacked(p)
BY DEF Stacked

LEMMA OnePlace ==
  ASSUME TypeInv, NEW p \in Procs, proc[p].pc # "idle"
  PROVE  Exec(p) \in Execs /\ files[Exec(p)] \in FileState
BY DEF TypeInv, TypeOK, ProcOK, Exec

LEMMA WritePreparedTame ==
  ASSUME TypeInv, NEW p \in Procs, WritePrepared(p)
  PROVE  Tame(p)
<1> DEFINE f   == files[Exec(p)]
           new == [f EXCEPT !.run = "prepared"]
<1>1. /\ proc[p].pc = "prepare" /\ proc[p].cmd \in BringUp /\ "mark" \in Pcs \ {"idle"}
      /\ SaveOrAbort(p, f.dir = "full", new, "mark")
  BY DEF WritePrepared, At, TypeInv, ProcOK, CommandOK, Pcs
<1>2. /\ new.dir = f.dir /\ new.run = "prepared" /\ (f.compose => new.compose)
      /\ Exec(p) \in Execs
  BY <1>1, OnePlace DEF FileState
<1> HIDE DEF new
<1>3. /\ Moved(p)
      /\ \/ proc'[p].pc = "mark" /\ files' = [files EXCEPT ![Exec(p)] = new]
         \/ proc'[p].pc = "aborted"
  BY <1>1, SaveMoves
<1>4. \A e \in Execs : Kept(e)
  BY <1>1, <1>2, SaveKept
<1>5. Advanced(p)
  BY <1>1, <1>2, <1>3
  DEF Advanced, BeforeRun, BeforeManifest, Ended, TypeInv, TypeOK
<1>6. Stacked(p)
  BY DEF WritePrepared, Stacked, TypeInv, TypeOK, HostState
<1> QED BY <1>3, <1>4, <1>5, <1>6 DEF Tame

LEMMA WriteMarkerTame ==
  ASSUME TypeInv, NEW p \in Procs, WriteMarker(p)
  PROVE  Tame(p)
<1>1. /\ proc[p].pc = "mark" /\ Goto(p, AfterMark(p)) /\ UNCHANGED <<files, host>>
      /\ proc[p].cmd \in BringUp
  BY DEF WriteMarker, At, TypeInv, ProcOK, CommandOK
<1>2. /\ AfterMark(p) \in Pcs \ {"idle"}
      /\ proc[p].cmd \in {"up", "run"} => AfterMark(p) = "compose"
  BY DEF AfterMark, Pcs
<1>3. Moved(p) /\ proc'[p].pc = AfterMark(p)
  BY <1>1, <1>2, GotoMoves
<1>4. Advanced(p)
  BY <1>1, <1>2, <1>3 DEF Advanced, BeforeRun, BeforeManifest, Ended
<1> QED BY <1>1, <1>3, <1>4, SameFilesKept, SameHostStacked DEF Tame

LEMMA WriteComposeTame ==
  ASSUME TypeInv, NEW p \in Procs, WriteCompose(p)
  PROVE  Tame(p)
<1> DEFINE f   == files[Exec(p)]
           new == [f EXCEPT !.compose = TRUE]
           w   == [compose    |-> IF proc[p].cmd = "open" THEN "dev" ELSE "validate",
                   runCompose |-> "cypress",
                   devCompose |-> "devUp"][proc[p].pc]
<1>1. /\ proc[p].pc \in {"compose", "runCompose", "devCompose"}
      /\ SaveOrAbort(p, f.dir = "full", new, w)
      /\ UNCHANGED host
  BY DEF WriteCompose
<1>2. w \in Pcs \ {"idle"}
  BY <1>1 DEF Pcs
<1>3. /\ new.dir = f.dir /\ new.run = f.run /\ new.compose
      /\ Exec(p) \in Execs
  BY <1>1, OnePlace DEF FileState
<1> HIDE DEF new, w
<1>4. /\ Moved(p)
      /\ \/ files' = [files EXCEPT ![Exec(p)] = new]
         \/ proc'[p].pc = "aborted"
  BY <1>1, <1>2, SaveMoves
<1>5. \A e \in Execs : Kept(e)
  BY <1>1, <1>3, SaveKept
<1>6. Advanced(p)
  BY <1>1, <1>3, <1>4
  DEF Advanced, BeforeRun, BeforeManifest, Ended, TypeInv, TypeOK
<1> QED BY <1>1, <1>4, <1>5, <1>6, SameHostStacked DEF Tame

LEMMA ValidateTame ==
  ASSUME TypeInv, NEW p \in Procs,
         ValidateBase(p) \/ ValidateRunner(p) \/ ValidateDev(p)
  PROVE  Tame(p)
<1>1. proc[p].pc \in {"validate", "validateRunner", "dev"}
  BY DEF ValidateBase, ValidateRunner, ValidateDev, At
<1>2. {"up", "cypress", "runCompose", "devCompose"} \subseteq Pcs \ {"idle"}
  BY DEF Pcs
<1>3. Moved(p)
  <2>1. CASE \E w \in {"up", "cypress", "runCompose", "devCompose"} : Goto(p, w)
    BY <1>1, <1>2, <2>1, GotoMoves
  <2>2. CASE \E t : FailPhase(p, t)
    BY <1>1, <2>2, FailPhaseMoves
  <2> QED
    BY <2>1, <2>2 DEF ValidateBase, ValidateRunner, ValidateDev
<1>4. Advanced(p)
  BY <1>1, LateIsAdvanced DEF BeforeManifest, BeforeRun, Ended
<1>5. UNCHANGED <<files, host>>
  BY DEF ValidateBase, ValidateRunner, ValidateDev
<1> QED BY <1>3, <1>4, <1>5, SameFilesKept, SameHostStacked DEF Tame

LEMMA BringUpTame ==
  ASSUME TypeInv, NEW p \in Procs, ComposeUp(p) \/ DevUp(p)
  PROVE  Tame(p)
<1>1. proc[p].pc \in {"up", "devUp"} /\ UNCHANGED files
  BY DEF ComposeUp, DevUp, At
<1>2. {"images", "lifecycle"} \subseteq Pcs \ {"idle"}
  BY DEF Pcs
<1>3. Moved(p)
  BY <1>1, <1>2, GotoMoves, FailPhaseMoves DEF ComposeUp, DevUp
<1>4. Advanced(p)
  BY <1>1, LateIsAdvanced DEF BeforeManifest, BeforeRun, Ended
<1>5. Stacked(p)
  <2>1. CASE \E states : StackBecomes(p, states)
    BY <1>1, <2>1, OnePlace, StackMoves
  <2>2. CASE host' = [host EXCEPT ![Exec(p)].stack = "up"]
    BY <1>1, <2>2 DEF Stacked, TypeInv, TypeOK
  <2> QED BY <2>1, <2>2 DEF ComposeUp, DevUp
<1> QED BY <1>1, <1>3, <1>4, <1>5, SameFilesKept DEF Tame

LEMMA EmitImagesTame ==
  ASSUME TypeInv, NEW p \in Procs, EmitImages(p)
  PROVE  Tame(p)
<1>1. proc[p].pc = "images" /\ UNCHANGED host
  BY DEF EmitImages, At
<1>2. {"validateRunner", "lifecycle", "compose", "aborted"} \subseteq Pcs \ {"idle"}
  BY DEF Pcs, Ended
<1>3. proc[p].cmd \in BringUp
  BY <1>1 DEF TypeInv, ProcOK, CommandOK
<1>4. Moved(p)
  <2>1. CASE \E w \in {"validateRunner", "lifecycle", "compose", "aborted"} : Goto(p, w)
    BY <1>1, <1>2, <2>1, GotoMoves
  <2>2. CASE FailPhase(p, TRUE)
    BY <1>1, <2>2, FailPhaseMoves
  <2> QED BY <1>3, <2>1, <2>2 DEF EmitImages, BringUp
<1>5. \A e \in Execs : Kept(e)
  <2>1. Exec(p) \in Execs /\ files \in [Execs -> FileState]
    BY <1>1, OnePlace DEF TypeInv, TypeOK
  <2>2. CASE files' = [files EXCEPT ![Exec(p)].dir = IF @ = "none" THEN "meta" ELSE @]
    BY <2>1, <2>2 DEF Kept, FileState
  <2> QED BY <2>2, SameFilesKept DEF EmitImages
<1>6. Advanced(p)
  BY <1>1, LateIsAdvanced DEF BeforeManifest, BeforeRun, Ended
<1> QED BY <1>1, <1>4, <1>5, <1>6, SameHostStacked DEF Tame

LEMMA LifecycleTame ==
  ASSUME TypeInv, NEW p \in Procs, Lifecycle(p)
  PROVE  Tame(p)
<1>1. /\ proc[p].pc = "lifecycle" /\ UNCHANGED host /\ Goto(p, "done")
      /\ proc[p].cmd \in {"up", "open", "down"}
      /\ proc[p].cmd = "down" => proc[p].outcome \in DownStates
  BY DEF Lifecycle, At, TypeInv, ProcOK, CommandOK
<1>2. Moved(p)
  BY <1>1, GotoMoves DEF Pcs, Ended
<1>3. LifecycleStatus(p) # "absent"
  BY <1>1 DEF LifecycleStatus, DownStates
<1>4. \A e \in Execs : Kept(e)
  <2> DEFINE status == LifecycleStatus(p)
             failed == LifecycleStatus(p) = "down-failed"
  <2>1. Exec(p) \in Execs /\ files \in [Execs -> FileState]
    BY <1>1, OnePlace DEF TypeInv, TypeOK
  <2>2. \/ files' = files
        \/ files' = [files EXCEPT ![Exec(p)].run = status, ![Exec(p)].error = failed]
    BY DEF Lifecycle
  <2>3. status # "absent"
    BY <1>3
  <2> HIDE DEF status, failed
  <2> QED BY <2>1, <2>2, <2>3 DEF Kept, FileState
<1>5. Advanced(p)
  BY <1>1, LateIsAdvanced DEF BeforeManifest, BeforeRun, Ended
<1> QED BY <1>1, <1>2, <1>4, <1>5, SameHostStacked DEF Tame

LEMMA CypressTame ==
  ASSUME TypeInv, NEW p \in Procs, Cypress(p)
  PROVE  Tame(p)
<1> DEFINE w == IF proc[p].cmd = "run" /\ ~proc[p].keepUp THEN "down" ELSE "writeRun"
<1>1. proc[p].pc = "cypress" /\ w # "idle"
  BY DEF Cypress, At
<1>2. PICK verdict \in Verdicts :
        /\ proc' = [proc EXCEPT ![p].outcome = verdict, ![p].pc = w]
        /\ \/ host' = [host EXCEPT ![Exec(p)].stack = "up"]
           \/ StackBecomes(p, HalfUp)
  BY DEF Cypress
<1> HIDE DEF w
<1>3. Moved(p)
  BY <1>1, <1>2 DEF Moved, TypeInv, TypeOK, ProcState
<1>4. Stacked(p)
  <2>1. CASE StackBecomes(p, HalfUp)
    BY <1>1, <2>1, OnePlace, StackMoves
  <2>2. CASE host' = [host EXCEPT ![Exec(p)].stack = "up"]
    BY <1>1, <2>2 DEF Stacked, TypeInv, TypeOK
  <2> QED BY <1>2, <2>1, <2>2
<1>5. \A e \in Execs : Kept(e)
  BY <1>1, OnePlace DEF Cypress, Kept, TypeInv, TypeOK, FileState
<1>6. Advanced(p)
  BY <1>1, LateIsAdvanced DEF BeforeManifest, BeforeRun, Ended
<1> QED BY <1>3, <1>4, <1>5, <1>6 DEF Tame

LEMMA TearingDownTame ==
  ASSUME TypeInv, NEW p \in Procs, RunDown(p) \/ Down(p) \/ Teardown(p)
  PROVE  Tame(p)
<1>1. proc[p].pc \in {"down", "teardown"} /\ UNCHANGED files
  BY DEF RunDown, Down, Teardown, At
<1>2. {"writeRun", "record", "publish"} \subseteq Pcs \ {"idle"}
  BY DEF Pcs
<1>3. Moved(p)
  <2>1. CASE \E w \in {"writeRun", "record", "publish"} : Goto(p, w)
    BY <1>1, <1>2, <2>1, GotoMoves
  <2>2. CASE \E w \in {"writeRun", "cleanTemp"},
                  o \in DownStates \cup {"cleanup-failed"} :
               proc' = [proc EXCEPT ![p].pc = w, ![p].outcome = o]
    BY <1>1, <2>2 DEF Moved, TypeInv, TypeOK, ProcState
  <2>3. CASE proc' = [proc EXCEPT ![p].pc = "writeRun", ![p].teardown = "failed",
                                  ![p].outcome = "cleanup-failed"]
    BY <1>1, <2>3 DEF Moved, TypeInv, TypeOK, ProcState
  <2> QED BY <2>1, <2>2, <2>3 DEF RunDown, Down, Teardown, DownStates
<1>4. Stacked(p)
  <2>1. CASE StackBecomes(p, HalfDown(Exec(p)))
    BY <1>1, <2>1, OnePlace, StackMoves DEF HalfDown
  <2>2. CASE host' = [host EXCEPT ![Exec(p)].stack = "none"]
    BY <1>1, <2>2, OnePlace DEF Stacked, TypeInv, TypeOK, HostState
  <2> QED BY <2>1, <2>2 DEF RunDown, Down, Teardown
<1>5. Advanced(p)
  BY <1>1, LateIsAdvanced DEF BeforeManifest, BeforeRun, Ended
<1> QED BY <1>1, <1>3, <1>4, <1>5, SameFilesKept DEF Tame

LEMMA WriteRunTame ==
  ASSUME TypeInv, NEW p \in Procs, WriteRun(p)
  PROVE  Tame(p)
<1> DEFINE f      == files[Exec(p)]
           broken == proc[p].outcome \in Broken
           new    == [f EXCEPT !.run = proc[p].outcome, !.error = broken]
<1>1. /\ proc[p].pc = "writeRun" /\ UNCHANGED host
      /\ proc[p].outcome \in Results /\ f \in FileState /\ Exec(p) \in Execs
      /\ SaveOrAbort(p, f.dir # "none", new, AfterRun(p))
  BY OnePlace DEF WriteRun, At, TypeInv, ProcOK
<1>2. AfterRun(p) \in Pcs \ {"idle"}
  BY DEF AfterRun, Pcs
<1> HIDE DEF broken
<1>3. new.dir = f.dir /\ new.compose = f.compose /\ new.run = proc[p].outcome
  BY <1>1 DEF FileState
<1>4. new.run # "absent"
  BY <1>1, <1>3 DEF Results, Verdicts, Broken
<1> HIDE DEF new
<1>5. Moved(p)
  BY <1>1, <1>2, SaveMoves
<1>6. \A e \in Execs : Kept(e)
  BY <1>1, <1>3, <1>4, SaveKept
<1>7. Advanced(p)
  BY <1>1, LateIsAdvanced DEF BeforeManifest, BeforeRun, Ended
<1> QED BY <1>1, <1>5, <1>6, <1>7, SameHostStacked DEF Tame

LEMMA WriteResultTame ==
  ASSUME TypeInv, NEW p \in Procs, WriteResult(p)
  PROVE  Tame(p)
<1> DEFINE f   == files[Exec(p)]
           new == [f EXCEPT !.result = proc[p].outcome]
<1>1. /\ proc[p].pc = "writeResult" /\ UNCHANGED host
      /\ f \in FileState /\ Exec(p) \in Execs
      /\ SaveOrAbort(p, f.dir # "none", new, AfterResult(p))
  BY OnePlace DEF WriteResult, At
<1>2. AfterResult(p) \in Pcs \ {"idle"}
  BY DEF AfterResult, Pcs
<1>3. new.dir = f.dir /\ new.compose = f.compose /\ new.run = f.run
  BY <1>1 DEF FileState
<1> HIDE DEF new
<1>4. Moved(p)
  BY <1>1, <1>2, SaveMoves
<1>5. \A e \in Execs : Kept(e)
  BY <1>1, <1>3, SaveKept
<1>6. Advanced(p)
  BY <1>1, LateIsAdvanced DEF BeforeManifest, BeforeRun, Ended
<1> QED BY <1>1, <1>4, <1>5, <1>6, SameHostStacked DEF Tame

LEMMA RecordTame ==
  ASSUME TypeInv, NEW p \in Procs, Record(p)
  PROVE  Tame(p)
<1>1. proc[p].pc = "record" /\ UNCHANGED <<files, host>>
  BY DEF Record, At
<1>2. \E w \in {"cleanTemp", "publish"} : Goto(p, w)
  BY DEF Record
<1>3. Moved(p)
  BY <1>1, <1>2, GotoMoves DEF Pcs
<1>4. Advanced(p)
  BY <1>1, LateIsAdvanced DEF BeforeManifest, BeforeRun, Ended
<1> QED BY <1>1, <1>3, <1>4, SameFilesKept, SameHostStacked DEF Tame

LEMMA PublishTame ==
  ASSUME TypeInv, NEW p \in Procs, Publish(p) \/ SaveEnvelope(p)
  PROVE  Tame(p)
<1>1. proc[p].pc \in {"publish", "envelope"} /\ UNCHANGED host
  BY DEF Publish, SaveEnvelope, At
<1>2. {"done", "record", "cleanTemp", "aborted"} \subseteq Pcs \ {"idle"}
  BY DEF Pcs, Ended
<1>3. Moved(p)
  <2>1. CASE \E w \in {"done", "record", "cleanTemp", "aborted"} : Goto(p, w)
    BY <1>1, <1>2, <2>1, GotoMoves
  <2>2. CASE \E s, why : proc' = [proc EXCEPT ![p].pc = "envelope", ![p].seen = s,
                                              ![p].seenReason = why]
    BY <1>1, <2>2 DEF Moved, TypeInv, TypeOK, ProcState
  <2>3. AfterPublish(p) \in {"done", "record", "cleanTemp"}
    BY DEF AfterPublish
  <2> QED BY <2>1, <2>2, <2>3 DEF Publish, SaveEnvelope, PublishThrows
<1>4. \A e \in Execs : Kept(e)
  <2>1. Exec(p) \in Execs /\ files \in [Execs -> FileState]
    BY <1>1, OnePlace DEF TypeInv, TypeOK
  <2>2. \/ files' = files
        \/ files' = [files EXCEPT ![Exec(p)].envelope = proc[p].seen,
                                  ![Exec(p)].reason = proc[p].seenReason]
    BY DEF Publish, SaveEnvelope
  <2> QED BY <2>1, <2>2 DEF Kept, FileState
<1>5. Advanced(p)
  BY <1>1, LateIsAdvanced DEF BeforeManifest, BeforeRun, Ended
<1> QED BY <1>1, <1>3, <1>4, <1>5, SameHostStacked DEF Tame

LEMMA CleanTempTame ==
  ASSUME TypeInv, NEW p \in Procs, CleanTemp(p)
  PROVE  Tame(p)
<1>1. proc[p].pc = "cleanTemp" /\ UNCHANGED files /\ Exec(p) \in Execs
  BY OnePlace DEF CleanTemp, At
<1>2. \E w \in {"lifecycle", "done"} : Goto(p, w)
  BY DEF CleanTemp
<1>3. Moved(p)
  BY <1>1, <1>2, GotoMoves DEF Pcs, Ended
<1>4. Stacked(p)
  BY <1>1 DEF CleanTemp, Stacked, TypeInv, TypeOK, HostState
<1>5. Advanced(p)
  BY <1>1, LateIsAdvanced DEF BeforeManifest, BeforeRun, Ended
<1> QED BY <1>1, <1>3, <1>4, <1>5, SameFilesKept DEF Tame

LEMMA PruneDeleteTame ==
  ASSUME TypeInv, NEW p \in Procs, PruneDelete(p)
  PROVE  Tame(p)
<1>1. /\ proc[p].pc = "delete" /\ UNCHANGED host /\ Goto(p, "done")
      /\ files' = [files EXCEPT ![Exec(p)] = NoFiles]
  BY DEF PruneDelete, At
<1>2. Moved(p)
  BY <1>1, GotoMoves DEF Pcs, Ended
<1>3. \A e \in Execs : Kept(e)
  BY <1>1 DEF Kept, NoFiles, TypeInv, TypeOK
<1>4. Advanced(p)
  BY <1>1, LateIsAdvanced DEF BeforeManifest, BeforeRun, Ended
<1> QED BY <1>1, <1>2, <1>3, <1>4, SameHostStacked DEF Tame

LEMMA CrashTame ==
  ASSUME TypeInv, NEW p \in Procs, Crash(p)
  PROVE  Tame(p)
<1>1. proc[p].pc \notin {"idle"} \cup Ended /\ UNCHANGED files
  BY DEF Crash, Live
<1>2. Moved(p) /\ proc'[p].pc = proc[p].pc
  BY <1>1 DEF Crash, Moved, TypeInv, TypeOK, ProcState
<1>3. Advanced(p)
  BY <1>1, <1>2 DEF Advanced, BeforeRun, TypeInv, ProcOK, CommandOK
<1>4. Stacked(p)
  BY <1>1, OnePlace, StackMoves DEF Crash, HalfDown
<1> QED BY <1>1, <1>2, <1>3, <1>4, SameFilesKept DEF Tame

-----------------------------------------------------------------------------
(* The commands that start. Only a bring-up changes files, those of an     *)
(* execution of its own; the others find what they need, or need nothing.  *)
LEMMA InitDirsKeeps ==
  ASSUME IInv, NEW p \in Procs, NEW e \in Execs, NEW cmd \in BringUp,
         NEW keepUp \in BOOLEAN, NEW suite \in BOOLEAN,
         InitDirs(p, e, cmd, keepUp, suite)
  PROVE  TeardownInv'
<1> DEFINE r == [Idle EXCEPT !.cmd = cmd, !.exec = e, !.pc = "prepare",
                             !.keepUp = keepUp, !.suite = suite]
<1>1. /\ proc[p].pc = "idle" /\ proc[p].exec = NoExec
      /\ \A q \in Procs : proc[q].exec # e
      /\ proc' = [proc EXCEPT ![p] = r] /\ UNCHANGED host
      /\ files' = [files EXCEPT ![e] = [NoFiles EXCEPT !.dir = "full"]]
      /\ proc \in [Procs -> ProcState] /\ files \in [Execs -> FileState]
  BY DEF InitDirs, IInv, TypeInv, TypeOK, ProcOK
<1>2. r.pc = "prepare" /\ r.cmd = cmd /\ r.exec = e
  BY IdleOK DEF ProcState
<1> HIDE DEF r
<1>3. /\ proc'[p] = r /\ \A q \in Procs \ {p} : proc'[q] = proc[q]
      /\ \A x \in Execs \ {e} : files'[x] = files[x]
  BY <1>1
<1>4. host[e].stack = "none"
  BY <1>1 DEF IInv, TeardownInv, FreshOK
<1>5. ASSUME NEW q \in Procs, proc'[q].pc # "idle" PROVE FilesOK(q)'
  <2>1. CASE q = p
    BY <1>2, <1>3, <2>1 DEF FilesOK, BeforeRun, BeforeManifest, BringUp
  <2>2. CASE q # p
    <3>1. /\ proc'[q] = proc[q] /\ FilesOK(q) /\ proc[q].exec \in Execs \ {e}
      BY <1>1, <1>3, <1>5, <2>2 DEF IInv, TypeInv, TeardownInv, ProcOK
    <3>2. files'[proc[q].exec] = files[proc[q].exec]
      BY <1>3, <3>1
    <3> QED BY <3>1, <3>2 DEF FilesOK
  <2> QED BY <2>1, <2>2
<1>6. ASSUME NEW x \in Execs PROVE FreshOK(x)'
  <2>1. CASE x = e
    BY <1>2, <1>3, <2>1 DEF FreshOK
  <2>2. CASE x # e
    <3>1. FreshOK(x)
      BY DEF IInv, TeardownInv
    <3>2. proc[p].exec # x
      BY <1>1, LifecycleAssumption DEF LifecycleAssumption
    <3> QED BY <1>1, <1>3, <3>1, <3>2 DEF FreshOK
  <2> QED BY <2>1, <2>2
<1>7. StackCanBeTornDown'
  <2>1. ASSUME NEW x \in Execs, host[x].stack # "none", files'[x].dir = "full"
        PROVE  /\ files'[x].run # "absent"
               /\ \/ files'[x].compose
                  \/ \E q \in Procs : proc'[q].cmd = "open" /\ proc'[q].exec = x
    <3>1. files'[x] = files[x] /\ proc[p].exec # x
      BY <1>1, <1>3, <1>4, <2>1, LifecycleAssumption DEF LifecycleAssumption
    <3>2. /\ files[x].run # "absent"
          /\ files[x].compose \/ \E q \in Procs : proc[q].cmd = "open" /\ proc[q].exec = x
      BY <2>1, <3>1 DEF IInv, TeardownInv, StackCanBeTornDown
    <3> QED BY <1>3, <3>1, <3>2
  <2> QED BY <1>1, <2>1 DEF StackCanBeTornDown
<1> QED BY <1>5, <1>6, <1>7 DEF TeardownInv

LEMMA StartKeeps ==
  ASSUME IInv, NEW p \in Procs, NEW cmd \in Commands \ BringUp, NEW e \in Execs,
         NEW pc \in Pcs, Start(p, cmd, e, pc), UNCHANGED <<files, host>>,
         cmd \in {"down", "test"} => files[e].run # "absent" /\ files[e].compose
  PROVE  TeardownInv'
<1> DEFINE r == [Idle EXCEPT !.cmd = cmd, !.exec = e, !.pc = pc]
<1>1. /\ proc[p].pc = "idle" /\ proc[p].exec = NoExec /\ proc[p].cmd = "none"
      /\ proc' = [proc EXCEPT ![p] = r]
      /\ proc \in [Procs -> ProcState]
  BY DEF Start, IInv, TypeInv, TypeOK, ProcOK, CommandOK
<1>2. r.pc = pc /\ r.cmd = cmd /\ r.exec = e
  BY IdleOK DEF ProcState
<1> HIDE DEF r
<1>3. proc'[p] = r /\ \A q \in Procs \ {p} : proc'[q] = proc[q]
  BY <1>1
<1>4. ASSUME NEW q \in Procs, proc'[q].pc # "idle" PROVE FilesOK(q)'
  <2>1. CASE q = p
    BY <1>2, <1>3, <2>1 DEF FilesOK, BringUp
  <2>2. CASE q # p
    <3>1. proc'[q] = proc[q] /\ FilesOK(q)
      BY <1>3, <1>4, <2>2 DEF IInv, TeardownInv
    <3> QED BY <3>1 DEF FilesOK
  <2> QED BY <2>1, <2>2
<1>5. \A x \in Execs : proc[p].exec # x
  BY <1>1, LifecycleAssumption DEF LifecycleAssumption
<1>6. ASSUME NEW x \in Execs PROVE FreshOK(x)'
  <2>1. FreshOK(x)
    BY DEF IInv, TeardownInv
  <2> QED BY <1>3, <1>5, <2>1 DEF FreshOK
<1>7. StackCanBeTornDown'
  BY <1>3, <1>5 DEF IInv, TeardownInv, StackCanBeTornDown
<1> QED BY <1>4, <1>6, <1>7 DEF TeardownInv

LEMMA BeginKeeps ==
  ASSUME IInv, NEW p \in Procs, Begin(p)
  PROVE  TeardownInv'
<1>1. PICK e \in Execs :
        \/ \E cmd \in BringUp, keepUp, suite \in BOOLEAN :
             InitDirs(p, e, cmd, keepUp, suite)
        \/ StartDown(p, e) \/ StartTest(p, e)
        \/ StartPrune(p, e) \/ StartEvidence(p, e)
  BY DEF Begin
<1>2. CASE \E cmd \in BringUp, keepUp, suite \in BOOLEAN :
             InitDirs(p, e, cmd, keepUp, suite)
  BY <1>2, InitDirsKeeps
<1>3. /\ {"down", "test", "prune", "evidence"} \subseteq Commands \ BringUp
      /\ {"down", "validateRunner", "delete", "publish"} \subseteq Pcs
  BY DEF Commands, BringUp, Pcs
<1>4. CASE StartDown(p, e)
  BY <1>3, <1>4, StartKeeps DEF StartDown
<1>5. CASE StartTest(p, e)
  <2>1. files[e].run # "absent"
    BY <1>5 DEF StartTest, Testable, Verdicts
  <2> QED BY <1>3, <1>5, <2>1, StartKeeps DEF StartTest
<1>6. CASE StartPrune(p, e)
  BY <1>3, <1>6, StartKeeps DEF StartPrune
<1>7. CASE StartEvidence(p, e)
  BY <1>3, <1>7, StartKeeps DEF StartEvidence
<1> QED BY <1>1, <1>2, <1>4, <1>5, <1>6, <1>7

LEMMA TeardownInit == Init => TeardownInv
<1> SUFFICES ASSUME Init PROVE TeardownInv
  OBVIOUS
<1>1. \A p \in Procs : proc[p].pc = "idle"
  BY DEF Init, Idle
<1>2. \A e \in Execs : host[e].stack = "none"
  BY DEF Init
<1> QED
  BY <1>1, <1>2 DEF TeardownInv, FreshOK, StackCanBeTornDown

LEMMA TeardownStep ==
  ASSUME IInv, [Next]_vars
  PROVE  TeardownInv'
<1>1. CASE UNCHANGED vars
  BY <1>1 DEF vars, IInv, TeardownInv, FilesOK, FreshOK, StackCanBeTornDown
<1>2. ASSUME NEW p \in Procs, Step(p) \/ Crash(p) PROVE TeardownInv'
  <2>1. TypeInv
    BY DEF IInv
  <2>2. Tame(p)
    BY <1>2, <2>1, WritePreparedTame, WriteMarkerTame, WriteComposeTame,
       ValidateTame, BringUpTame, EmitImagesTame, LifecycleTame, CypressTame,
       TearingDownTame, WriteRunTame, WriteResultTame, RecordTame, PublishTame,
       CleanTempTame, PruneDeleteTame, CrashTame DEF Step
  <2> QED BY <2>2, TameKeeps
<1> QED BY <1>1, <1>2, BeginKeeps DEF Next

(* Whatever commands run at once on whatever executions, and whichever of  *)
(* them are killed, an execution with containers has a run.json and the    *)
(* manifest `services down` needs to remove them, for as long as its       *)
(* directory is there (but for `up open`).                                 *)
THEOREM StacksCanBeTornDown == Spec => []StackCanBeTornDown
<1>1. Init => IInv
  BY TypeInit, TeardownInit DEF IInv
<1>2. IInv /\ [Next]_vars => IInv'
  BY StepType, TeardownStep DEF IInv
<1>3. IInv => StackCanBeTornDown
  BY DEF IInv, TeardownInv
<1> QED
  BY <1>1, <1>2, <1>3, PTL DEF Spec

-----------------------------------------------------------------------------
(* The other invariants speak of executions on which no two live commands  *)
(* have been at once. The one that works on such an execution knows what   *)
(* is in its files and which state its stack is in.                        *)
OneAtATime ==
  \A p, q \in Procs :
    /\ Live(p) /\ Live(q) /\ proc[p].exec = proc[q].exec /\ Alone(proc[p].exec)
    => p = q

OneBringUp ==
  \A p, q \in Procs :
    /\ proc[p].cmd \in BringUp /\ proc[q].cmd \in BringUp
    /\ proc[p].exec = proc[q].exec
    => p = q

(* A bring-up finds no outcome before it has written one.                  *)
Early == {"prepare", "mark", "compose", "validate", "up", "images", "dev",
          "devCompose", "devUp", "validateRunner", "runCompose", "cypress", "down",
          "lifecycle"}

Beginning(p) ==
  LET r == proc[p]
      f == files[proc[p].exec]
  IN  /\ f.dir = "full"
      /\ r.cmd \in BringUp =>
           /\ r.pc \in Early \/ (r.pc = "writeRun" /\ r.teardown # "failed") =>
                f.run \in {"absent", "prepared"} /\ f.result = "absent"
           /\ r.pc \in Early \cup {"writeRun", "writeResult", "teardown"} =>
                f.envelope = "absent"
           /\ r.pc = "writeRun" /\ r.teardown = "failed" =>
                f.run = f.result /\ f.run \in Broken
           /\ r.pc \in Early => r.teardown = "no"
           /\ r.pc = "teardown" => r.teardown = "todo"
           /\ r.teardown # "no" => r.outcome \in Broken
      /\ r.cmd = "test" /\ r.pc \in {"validateRunner", "cypress", "writeRun"} =>
           f.run \in {"active", "open"} \cup Verdicts

(* What it has written so far is there.                                    *)
Writing(p) ==
  LET r == proc[p]
      f == files[proc[p].exec]
  IN  /\ r.pc = "writeResult" => f.run = r.outcome /\ (f.error <=> r.outcome \in Broken)
      /\ /\ r.pc \in {"teardown", "record", "publish", "envelope", "cleanTemp"}
         /\ r.cmd \in BringUp \cup {"test"}
         => /\ f.run = r.outcome /\ f.result = r.outcome /\ r.outcome \in Results
            /\ f.error <=> r.outcome \in Broken
      /\ r.pc = "envelope" =>
           r.seen = f.result /\ (r.seenReason <=> f.error \/ f.result # "passed")
      /\ /\ r.cmd \in BringUp
         /\ r.pc = "cleanTemp" \/ (r.pc = "record" /\ r.outcome \in Verdicts)
         => f.envelope = f.result /\ (f.reason <=> f.result # "passed")

(* The stack is as it has left it.                                         *)
Standing(p) ==
  LET r == proc[p]
      s == host[proc[p].exec].stack
  IN  /\ /\ r.cmd = "down" /\ r.pc \in {"cleanTemp", "lifecycle"}
         /\ r.outcome = "stopped"
         => s = "none"
      /\ r.cmd = "up" /\ r.pc \in {"images", "lifecycle"} => s = "up"
      /\ r.cmd = "open" /\ r.pc = "lifecycle" => s = "up"
      /\ r.cmd = "run" /\ ~r.keepUp =>
           /\ r.pc \in {"prepare", "mark", "compose", "validate", "up"} => s = "none"
           /\ r.pc \in {"writeRun", "writeResult"} =>
                \/ s = "none" \/ r.outcome = "cleanup-failed"
                \/ r.teardown = "todo" /\ r.outcome = "infra-failed"
           /\ r.pc \in {"record", "publish", "envelope", "cleanTemp"} =>
                s = "none" \/ r.outcome = "cleanup-failed"

(* The suite has its entry when it is due; prune has chosen well.          *)
Listing(p) ==
  LET r == proc[p]
  IN  /\ r.pc = "record" => r.teardown # "failed"
      /\ /\ r.cmd = "run" /\ r.suite /\ r.teardown # "failed"
         /\ r.pc = "cleanTemp" \/ (r.pc \in {"publish", "envelope"} /\ r.outcome \in Broken)
         => <<r.exec, r.outcome>> \in suiteRuns
      /\ r.cmd = "prune" =>
           /\ files[r.exec].run \notin Nonterminal
           /\ "all" \notin PruneScopes => r.exec # last

Working(p) == Beginning(p) /\ Writing(p) /\ Standing(p) /\ Listing(p)

WorkOK == \A p \in Procs : Live(p) /\ Alone(proc[p].exec) => Working(p)

(* It will publish the result that it has written; or was killed on the    *)
(* way.                                                                    *)
Owes(p) ==
  LET r == proc[p]
  IN  \/ r.dead /\ r.pc \in {"teardown", "record", "publish", "envelope"}
      \/ /\ ~r.dead /\ r.cmd # "evidence"
         /\ \/ r.pc \in {"teardown", "publish", "envelope"}
            \/ r.pc = "record" /\ r.outcome \in Broken

HalfWritten(e) == \E p \in Procs : proc[p].exec = e /\ proc[p].pc = "writeResult"

Owed(e) == \E p \in Procs : proc[p].exec = e /\ Owes(p)

Touched(e) == \E p \in Procs : proc[p].exec = e /\ proc[p].cmd \in {"down", "test"}

(* What holds of an execution whether a command works on it or not.        *)
ResultOK(e) ==
  \/ files[e].result = "absent" /\ files[e].run \notin Results
  \/ files[e].run \in {files[e].result} \cup DownStates
  \/ HalfWritten(e)

EnvelopeOK(e) == files[e].envelope \in {"absent", files[e].result} \/ Owed(e)

StackOK(e) ==
  /\ files[e].run = "stopped" => host[e].stack = "none"
  /\ files[e].run \in {"active", "open"} /\ host[e].stack # "up" => Touched(e)

WholeOK(e) ==
  files[e].dir \in {"none", "full"} /\ (files[e].dir = "none" => files[e] = NoFiles)

Resting(e) == ResultOK(e) /\ EnvelopeOK(e) /\ StackOK(e) /\ WholeOK(e)

RestOK == \A e \in Execs : Alone(e) => Resting(e)

(* `up run` without --keep-up, live or not, leaves nothing to be tested.   *)
Dropping(p) == proc[p].cmd = "run" /\ ~proc[p].keepUp /\ Alone(proc[p].exec)

Settling(p) ==
  LET r == proc[p]
      f == files[proc[p].exec]
      s == host[proc[p].exec].stack
  IN  /\ f.run \notin {"active", "open"}
      /\ f.run \in Verdicts => s = "none"
      /\ r.pc = "done" /\ f.dir = "full" /\ s # "none" =>
           f.run \in {"cleanup-failed", "down-failed"}
      /\ r.pc \in {"record", "publish", "envelope", "cleanTemp", "done"} =>
           f.result \in {r.outcome, "absent"}

SettleOK ==
  \A p \in Procs :
    Dropping(p) =>
      /\ Settling(p)
      /\ \A q \in Procs : proc[q].exec = proc[p].exec /\ Live(q) => proc[q].cmd # "test"

(* Each suite entry is of a run that has made it for good.                 *)
Entered(p, s) ==
  LET r == proc[p]
  IN  /\ r.cmd = "run" /\ r.suite /\ r.outcome = s
      /\ \/ r.pc \in {"cleanTemp", "done"}
         \/ r.pc \in {"publish", "envelope"} /\ s \in Broken

EntriesOK ==
  /\ \A entry \in suiteRuns :
       \E p \in Procs : proc[p].exec = entry[1] /\ Entered(p, entry[2])
  /\ \A p \in Procs : proc[p].suite => ~proc[p].keepUp
  /\ \A p \in Procs : proc[p].pc = "record" => proc[p].suite

LifeInv ==
  /\ OneAtATime /\ OneBringUp /\ WorkOK /\ RestOK /\ SettleOK /\ EntriesOK

-----------------------------------------------------------------------------
(* A step of a running command, as far as LifeInv is concerned: what it    *)
(* leaves alone, and what it does to the execution it works on.            *)
Elsewhere(p) ==
  /\ Live(p) /\ Exec(p) \in Execs
  /\ \A q \in Procs \ {p} : proc'[q] = proc[q]
  /\ \A x \in Execs \ {Exec(p)} :
       files'[x] = files[x] /\ host'[x].stack = host[x].stack
  /\ proc'[p].exec = proc[p].exec /\ proc'[p].cmd = proc[p].cmd
  /\ proc'[p].keepUp = proc[p].keepUp /\ proc'[p].suite = proc[p].suite
  /\ crossed' = crossed
  /\ last' = last \/ (last' = Exec(p) /\ proc[p].cmd \in BringUp)
  /\ suiteRuns \subseteq suiteRuns'

Settles(p) ==
  \A q \in Procs : Dropping(q) /\ proc[q].exec = Exec(p) => Settling(q)'

(* The three action properties.                                            *)
StaysBroken(p) ==
  files[Exec(p)].run \in Broken \cup DownStates =>
    files'[Exec(p)].run \notin Nonterminal \cup Verdicts

EndsByCleaning(p) ==
  proc[p].cmd = "run" /\ proc'[p].pc = "done" => CleanTemp(p)

OnlyPruned(p) ==
  files[Exec(p)].dir = "full" /\ files'[Exec(p)].dir = "none" => proc[p].cmd = "prune"

Acts(p) ==
  /\ Elsewhere(p) /\ EntriesOK' /\ EndsByCleaning(p)
  /\ Alone(Exec(p)) =>
       /\ Live(p)' => Working(p)'
       /\ \A x \in Execs : x = Exec(p) => Resting(x)'
       /\ Settles(p) /\ StaysBroken(p) /\ OnlyPruned(p)

LEMMA ActsKeep ==
  ASSUME TypeInv, LifeInv, NEW p \in Procs, Acts(p)
  PROVE  LifeInv'
<1>0. Elsewhere(p) /\ Live(p) /\ Exec(p) = proc[p].exec /\ Exec(p) \in Execs
  BY DEF Acts, Elsewhere, Exec
<1>1. \A q \in Procs :
        /\ proc'[q].exec = proc[q].exec /\ proc'[q].cmd = proc[q].cmd
        /\ proc'[q].keepUp = proc[q].keepUp /\ proc'[q].suite = proc[q].suite
        /\ Live(q)' => Live(q)
  BY <1>0 DEF Elsewhere, Live
<1>2. \A x : Alone(x)' <=> Alone(x)
  BY <1>0 DEF Elsewhere, Alone
<1>3. OneAtATime' /\ OneBringUp'
  BY <1>1, <1>2 DEF LifeInv, OneAtATime, OneBringUp
<1>4. ASSUME NEW q \in Procs, q # p, Live(q), Alone(proc[q].exec)
      PROVE  proc[q].exec \in Execs /\ proc[q].exec # Exec(p) /\ Working(q)
  <2>1. proc[q].exec \in Execs
    BY <1>4 DEF TypeInv, ProcOK, Live
  <2>2. proc[q].exec # Exec(p)
    BY <1>0, <1>4 DEF LifeInv, OneAtATime
  <2> QED BY <1>4, <2>1, <2>2 DEF LifeInv, WorkOK
<1>5. ASSUME NEW q \in Procs, Live(q)', Alone(proc[q].exec)'
      PROVE  Working(q)'
  <2>1. CASE q = p
    BY <1>1, <1>2, <1>5, <2>1, <1>0 DEF Acts
  <2>2. CASE q # p
    <3>1. proc'[q] = proc[q] /\ Live(q) /\ Alone(proc[q].exec)
      BY <1>0, <1>1, <1>2, <1>5, <2>2 DEF Elsewhere
    <3>2. Working(q) /\ proc[q].exec \in Execs /\ proc[q].exec # Exec(p)
      BY <1>4, <2>2, <3>1
    <3>3. /\ files'[proc[q].exec] = files[proc[q].exec]
          /\ host'[proc[q].exec].stack = host[proc[q].exec].stack
      BY <1>0, <3>2 DEF Elsewhere
    <3>4. (Beginning(q) /\ Writing(q) /\ Standing(q))'
      BY <3>1, <3>2, <3>3 DEF Working, Beginning, Writing, Standing
    <3>5. Listing(q)'
      BY <1>0, <3>1, <3>2, <3>3 DEF Working, Listing, Elsewhere
    <3> QED BY <3>4, <3>5 DEF Working
  <2> QED BY <2>1, <2>2
<1>6. WorkOK'
  BY <1>5 DEF WorkOK
<1>7. ASSUME NEW x \in Execs, Alone(x)' PROVE Resting(x)'
  <2>1. CASE x = Exec(p)
    BY <1>2, <1>7, <2>1 DEF Acts
  <2>2. CASE x # Exec(p)
    <3>1. /\ files'[x] = files[x] /\ host'[x].stack = host[x].stack
          /\ \A q \in Procs : proc[q].exec = x => proc'[q] = proc[q]
      BY <1>0, <2>2 DEF Elsewhere
    <3>2. Resting(x)
      BY <1>2, <1>7 DEF LifeInv, RestOK
    <3>3. ResultOK(x) /\ EnvelopeOK(x) /\ StackOK(x) /\ WholeOK(x)
      BY <3>2 DEF Resting
    <3>4. HalfWritten(x) => HalfWritten(x)'
      BY <3>1 DEF HalfWritten
    <3>5. ResultOK(x)'
      BY <3>1, <3>3, <3>4 DEF ResultOK
    <3>6. EnvelopeOK(x)'
      BY <3>1, <3>3 DEF EnvelopeOK, Owed, Owes
    <3>7. StackOK(x)'
      BY <3>1, <3>3 DEF StackOK, Touched
    <3>8. WholeOK(x)'
      BY <3>1, <3>3 DEF WholeOK
    <3> QED BY <3>5, <3>6, <3>7, <3>8 DEF Resting
  <2> QED BY <2>1, <2>2
<1>8. RestOK'
  BY <1>7 DEF RestOK
<1>9. ASSUME NEW q \in Procs, Dropping(q)' PROVE Settling(q)'
  <2>1. Dropping(q) /\ Settling(q)
    BY <1>1, <1>2, <1>9 DEF Dropping, LifeInv, SettleOK
  <2>2. CASE proc[q].exec = Exec(p)
    BY <2>1, <2>2 DEF Acts, Settles, Dropping
  <2>3. CASE proc[q].exec # Exec(p)
    <3>1. proc'[q] = proc[q] /\ proc[q].exec \in Execs
      BY <1>0, <2>1, <2>3 DEF Elsewhere, Dropping, TypeInv, ProcOK, CommandOK
    <3>2. /\ files'[proc[q].exec] = files[proc[q].exec]
          /\ host'[proc[q].exec].stack = host[proc[q].exec].stack
      BY <1>0, <2>3, <3>1 DEF Elsewhere
    <3> QED BY <2>1, <3>1, <3>2 DEF Settling
  <2> QED BY <2>2, <2>3
<1>10. SettleOK'
  BY <1>1, <1>2, <1>9 DEF SettleOK, Dropping, LifeInv
<1> QED
  BY <1>3, <1>6, <1>8, <1>10 DEF LifeInv, Acts

(* What the steps of a command have in common.                             *)
Carried(p) ==
  /\ \A q \in Procs \ {p} : proc'[q] = proc[q]
  /\ proc'[p].exec = proc[p].exec /\ proc'[p].cmd = proc[p].cmd
  /\ proc'[p].keepUp = proc[p].keepUp /\ proc'[p].suite = proc[p].suite

LEMMA GotoFields ==
  ASSUME TypeInv, NEW p \in Procs, NEW w, Goto(p, w)
  PROVE  /\ Carried(p) /\ proc'[p].pc = w /\ proc'[p].dead = proc[p].dead
         /\ proc'[p].outcome = proc[p].outcome
         /\ proc'[p].teardown = proc[p].teardown
         /\ proc'[p].seen = proc[p].seen
         /\ proc'[p].seenReason = proc[p].seenReason
BY DEF Goto, Carried, TypeInv, TypeOK, ProcState

LEMMA FailPhaseFields ==
  ASSUME TypeInv, NEW p \in Procs, NEW t, FailPhase(p, t)
  PROVE  /\ Carried(p) /\ proc'[p].pc = "writeRun"
         /\ proc'[p].dead = proc[p].dead
         /\ proc'[p].outcome = "infra-failed"
         /\ proc'[p].teardown = IF t THEN "todo" ELSE "no"
BY DEF FailPhase, Carried, TypeInv, TypeOK, ProcState

LEMMA SaveFields ==
  ASSUME TypeInv, NEW p \in Procs, NEW possible, NEW new, NEW w,
         SaveOrAbort(p, possible, new, w), Live(p)
  PROVE  /\ Carried(p) /\ proc'[p].dead = proc[p].dead
         /\ proc'[p].pc \in {w, "aborted"}
         /\ \A x \in Execs \ {Exec(p)} : files'[x] = files[x]
         /\ proc'[p].outcome = proc[p].outcome
         /\ proc'[p].teardown = proc[p].teardown
         /\ possible => proc'[p].pc = w /\ files'[Exec(p)] = new
         /\ ~possible => proc'[p].pc = "aborted" /\ files' = files
<1>1. Exec(p) \in Execs /\ files \in [Execs -> FileState]
  BY DEF TypeInv, TypeOK, ProcOK, Exec, Live
<1> QED BY <1>1, GotoFields DEF SaveOrAbort

LEMMA StackFields ==
  ASSUME TypeInv, NEW p \in Procs, NEW states, StackBecomes(p, states), Live(p)
  PROVE  /\ \A x \in Execs \ {Exec(p)} : host'[x].stack = host[x].stack
         /\ host'[Exec(p)].stack \in states \cup {host[Exec(p)].stack}
         /\ \A x \in Execs : host'[x].temp = host[x].temp
<1>1. Exec(p) \in Execs /\ host \in [Execs -> HostState]
  BY DEF TypeInv, TypeOK, ProcOK, Exec, Live
<1> QED BY <1>1 DEF StackBecomes, HostState

LEMMA LiveFacts ==
  ASSUME TypeInv, LifeInv, NEW p \in Procs, Live(p)
  PROVE  /\ proc[p] \in ProcState /\ ProcOK(p) /\ Exec(p) = proc[p].exec
         /\ Exec(p) \in Execs /\ files[Exec(p)] \in FileState
         /\ host[Exec(p)] \in HostState /\ proc[p].pc \notin {"idle"} \cup Ended
         /\ ~proc[p].dead
         /\ Alone(Exec(p)) => Working(p) /\ Resting(Exec(p))
         /\ Dropping(p) => Settling(p)
BY DEF TypeInv, TypeOK, ProcOK, Exec, Live, LifeInv, WorkOK, RestOK, SettleOK

LEMMA ElsewhereHolds ==
  ASSUME TypeInv, NEW p \in Procs, Live(p), Carried(p),
         \A x \in Execs \ {Exec(p)} :
           files'[x] = files[x] /\ host'[x].stack = host[x].stack,
         crossed' = crossed, suiteRuns \subseteq suiteRuns',
         last' = last \/ (last' = Exec(p) /\ proc[p].cmd \in BringUp)
  PROVE  Elsewhere(p)
BY DEF Elsewhere, Carried, TypeInv, ProcOK, Live, Exec

(* Entries that are not disturbed.                                         *)
LEMMA EntriesKept ==
  ASSUME LifeInv, NEW p \in Procs, Carried(p), suiteRuns' = suiteRuns,
         proc[p].pc \in {"publish", "envelope", "cleanTemp", "done"} =>
           /\ proc'[p].outcome = proc[p].outcome
           /\ \/ proc[p].cmd # "run"
              \/ proc'[p].pc \in {"cleanTemp", "done"}
              \/ {proc[p].pc, proc'[p].pc} \subseteq {"publish", "envelope"}
              \/ /\ proc[p].pc \in {"publish", "envelope"}
                 /\ proc[p].outcome \notin Broken,
         proc'[p].pc = "record" => proc[p].suite
  PROVE  EntriesOK'
<1>1. ASSUME NEW entry \in suiteRuns
      PROVE  \E q \in Procs : proc'[q].exec = entry[1] /\ Entered(q, entry[2])'
  <2>1. PICK q \in Procs : proc[q].exec = entry[1] /\ Entered(q, entry[2])
    BY DEF LifeInv, EntriesOK
  <2>2. Entered(q, entry[2])'
    <3>1. CASE q # p
      BY <2>1, <3>1 DEF Carried, Entered
    <3>2. CASE q = p
      BY <2>1, <3>2 DEF Carried, Entered
    <3> QED BY <3>1, <3>2
  <2>3. proc'[q].exec = proc[q].exec
    BY DEF Carried
  <2> QED BY <2>1, <2>2, <2>3
<1>2. \A q \in Procs : proc'[q].suite => ~proc'[q].keepUp
  BY DEF LifeInv, EntriesOK, Carried
<1>3. \A q \in Procs : proc'[q].pc = "record" => proc'[q].suite
  BY DEF LifeInv, EntriesOK, Carried
<1> QED BY <1>1, <1>2, <1>3 DEF EntriesOK

(* What a step leaves of the traces of a command.                          *)
LEMMA TracesKept ==
  ASSUME NEW p \in Procs, Carried(p), NEW x \in Execs, x = Exec(p)
  PROVE  /\ Touched(x) => Touched(x)'
         /\ (Owes(p) => Owes(p)') => (Owed(x) => Owed(x)')
         /\ (proc[p].pc # "writeResult" \/ proc'[p].pc = "writeResult") =>
              (HalfWritten(x) => HalfWritten(x)')
BY DEF Carried, Touched, Owed, Owes, HalfWritten

LEMMA SettlesBringUp ==
  ASSUME TypeInv, LifeInv, NEW p \in Procs, Live(p), proc[p].cmd \in BringUp,
         Dropping(p) => Settling(p)'
  PROVE  Settles(p)
<1>1. ASSUME NEW q \in Procs, Dropping(q), proc[q].exec = Exec(p)
      PROVE  q = p
  BY <1>1 DEF Dropping, LifeInv, OneBringUp, BringUp, Exec
<1> QED BY <1>1 DEF Settles

(* A step that changes no status and no stack.                             *)
SameStatus(x) ==
  /\ files'[x].dir = files[x].dir /\ files'[x].run = files[x].run
  /\ files'[x].error = files[x].error /\ files'[x].result = files[x].result
  /\ files'[x].envelope = files[x].envelope /\ files'[x].reason = files[x].reason
  /\ files[x].dir # "full" => files'[x] = files[x]

LEMMA QuietRests ==
  ASSUME NEW p \in Procs, Carried(p), NEW x \in Execs, x = Exec(p), Resting(x),
         SameStatus(x), host'[x].stack = host[x].stack,
         proc[p].pc # "writeResult" \/ proc'[p].pc = "writeResult",
         Owes(p) => Owes(p)'
  PROVE  Resting(x)'
<1>1. ResultOK(x) /\ EnvelopeOK(x) /\ StackOK(x) /\ WholeOK(x)
  BY DEF Resting
<1>2. ResultOK(x)'
  <2>1. HalfWritten(x) => HalfWritten(x)'
    BY TracesKept
  <2>2. ResultOK(x) => \/ files'[x].result = "absent" /\ files'[x].run \notin Results
                       \/ files'[x].run \in {files'[x].result} \cup DownStates
                       \/ HalfWritten(x)
    BY DEF ResultOK, SameStatus
  <2> QED BY <1>1, <2>1, <2>2 DEF ResultOK
<1>3. EnvelopeOK(x)'
  BY <1>1 DEF EnvelopeOK, Owed, Owes, SameStatus, Carried
<1>4. StackOK(x)'
  BY <1>1 DEF StackOK, Touched, SameStatus, Carried
<1>5. WholeOK(x)'
  BY <1>1 DEF WholeOK, SameStatus
<1> QED BY <1>2, <1>3, <1>4, <1>5 DEF Resting

LEMMA QuietActs ==
  ASSUME TypeInv, LifeInv, NEW p \in Procs, Live(p), Carried(p), EntriesOK',
         crossed' = crossed, suiteRuns \subseteq suiteRuns',
         last' = last \/ (last' = Exec(p) /\ proc[p].cmd \in BringUp),
         \A x \in Execs : host'[x].stack = host[x].stack,
         \A x \in Execs \ {Exec(p)} : files'[x] = files[x],
         EndsByCleaning(p),
         proc[p].pc # "writeResult" \/ proc'[p].pc = "writeResult",
         Alone(Exec(p)) =>
           /\ Owes(p) => Owes(p)'
           /\ SameStatus(Exec(p))
           /\ Live(p)' => Working(p)'
           /\ Dropping(p) => Settling(p)'
  PROVE  Acts(p)
<1>1. Elsewhere(p)
  BY ElsewhereHolds
<1>2. ASSUME Alone(Exec(p))
      PROVE  /\ \A x \in Execs : x = Exec(p) => Resting(x)'
             /\ Settles(p) /\ StaysBroken(p) /\ OnlyPruned(p)
  <2>1. Resting(Exec(p)) /\ Exec(p) \in Execs /\ Exec(p) = proc[p].exec
    BY <1>2, LiveFacts
  <2>2. ASSUME NEW x \in Execs, x = Exec(p) PROVE Resting(x)'
    BY <1>2, <2>1, <2>2, QuietRests
  <2>3. ASSUME NEW q \in Procs, Dropping(q), proc[q].exec = Exec(p)
        PROVE  Settling(q)'
    <3>1. CASE q = p
      BY <1>2, <2>3, <3>1
    <3>2. CASE q # p
      <4>1. proc'[q] = proc[q] /\ Settling(q)
        BY <2>3, <3>2 DEF Carried, LifeInv, SettleOK
      <4> QED BY <1>2, <2>1, <2>3, <4>1 DEF Settling, SameStatus
    <3> QED BY <3>1, <3>2
  <2>4. StaysBroken(p) /\ OnlyPruned(p)
    BY <1>2 DEF StaysBroken, OnlyPruned, SameStatus, Broken, DownStates,
       Nonterminal, Verdicts
  <2> QED BY <2>2, <2>3, <2>4 DEF Settles
<1> QED BY <1>1, <1>2 DEF Acts

LEMMA WriteMarkerActs ==
  ASSUME TypeInv, LifeInv, NEW p \in Procs, WriteMarker(p)
  PROVE  Acts(p)
<1>1. /\ Live(p) /\ proc[p].pc = "mark" /\ proc[p].cmd \in BringUp
      /\ UNCHANGED <<files, host, suiteRuns, crossed>> /\ last' = Exec(p)
  BY DEF WriteMarker, At, Live, Ended, TypeInv, ProcOK, CommandOK
<1>2. /\ Carried(p) /\ proc'[p].pc \in {"validate", "compose"}
      /\ proc'[p].dead = proc[p].dead /\ proc'[p].outcome = proc[p].outcome
      /\ proc'[p].teardown = proc[p].teardown
  BY GotoFields DEF WriteMarker, AfterMark
<1>3. EntriesOK' /\ EndsByCleaning(p)
  BY <1>1, <1>2, EntriesKept DEF EndsByCleaning
<1>4. ASSUME Alone(Exec(p))
      PROVE  /\ SameStatus(Exec(p)) /\ Working(p)'
             /\ Dropping(p) => Settling(p)'
  <2>1. Working(p) /\ Exec(p) = proc[p].exec /\ (Dropping(p) => Settling(p))
    BY <1>1, <1>4, LiveFacts
  <2>2. Working(p)'
    BY <1>1, <1>2, <2>1
    DEF Working, Beginning, Writing, Standing, Listing, Carried, BringUp, Early,
        Verdicts, Broken
  <2> QED BY <1>1, <1>2, <2>1, <2>2 DEF Settling, SameStatus, Carried
<1> QED
  BY <1>1, <1>2, <1>3, <1>4, QuietActs DEF Owes

LEMMA WriteComposeActs ==
  ASSUME TypeInv, LifeInv, NEW p \in Procs, WriteCompose(p)
  PROVE  Acts(p)
<1> DEFINE f == files[Exec(p)]
           w == [compose    |-> IF proc[p].cmd = "open" THEN "dev" ELSE "validate",
                 runCompose |-> "cypress",
                 devCompose |-> "devUp"][proc[p].pc]
<1>1. /\ Live(p) /\ proc[p].pc \in {"compose", "runCompose", "devCompose"}
      /\ proc[p].cmd \in BringUp /\ ~proc[p].dead
      /\ UNCHANGED <<host, last, suiteRuns, crossed>>
      /\ SaveOrAbort(p, f.dir = "full", [f EXCEPT !.compose = TRUE], w)
  BY DEF WriteCompose, Live, Ended, TypeInv, ProcOK, CommandOK, BringUp
<1>2. /\ proc[p].pc = "compose" => w \in {"dev", "validate"} /\ (w = "dev" => proc[p].cmd = "open")
      /\ proc[p].pc = "runCompose" => w = "cypress" /\ proc[p].cmd = "run"
      /\ proc[p].pc = "devCompose" => w = "devUp" /\ proc[p].cmd = "open"
  BY <1>1 DEF TypeInv, ProcOK, CommandOK
<1> HIDE DEF w
<1>3. /\ Carried(p) /\ proc'[p].pc \in {w, "aborted"} /\ ~proc'[p].dead
      /\ proc'[p].outcome = proc[p].outcome /\ proc'[p].teardown = proc[p].teardown
      /\ \A x \in Execs \ {Exec(p)} : files'[x] = files[x]
      /\ f.dir = "full" =>
           proc'[p].pc = w /\ files'[Exec(p)] = [f EXCEPT !.compose = TRUE]
      /\ f.dir # "full" => proc'[p].pc = "aborted" /\ files' = files
  BY <1>1, SaveFields
<1>4. EntriesOK' /\ EndsByCleaning(p)
  BY <1>1, <1>2, <1>3, EntriesKept DEF EndsByCleaning
<1>5. ASSUME Alone(Exec(p))
      PROVE  /\ SameStatus(Exec(p)) /\ (Live(p)' => Working(p)')
             /\ Dropping(p) => Settling(p)'
  <2>1. /\ Working(p) /\ Exec(p) = proc[p].exec /\ f \in FileState
        /\ Dropping(p) => Settling(p)
    BY <1>1, <1>5, LiveFacts
  <2>2. /\ SameStatus(Exec(p)) /\ f.dir = "full" /\ proc'[p].pc = w
        /\ files'[Exec(p)].dir = "full"
    BY <1>3, <2>1 DEF Working, Beginning, SameStatus, FileState
  <2>3. Working(p)'
    BY <1>1, <1>2, <1>3, <2>1, <2>2
    DEF Working, Beginning, Writing, Standing, Listing, SameStatus, Carried,
        BringUp, Early, Verdicts, Broken
  <2> QED BY <1>1, <1>2, <1>3, <2>1, <2>2, <2>3 DEF Settling, SameStatus, Carried
<1> QED
  BY <1>1, <1>2, <1>3, <1>4, <1>5, QuietActs DEF Owes

LEMMA ValidateActs ==
  ASSUME TypeInv, LifeInv, NEW p \in Procs,
         ValidateBase(p) \/ ValidateRunner(p) \/ ValidateDev(p)
  PROVE  Acts(p)
<1>1. /\ Live(p) /\ proc[p].pc \in {"validate", "validateRunner", "dev"}
      /\ proc[p].cmd \in BringUp \cup {"test"} /\ ~proc[p].dead
      /\ proc[p].pc = "validate" => proc[p].cmd \in BringUp
      /\ proc[p].pc = "validateRunner" => proc[p].cmd \in {"run", "test"}
      /\ proc[p].pc = "dev" => proc[p].cmd = "open"
      /\ UNCHANGED <<files, host, last, suiteRuns, crossed>>
  BY DEF ValidateBase, ValidateRunner, ValidateDev, At, Live, Ended, TypeInv, ProcOK,
         CommandOK, BringUp
<1>2. \/ /\ proc[p].pc = "validate"
         /\ Goto(p, "up") \/ FailPhase(p, FALSE)
      \/ /\ proc[p].pc = "validateRunner"
         /\ \/ Goto(p, "cypress") /\ proc[p].cmd = "test"
            \/ Goto(p, "runCompose") /\ proc[p].cmd = "run"
            \/ FailPhase(p, proc[p].cmd # "test" /\ ~proc[p].keepUp)
      \/ /\ proc[p].pc = "dev"
         /\ Goto(p, "devCompose") \/ FailPhase(p, TRUE)
  BY <1>1 DEF ValidateBase, ValidateRunner, ValidateDev, At
<1>3. /\ Carried(p) /\ ~proc'[p].dead
      /\ \/ /\ proc'[p].outcome = proc[p].outcome
            /\ proc'[p].teardown = proc[p].teardown
            /\ \/ proc[p].pc = "validate" /\ proc'[p].pc = "up"
               \/ proc[p].pc = "validateRunner" /\ proc[p].cmd = "test" /\ proc'[p].pc = "cypress"
               \/ proc[p].pc = "validateRunner" /\ proc[p].cmd = "run" /\ proc'[p].pc = "runCompose"
               \/ proc[p].pc = "dev" /\ proc'[p].pc = "devCompose"
         \/ /\ proc'[p].pc = "writeRun" /\ proc'[p].outcome = "infra-failed"
            /\ proc'[p].teardown # "failed"
            /\ proc[p].pc = "validateRunner" /\ proc[p].cmd = "run" /\ ~proc[p].keepUp =>
                 proc'[p].teardown = "todo"
  BY <1>1, <1>2, GotoFields, FailPhaseFields
<1>4. EntriesOK' /\ EndsByCleaning(p)
  BY <1>1, <1>3, EntriesKept DEF EndsByCleaning
<1>5. ASSUME Alone(Exec(p))
      PROVE  /\ SameStatus(Exec(p)) /\ Working(p)'
             /\ Dropping(p) => Settling(p)'
  <2>1. Working(p) /\ Exec(p) = proc[p].exec /\ (Dropping(p) => Settling(p))
    BY <1>1, <1>5, LiveFacts
  <2>2. Beginning(p)' /\ Writing(p)' /\ Listing(p)'
    BY <1>1, <1>3, <2>1
    DEF Working, Beginning, Writing, Listing, Carried, BringUp, Early, Verdicts, Broken
  <2>3. Standing(p)'
    BY <1>1, <1>3, <2>1 DEF Working, Standing, Carried, BringUp
  <2> QED BY <1>1, <1>3, <2>1, <2>2, <2>3 DEF Working, Settling, SameStatus, Carried
<1> QED
  BY <1>1, <1>3, <1>4, <1>5, QuietActs DEF Owes

LEMMA EmitImagesActs ==
  ASSUME TypeInv, LifeInv, NEW p \in Procs, EmitImages(p)
  PROVE  Acts(p)
<1> DEFINE f == files[Exec(p)]
           w == CASE proc[p].cmd = "run"  -> "validateRunner"
                  [] proc[p].cmd = "up"   -> "lifecycle"
                  [] proc[p].cmd = "open" -> "compose"
<1>1. /\ Live(p) /\ proc[p].pc = "images" /\ proc[p].cmd \in BringUp /\ ~proc[p].dead
      /\ UNCHANGED <<host, last, suiteRuns, crossed>>
      /\ files \in [Execs -> FileState] /\ Exec(p) \in Execs
  BY DEF EmitImages, At, Live, Ended, TypeInv, TypeOK, ProcOK, CommandOK, Exec
<1>2. /\ proc[p].cmd = "run" => w = "validateRunner"
      /\ proc[p].cmd = "up" => w = "lifecycle"
      /\ proc[p].cmd = "open" => w = "compose"
  OBVIOUS
<1>3. \/ files' = [files EXCEPT ![Exec(p)].dir = IF @ = "none" THEN "meta" ELSE @]
         /\ Goto(p, w)
      \/ UNCHANGED files /\ proc[p].cmd = "up" /\ FailPhase(p, TRUE)
      \/ UNCHANGED files /\ Goto(p, "aborted")
  BY DEF EmitImages
<1> HIDE DEF w
<1>4. /\ Carried(p) /\ ~proc'[p].dead
      /\ \A x \in Execs \ {Exec(p)} : files'[x] = files[x]
      /\ f.dir = "full" => files'[Exec(p)] = f
      /\ \/ /\ proc'[p].pc = w /\ proc'[p].outcome = proc[p].outcome
            /\ proc'[p].teardown = proc[p].teardown
         \/ /\ proc'[p].pc = "writeRun" /\ proc'[p].outcome = "infra-failed"
            /\ proc'[p].teardown = "todo" /\ proc[p].cmd = "up"
         \/ proc'[p].pc = "aborted"
  <2>1. /\ Carried(p) /\ ~proc'[p].dead
        /\ \/ /\ proc'[p].pc = w /\ proc'[p].outcome = proc[p].outcome
              /\ proc'[p].teardown = proc[p].teardown
           \/ /\ proc'[p].pc = "writeRun" /\ proc'[p].outcome = "infra-failed"
              /\ proc'[p].teardown = "todo" /\ proc[p].cmd = "up"
           \/ proc'[p].pc = "aborted"
    BY <1>1, <1>3, GotoFields, FailPhaseFields
  <2>2. /\ \A x \in Execs \ {Exec(p)} : files'[x] = files[x]
        /\ f.dir = "full" => files'[Exec(p)] = f
    BY <1>1, <1>3 DEF FileState
  <2> QED BY <2>1, <2>2
<1>5. EntriesOK' /\ EndsByCleaning(p)
  BY <1>1, <1>2, <1>4, EntriesKept DEF EndsByCleaning, BringUp
<1>6. ASSUME Alone(Exec(p))
      PROVE  /\ SameStatus(Exec(p)) /\ (Live(p)' => Working(p)')
             /\ Dropping(p) => Settling(p)'
  <2>1. /\ Working(p) /\ Exec(p) = proc[p].exec /\ (Dropping(p) => Settling(p))
        /\ files'[Exec(p)] = f
    BY <1>1, <1>4, <1>6, LiveFacts DEF Working, Beginning
  <2>2. proc'[p].pc # "aborted" => Beginning(p)' /\ Writing(p)' /\ Listing(p)'
    BY <1>1, <1>2, <1>4, <2>1
    DEF Working, Beginning, Writing, Listing, Carried, BringUp, Early, Verdicts, Broken
  <2>3. proc'[p].pc # "aborted" => Standing(p)'
    BY <1>1, <1>2, <1>4, <2>1 DEF Working, Standing, Carried, BringUp
  <2>4. Live(p)' => proc'[p].pc # "aborted"
    BY DEF Live, Ended
  <2>5. Dropping(p) => Settling(p)'
    BY <1>1, <1>2, <1>4, <2>1 DEF Settling, Dropping, Carried
  <2> QED BY <1>1, <2>1, <2>2, <2>3, <2>4, <2>5 DEF Working, SameStatus
<1> QED
  BY <1>1, <1>4, <1>5, <1>6, QuietActs DEF Owes

LEMMA RecordActs ==
  ASSUME TypeInv, LifeInv, NEW p \in Procs, Record(p)
  PROVE  Acts(p)
<1>1. /\ Live(p) /\ proc[p].pc = "record" /\ proc[p].cmd = "run" /\ ~proc[p].dead
      /\ UNCHANGED <<files, host, last, crossed>>
      /\ suiteRuns' = suiteRuns \cup {<<Exec(p), proc[p].outcome>>}
      /\ proc[p].outcome \in Results
  BY DEF Record, SuiteEntry, At, Live, Ended, TypeInv, ProcOK, CommandOK
<1>2. /\ Carried(p) /\ ~proc'[p].dead /\ proc'[p].outcome = proc[p].outcome
      /\ proc'[p].teardown = proc[p].teardown
      /\ proc'[p].pc = IF proc[p].outcome \in Verdicts THEN "cleanTemp" ELSE "publish"
  BY <1>1, GotoFields DEF Record
<1>3. EntriesOK'
  <2>1. ASSUME NEW entry \in suiteRuns'
        PROVE  \E q \in Procs : proc'[q].exec = entry[1] /\ Entered(q, entry[2])'
    <3>1. CASE entry \in suiteRuns
      <4>1. PICK q \in Procs : proc[q].exec = entry[1] /\ Entered(q, entry[2])
        BY <3>1 DEF LifeInv, EntriesOK
      <4>2. q # p
        BY <1>1, <4>1 DEF Entered
      <4>3. proc'[q] = proc[q]
        BY <1>2, <4>2 DEF Carried
      <4> QED BY <4>1, <4>3 DEF Entered
    <3>2. CASE entry = <<Exec(p), proc[p].outcome>>
      <4>1. proc[p].suite /\ Exec(p) = proc[p].exec
        BY <1>1 DEF LifeInv, EntriesOK, Exec
      <4>2. entry[1] = Exec(p) /\ entry[2] = proc[p].outcome
        BY <3>2
      <4>3. Entered(p, entry[2])'
        BY <1>1, <1>2, <4>1, <4>2 DEF Entered, Carried, Results
      <4> QED BY <1>2, <4>1, <4>2, <4>3 DEF Carried
    <3> QED BY <1>1, <2>1, <3>1, <3>2
  <2>2. \A q \in Procs : (proc'[q].suite => ~proc'[q].keepUp)
                         /\ (proc'[q].pc = "record" => proc'[q].suite)
    BY <1>1, <1>2 DEF LifeInv, EntriesOK, Carried
  <2> QED BY <2>1, <2>2 DEF EntriesOK
<1>4. EndsByCleaning(p)
  BY <1>2 DEF EndsByCleaning
<1>5. ASSUME Alone(Exec(p))
      PROVE  /\ SameStatus(Exec(p)) /\ Working(p)'
             /\ Dropping(p) => Settling(p)'
  <2>1. Working(p) /\ Exec(p) = proc[p].exec /\ (Dropping(p) => Settling(p))
    BY <1>1, <1>5, LiveFacts
  <2>2. Beginning(p)' /\ Writing(p)' /\ Standing(p)'
    BY <1>1, <1>2, <2>1
    DEF Working, Beginning, Writing, Standing, Carried, BringUp, Early
  <2>3. Listing(p)'
    BY <1>1, <1>2, <2>1 DEF Working, Listing, Carried
  <2> QED BY <1>1, <1>2, <2>1, <2>2, <2>3 DEF Working, Settling, SameStatus, Carried
<1>6. Owes(p) => Owes(p)'
  BY <1>1, <1>2 DEF Owes, Carried, Broken, Verdicts
<1> QED
  BY <1>1, <1>2, <1>3, <1>4, <1>5, <1>6, QuietActs

LEMMA PublishActs ==
  ASSUME TypeInv, LifeInv, NEW p \in Procs, Publish(p)
  PROVE  Acts(p)
<1> DEFINE f == files[Exec(p)]
<1>1. /\ Live(p) /\ proc[p].pc = "publish" /\ ~proc[p].dead
      /\ proc[p].cmd \in BringUp \cup {"test", "evidence"}
      /\ UNCHANGED <<files, host, last, suiteRuns, crossed>>
  BY DEF Publish, At, Live, Ended, TypeInv, ProcOK, CommandOK
<1>2. /\ Carried(p) /\ ~proc'[p].dead /\ proc'[p].outcome = proc[p].outcome
      /\ proc'[p].teardown = proc[p].teardown
      /\ \/ /\ f.dir = "full" /\ f.run # "absent" /\ f.result # "absent"
            /\ proc'[p].pc = "envelope" /\ proc'[p].seen = f.result
            /\ proc'[p].seenReason = (f.error \/ f.result # "passed")
         \/ /\ ~(f.dir = "full" /\ f.run # "absent" /\ f.result # "absent")
            /\ proc'[p].pc = IF proc[p].outcome \in Verdicts THEN "aborted" ELSE AfterPublish(p)
  <2>1. CASE /\ f.dir = "full" /\ f.run # "absent" /\ f.result # "absent"
             /\ proc' = [proc EXCEPT ![p].pc = "envelope", ![p].seen = f.result,
                                    ![p].seenReason = f.error \/ f.result # "passed"]
    BY <1>1, <2>1 DEF Carried, TypeInv, TypeOK, ProcState
  <2>2. CASE /\ ~(f.dir = "full" /\ f.run # "absent" /\ f.result # "absent")
             /\ PublishThrows(p)
    BY <1>1, <2>2, GotoFields DEF PublishThrows
  <2> QED BY <2>1, <2>2 DEF Publish
<1>3. /\ proc[p].outcome \notin Verdicts =>
           AfterPublish(p) = IF proc[p].cmd \in {"test", "evidence"} THEN "done" ELSE "cleanTemp"
  BY DEF AfterPublish
<1>4. EntriesOK'
  BY <1>1, <1>2, <1>3, EntriesKept DEF Broken, Verdicts
<1>5. EndsByCleaning(p)
  BY <1>2, <1>3 DEF EndsByCleaning
<1>6. ASSUME Alone(Exec(p))
      PROVE  /\ SameStatus(Exec(p)) /\ (Live(p)' => Working(p)')
             /\ Dropping(p) => Settling(p)'
             /\ Owes(p) => Owes(p)'
  <2>1. /\ Working(p) /\ Exec(p) = proc[p].exec /\ (Dropping(p) => Settling(p))
        /\ f \in FileState
    BY <1>1, <1>6, LiveFacts
  <2>2. CASE proc'[p].pc = "envelope"
    <3>1. Beginning(p)'
      BY <1>1, <1>2, <2>1, <2>2 DEF Working, Beginning, Carried, Early
    <3>2. Writing(p)'
      <4>1. /\ proc'[p].seenReason = (f.error \/ f.result # "passed")
            /\ proc'[p].seen = f.result /\ proc'[p].exec = proc[p].exec
        BY <1>1, <1>2, <1>3, <2>2 DEF Carried
      <4>2. proc'[p].seenReason <=> (f.error \/ f.result # "passed")
        BY <4>1
      <4> QED BY <1>1, <1>2, <2>1, <2>2, <4>1, <4>2 DEF Working, Writing, Carried
    <3>3. Standing(p)' /\ Listing(p)'
      BY <1>1, <1>2, <2>1, <2>2 DEF Working, Standing, Listing, Carried
    <3> QED BY <1>1, <1>2, <2>1, <2>2, <3>1, <3>2, <3>3
            DEF Working, Settling, SameStatus, Carried, Owes
  <2>3. CASE proc'[p].pc # "envelope"
    <3>1. proc[p].cmd = "evidence"
      BY <1>1, <1>2, <2>1, <2>3
      DEF Working, Beginning, Writing, BringUp, Results, Verdicts, Broken
    <3>2. proc'[p].pc \in Ended
      BY <1>2, <1>3, <2>3, <3>1 DEF Ended
    <3> QED BY <1>1, <1>2, <3>1, <3>2 DEF Live, Dropping, SameStatus, Owes
  <2> QED BY <2>2, <2>3
<1> QED
  BY <1>1, <1>2, <1>4, <1>5, <1>6, QuietActs

LEMMA CleanTempActs ==
  ASSUME TypeInv, LifeInv, NEW p \in Procs, CleanTemp(p)
  PROVE  Acts(p)
<1>1. /\ Live(p) /\ proc[p].pc = "cleanTemp" /\ ~proc[p].dead
      /\ proc[p].cmd \in BringUp \cup {"down"}
      /\ UNCHANGED <<files, last, suiteRuns, crossed>>
      /\ host' = [host EXCEPT ![Exec(p)].temp = FALSE]
  BY DEF CleanTemp, At, Live, Ended, TypeInv, ProcOK, CommandOK
<1>2. \A x \in Execs : host'[x].stack = host[x].stack
  BY <1>1 DEF TypeInv, TypeOK, HostState
<1>3. /\ Carried(p) /\ ~proc'[p].dead /\ proc'[p].outcome = proc[p].outcome
      /\ proc'[p].pc = IF proc[p].cmd = "down" THEN "lifecycle" ELSE "done"
  BY <1>1, GotoFields DEF CleanTemp
<1>4. EntriesOK'
  BY <1>1, <1>3, EntriesKept
<1>5. EndsByCleaning(p)
  BY DEF EndsByCleaning
<1>6. ASSUME Alone(Exec(p))
      PROVE  /\ Owes(p) => Owes(p)'
             /\ SameStatus(Exec(p)) /\ (Live(p)' => Working(p)')
             /\ Dropping(p) => Settling(p)'
  <2>1. /\ Working(p) /\ Exec(p) = proc[p].exec /\ (Dropping(p) => Settling(p))
        /\ Exec(p) \in Execs
    BY <1>1, <1>6, LiveFacts
  <2>2. Live(p)' => proc[p].cmd = "down"
    BY <1>3 DEF Live, Ended
  <2>3. proc[p].cmd = "down" => Working(p)'
    BY <1>1, <1>2, <1>3, <2>1
    DEF Working, Beginning, Writing, Standing, Listing, Carried, BringUp, Early
  <2>4. Dropping(p) => Settling(p)'
    BY <1>1, <1>2, <1>3, <2>1
    DEF Working, Writing, Standing, Settling, Dropping, Carried, BringUp, Verdicts
  <2> QED BY <1>1, <2>2, <2>3, <2>4 DEF SameStatus, Owes
<1> QED
  BY <1>1, <1>2, <1>3, <1>4, <1>5, <1>6, QuietActs

-----------------------------------------------------------------------------
(* A docker call of a command.                                             *)
LEMMA NoOtherDrops ==
  ASSUME LifeInv, NEW p \in Procs, NEW q \in Procs, q # p, Live(p),
         proc[p].cmd \in BringUp \cup {"test"}, Dropping(q)
  PROVE  proc[q].exec # proc[p].exec
BY DEF LifeInv, OneBringUp, SettleOK, Dropping, BringUp

LEMMA DockerActs ==
  ASSUME TypeInv, LifeInv, NEW p \in Procs, Live(p), Carried(p), EntriesOK',
         crossed' = crossed, suiteRuns' = suiteRuns, last' = last,
         \A x \in Execs \ {Exec(p)} : host'[x].stack = host[x].stack,
         \A x \in Execs \ {Exec(p)} : files'[x] = files[x],
         EndsByCleaning(p),
         proc[p].pc # "writeResult" \/ proc'[p].pc = "writeResult",
         Alone(Exec(p)) =>
           /\ files' = files
           /\ (Owes(p) => Owes(p)') \/ files[Exec(p)].envelope = "absent"
           /\ Live(p)' => Working(p)'
           /\ Dropping(p) => Settling(p)'
           /\ \/ proc[p].cmd \in BringUp \cup {"test"}
              \/ host[Exec(p)].stack = "none" => host'[Exec(p)].stack = "none"
           /\ files[Exec(p)].run = "stopped" => host'[Exec(p)].stack = "none"
           /\ files[Exec(p)].run \in {"active", "open"} =>
                \/ host'[Exec(p)].stack \in {"up", host[Exec(p)].stack}
                \/ proc[p].cmd \in {"down", "test"}
  PROVE  Acts(p)
<1>1. Elsewhere(p)
  BY ElsewhereHolds
<1>2. ASSUME Alone(Exec(p))
      PROVE  /\ \A x \in Execs : x = Exec(p) => Resting(x)'
             /\ Settles(p) /\ StaysBroken(p) /\ OnlyPruned(p)
  <2>1. Resting(Exec(p)) /\ Exec(p) \in Execs /\ Exec(p) = proc[p].exec
    BY <1>2, LiveFacts
  <2>2. ASSUME NEW x \in Execs, x = Exec(p) PROVE Resting(x)'
    <3>1. ResultOK(x) /\ EnvelopeOK(x) /\ StackOK(x) /\ WholeOK(x) /\ files' = files
      BY <1>2, <2>1, <2>2 DEF Resting
    <3>2. HalfWritten(x) => HalfWritten(x)'
      BY <2>2, TracesKept
    <3>3. ResultOK(x)'
      BY <3>1, <3>2 DEF ResultOK
    <3>4. EnvelopeOK(x)'
      BY <1>2, <2>2, <3>1 DEF EnvelopeOK, Owed, Owes, Carried
    <3>5. StackOK(x)'
      BY <1>2, <2>1, <2>2, <3>1 DEF StackOK, Touched, Carried
    <3>6. WholeOK(x)'
      BY <3>1 DEF WholeOK
    <3> QED BY <3>3, <3>4, <3>5, <3>6 DEF Resting
  <2>3. ASSUME NEW q \in Procs, Dropping(q), proc[q].exec = Exec(p)
        PROVE  Settling(q)'
    <3>1. CASE q = p
      BY <1>2, <2>3, <3>1
    <3>2. CASE q # p
      <4>1. proc'[q] = proc[q] /\ Settling(q)
        BY <2>3, <3>2 DEF Carried, LifeInv, SettleOK
      <4>2. host[Exec(p)].stack = "none" => host'[Exec(p)].stack = "none"
        BY <1>2, <2>1, <2>3, <3>2, NoOtherDrops
      <4> QED BY <1>2, <2>1, <2>3, <4>1, <4>2 DEF Settling
    <3> QED BY <3>1, <3>2
  <2>4. StaysBroken(p) /\ OnlyPruned(p)
    BY <1>2 DEF StaysBroken, OnlyPruned, Broken, DownStates, Nonterminal, Verdicts
  <2> QED BY <2>2, <2>3, <2>4 DEF Settles
<1> QED BY <1>1, <1>2 DEF Acts

LEMMA BringUpActs ==
  ASSUME TypeInv, LifeInv, NEW p \in Procs, ComposeUp(p) \/ DevUp(p)
  PROVE  Acts(p)
<1>1. /\ Live(p) /\ proc[p].cmd \in BringUp /\ ~proc[p].dead
      /\ proc[p].pc \in {"up", "devUp"} /\ (proc[p].pc = "devUp" => proc[p].cmd = "open")
      /\ UNCHANGED <<files, last, suiteRuns, crossed>>
      /\ host \in [Execs -> HostState] /\ Exec(p) \in Execs
  BY DEF ComposeUp, DevUp, At, Live, Ended, TypeInv, TypeOK, ProcOK, CommandOK,
         BringUp, Exec
<1>2. /\ Carried(p) /\ ~proc'[p].dead
      /\ \A x \in Execs \ {Exec(p)} : host'[x].stack = host[x].stack
      /\ \/ /\ host'[Exec(p)].stack = "up"
            /\ proc'[p].outcome = proc[p].outcome
            /\ proc'[p].teardown = proc[p].teardown
            /\ proc'[p].pc = IF proc[p].pc = "up" THEN "images" ELSE "lifecycle"
         \/ /\ proc'[p].pc = "writeRun" /\ proc'[p].outcome = "infra-failed"
            /\ proc'[p].teardown # "failed"
            /\ ~proc[p].keepUp => proc'[p].teardown = "todo"
  <2>1. CASE host' = [host EXCEPT ![Exec(p)].stack = "up"]
             /\ Goto(p, IF proc[p].pc = "up" THEN "images" ELSE "lifecycle")
    BY <1>1, <2>1, GotoFields DEF HostState
  <2>2. CASE /\ StackBecomes(p, HalfUp)
             /\ FailPhase(p, IF proc[p].pc = "up" THEN ~proc[p].keepUp ELSE TRUE)
    BY <1>1, <2>2, StackFields, FailPhaseFields
  <2> QED BY <2>1, <2>2 DEF ComposeUp, DevUp, At
<1>3. EntriesOK' /\ EndsByCleaning(p)
  BY <1>1, <1>2, EntriesKept DEF EndsByCleaning
<1>4. ASSUME Alone(Exec(p))
      PROVE  /\ Working(p)'
             /\ Dropping(p) => Settling(p)'
             /\ files[Exec(p)].run \notin {"stopped", "active", "open"}
  <2>1. Working(p) /\ Exec(p) = proc[p].exec /\ (Dropping(p) => Settling(p))
    BY <1>1, <1>4, LiveFacts
  <2>2. files[Exec(p)].run \in {"absent", "prepared"}
    BY <1>1, <2>1 DEF Working, Beginning, Early
  <2>3. Beginning(p)' /\ Writing(p)' /\ Listing(p)'
    BY <1>1, <1>2, <2>1
    DEF Working, Beginning, Writing, Listing, Carried, BringUp, Early, Broken
  <2>4. Standing(p)'
    BY <1>1, <1>2, <2>1 DEF Working, Standing, Carried
  <2>5. Dropping(p) => Settling(p)'
    BY <1>1, <1>2, <2>1, <2>2 DEF Settling, Dropping, Carried, Verdicts
  <2> QED BY <2>2, <2>3, <2>4, <2>5 DEF Working
<1> QED
  BY <1>1, <1>2, <1>3, <1>4, DockerActs DEF Owes

LEMMA CypressActs ==
  ASSUME TypeInv, LifeInv, NEW p \in Procs, Cypress(p)
  PROVE  Acts(p)
<1>1. /\ Live(p) /\ proc[p].cmd \in {"run", "test"} /\ ~proc[p].dead
      /\ proc[p].pc = "cypress"
      /\ UNCHANGED <<last, suiteRuns, crossed>>
      /\ files \in [Execs -> FileState] /\ host \in [Execs -> HostState]
      /\ Exec(p) \in Execs
  BY DEF Cypress, At, Live, Ended, TypeInv, TypeOK, ProcOK, CommandOK, Exec
<1>2. PICK verdict \in Verdicts :
        /\ proc' = [proc EXCEPT
             ![p].outcome = verdict,
             ![p].pc = IF proc[p].cmd = "run" /\ ~proc[p].keepUp THEN "down"
                       ELSE "writeRun"]
        /\ \/ host' = [host EXCEPT ![Exec(p)].stack = "up"]
           \/ StackBecomes(p, HalfUp)
  BY DEF Cypress
<1>3. /\ Carried(p) /\ ~proc'[p].dead /\ proc'[p].outcome \in Verdicts
      /\ proc'[p].teardown = proc[p].teardown
      /\ proc'[p].pc = IF proc[p].cmd = "run" /\ ~proc[p].keepUp THEN "down"
                       ELSE "writeRun"
  BY <1>1, <1>2 DEF Carried, TypeInv, TypeOK, ProcState
<1>4. /\ \A x \in Execs \ {Exec(p)} : host'[x].stack = host[x].stack
      /\ \A x \in Execs \ {Exec(p)} : files'[x] = files[x]
      /\ files[Exec(p)].dir = "full" => files' = files
  BY <1>1, <1>2, StackFields DEF Cypress, HostState
<1>5. EntriesOK' /\ EndsByCleaning(p)
  BY <1>1, <1>3, EntriesKept DEF EndsByCleaning
<1>6. ASSUME Alone(Exec(p))
      PROVE  /\ files' = files /\ Working(p)'
             /\ Dropping(p) => Settling(p)'
             /\ files[Exec(p)].run # "stopped"
             /\ files[Exec(p)].run \in {"active", "open"} => proc[p].cmd = "test"
  <2>1. Working(p) /\ Exec(p) = proc[p].exec /\ (Dropping(p) => Settling(p))
    BY <1>1, <1>6, LiveFacts
  <2>2. /\ proc[p].cmd = "run" => files[Exec(p)].run \in {"absent", "prepared"}
        /\ proc[p].cmd = "test" => files[Exec(p)].run \in {"active", "open"} \cup Verdicts
        /\ files' = files
    BY <1>1, <1>4, <2>1 DEF Working, Beginning, Early, BringUp
  <2>3. Beginning(p)' /\ Writing(p)' /\ Listing(p)'
    BY <1>1, <1>3, <2>1, <2>2
    DEF Working, Beginning, Writing, Listing, Carried, BringUp, Early, Broken
  <2>4. Standing(p)'
    BY <1>1, <1>3, <2>1 DEF Working, Standing, Carried
  <2>5. Dropping(p) => Settling(p)'
    BY <1>1, <1>3, <2>1, <2>2 DEF Settling, Dropping, Carried, Verdicts
  <2> QED BY <1>1, <2>2, <2>3, <2>4, <2>5 DEF Working, Verdicts
<1> QED
  BY <1>1, <1>3, <1>4, <1>5, <1>6, DockerActs DEF Owes, BringUp

LEMMA RunDownActs ==
  ASSUME TypeInv, LifeInv, NEW p \in Procs, RunDown(p)
  PROVE  Acts(p)
<1>1. /\ Live(p) /\ proc[p].cmd = "run" /\ ~proc[p].dead
      /\ proc[p].pc = "down"
      /\ UNCHANGED <<files, last, suiteRuns, crossed>>
      /\ host \in [Execs -> HostState] /\ Exec(p) \in Execs
  BY DEF RunDown, At, Live, Ended, TypeInv, TypeOK, ProcOK, CommandOK, Exec
<1>2. /\ Carried(p) /\ ~proc'[p].dead /\ proc'[p].pc = "writeRun"
      /\ proc'[p].teardown = proc[p].teardown
      /\ \A x \in Execs \ {Exec(p)} : host'[x].stack = host[x].stack
      /\ host'[Exec(p)].stack = "none" \/ proc'[p].outcome = "cleanup-failed"
  <2>1. CASE host' = [host EXCEPT ![Exec(p)].stack = "none"] /\ Goto(p, "writeRun")
    BY <1>1, <2>1, GotoFields DEF HostState
  <2>2. CASE /\ StackBecomes(p, HalfDown(Exec(p)))
             /\ proc' = [proc EXCEPT ![p].pc = "writeRun",
                                     ![p].outcome = "cleanup-failed"]
    <3>1. /\ Carried(p) /\ ~proc'[p].dead /\ proc'[p].pc = "writeRun"
          /\ proc'[p].teardown = proc[p].teardown
          /\ proc'[p].outcome = "cleanup-failed"
      BY <1>1, <2>2 DEF Carried, TypeInv, TypeOK, ProcState
    <3> QED BY <1>1, <2>2, <3>1, StackFields
  <2> QED BY <2>1, <2>2 DEF RunDown
<1>3. EntriesOK' /\ EndsByCleaning(p)
  BY <1>1, <1>2, EntriesKept DEF EndsByCleaning
<1>4. ASSUME Alone(Exec(p))
      PROVE  /\ Working(p)'
             /\ Dropping(p) => Settling(p)'
             /\ files[Exec(p)].run \notin {"stopped", "active", "open"}
  <2>1. Working(p) /\ Exec(p) = proc[p].exec /\ (Dropping(p) => Settling(p))
    BY <1>1, <1>4, LiveFacts
  <2>2. files[Exec(p)].run \in {"absent", "prepared"} /\ proc[p].teardown # "failed"
    BY <1>1, <2>1 DEF Working, Beginning, Early, BringUp
  <2>3. Beginning(p)' /\ Writing(p)' /\ Listing(p)'
    BY <1>1, <1>2, <2>1, <2>2
    DEF Working, Beginning, Writing, Listing, Carried, BringUp, Early
  <2>4. Standing(p)'
    BY <1>1, <1>2, <2>1 DEF Working, Standing, Carried
  <2>5. Dropping(p) => Settling(p)'
    BY <1>1, <1>2, <2>1, <2>2 DEF Settling, Dropping, Carried, Verdicts
  <2> QED BY <2>2, <2>3, <2>4, <2>5 DEF Working
<1> QED
  BY <1>1, <1>2, <1>3, <1>4, DockerActs DEF Owes, BringUp

LEMMA DownActs ==
  ASSUME TypeInv, LifeInv, NEW p \in Procs, Down(p)
  PROVE  Acts(p)
<1>1. /\ Live(p) /\ proc[p].cmd = "down" /\ ~proc[p].dead
      /\ proc[p].pc = "down"
      /\ UNCHANGED <<files, last, suiteRuns, crossed>>
      /\ host \in [Execs -> HostState] /\ Exec(p) \in Execs
  BY DEF Down, At, Live, Ended, TypeInv, TypeOK, ProcOK, CommandOK, Exec
<1>2. /\ Carried(p) /\ ~proc'[p].dead /\ proc'[p].pc = "cleanTemp"
      /\ \A x \in Execs \ {Exec(p)} : host'[x].stack = host[x].stack
      /\ host'[Exec(p)].stack = "none" \/ proc'[p].outcome = "down-failed"
      /\ host[Exec(p)].stack = "none" => host'[Exec(p)].stack = "none"
  <2>1. CASE /\ host' = [host EXCEPT ![Exec(p)].stack = "none"]
             /\ proc' = [proc EXCEPT ![p].pc = "cleanTemp", ![p].outcome = "stopped"]
    BY <1>1, <2>1 DEF HostState, Carried, TypeInv, TypeOK, ProcState
  <2>2. CASE /\ StackBecomes(p, HalfDown(Exec(p)))
             /\ proc' = [proc EXCEPT ![p].pc = "cleanTemp",
                                     ![p].outcome = "down-failed"]
    <3>1. /\ Carried(p) /\ ~proc'[p].dead /\ proc'[p].pc = "cleanTemp"
          /\ proc'[p].outcome = "down-failed"
      BY <1>1, <2>2 DEF Carried, TypeInv, TypeOK, ProcState
    <3> QED BY <1>1, <2>2, <3>1, StackFields DEF HalfDown
  <2> QED BY <2>1, <2>2 DEF Down
<1>3. EntriesOK' /\ EndsByCleaning(p)
  BY <1>1, <1>2, EntriesKept DEF EndsByCleaning
<1>4. ASSUME Alone(Exec(p))
      PROVE  /\ Working(p)' /\ ~Dropping(p)
             /\ files[Exec(p)].run = "stopped" => host'[Exec(p)].stack = "none"
  <2>1. Working(p) /\ Resting(Exec(p)) /\ Exec(p) = proc[p].exec
    BY <1>1, <1>4, LiveFacts
  <2>2. Working(p)'
    BY <1>1, <1>2, <2>1
    DEF Working, Beginning, Writing, Standing, Listing, Carried, BringUp, Early
  <2> QED BY <1>1, <1>2, <2>1, <2>2 DEF Resting, StackOK, Dropping
<1> QED
  BY <1>1, <1>2, <1>3, <1>4, DockerActs DEF Owes

LEMMA TeardownActs ==
  ASSUME TypeInv, LifeInv, NEW p \in Procs, Teardown(p)
  PROVE  Acts(p)
<1>1. /\ Live(p) /\ proc[p].cmd \in BringUp /\ ~proc[p].dead
      /\ proc[p].pc = "teardown" /\ (proc[p].suite => proc[p].cmd = "run")
      /\ UNCHANGED <<files, last, suiteRuns, crossed>>
      /\ host \in [Execs -> HostState] /\ Exec(p) \in Execs
  BY DEF Teardown, At, Live, Ended, TypeInv, TypeOK, ProcOK, CommandOK, Exec
<1>2. /\ Carried(p) /\ ~proc'[p].dead
      /\ \A x \in Execs \ {Exec(p)} : host'[x].stack = host[x].stack
      /\ host[Exec(p)].stack = "none" => host'[Exec(p)].stack = "none"
      /\ \/ /\ host'[Exec(p)].stack = "none"
            /\ proc'[p].outcome = proc[p].outcome
            /\ proc'[p].teardown = proc[p].teardown
            /\ proc'[p].pc = IF proc[p].suite THEN "record" ELSE "publish"
         \/ /\ proc'[p].pc = "writeRun" /\ proc'[p].teardown = "failed"
            /\ proc'[p].outcome = "cleanup-failed"
  <2>1. CASE /\ host' = [host EXCEPT ![Exec(p)].stack = "none"]
             /\ Goto(p, IF proc[p].suite THEN "record" ELSE "publish")
    BY <1>1, <2>1, GotoFields DEF HostState
  <2>2. CASE /\ StackBecomes(p, HalfDown(Exec(p)))
             /\ proc' = [proc EXCEPT ![p].pc = "writeRun", ![p].teardown = "failed",
                                     ![p].outcome = "cleanup-failed"]
    <3>1. /\ Carried(p) /\ ~proc'[p].dead /\ proc'[p].pc = "writeRun"
          /\ proc'[p].teardown = "failed" /\ proc'[p].outcome = "cleanup-failed"
      BY <1>1, <2>2 DEF Carried, TypeInv, TypeOK, ProcState
    <3> QED BY <1>1, <2>2, <3>1, StackFields DEF HalfDown
  <2> QED BY <2>1, <2>2 DEF Teardown
<1>3. EntriesOK' /\ EndsByCleaning(p)
  BY <1>1, <1>2, EntriesKept DEF EndsByCleaning
<1>4. ASSUME Alone(Exec(p))
      PROVE  /\ Working(p)'
             /\ Dropping(p) => Settling(p)'
             /\ files[Exec(p)].envelope = "absent"
             /\ files[Exec(p)].run \notin {"stopped", "active", "open"}
  <2>1. Working(p) /\ Exec(p) = proc[p].exec /\ (Dropping(p) => Settling(p))
    BY <1>1, <1>4, LiveFacts
  <2>2. /\ files[Exec(p)].envelope = "absent" /\ proc[p].outcome \in Broken
        /\ proc[p].teardown = "todo"
        /\ files[Exec(p)].run = proc[p].outcome
        /\ files[Exec(p)].result = proc[p].outcome
    BY <1>1, <2>1 DEF Working, Beginning, Writing
  <2>3. Beginning(p)'
    BY <1>1, <1>2, <2>1, <2>2 DEF Working, Beginning, Carried, BringUp, Early, Broken
  <2>4. Writing(p)'
    BY <1>1, <1>2, <2>1, <2>2 DEF Working, Writing, Carried, Broken, Verdicts, Results
  <2>5. Standing(p)' /\ Listing(p)'
    BY <1>1, <1>2, <2>1, <2>2 DEF Working, Standing, Listing, Carried, BringUp
  <2>6. Dropping(p) => Settling(p)'
    BY <1>1, <1>2, <2>1, <2>2 DEF Settling, Dropping, Carried, Verdicts, Broken
  <2> QED BY <2>2, <2>3, <2>4, <2>5, <2>6 DEF Working, Broken
<1> QED
  BY <1>1, <1>2, <1>3, <1>4, DockerActs

LEMMA CrashActs ==
  ASSUME TypeInv, LifeInv, NEW p \in Procs, Crash(p)
  PROVE  Acts(p)
<1> DEFINE states == CASE proc[p].pc \in {"up", "devUp", "cypress"} -> HalfUp
                       [] proc[p].pc \in {"down", "teardown"} ->
                            HalfDown(Exec(p)) \cup {"none"}
                       [] OTHER -> {}
<1>1. /\ Live(p) /\ UNCHANGED <<files, last, suiteRuns, crossed>>
      /\ StackBecomes(p, states)
      /\ proc' = [proc EXCEPT ![p].dead = TRUE]
  BY DEF Crash
<1>2. /\ Carried(p) /\ proc'[p].dead /\ proc'[p].pc = proc[p].pc
      /\ proc'[p].outcome = proc[p].outcome
      /\ proc'[p].teardown = proc[p].teardown
  BY <1>1 DEF Carried, TypeInv, TypeOK, ProcState
<1>3. /\ proc[p].pc \notin {"up", "devUp", "cypress"} /\ host[Exec(p)].stack = "none" =>
           states \subseteq {"none"}
      /\ proc[p].pc \notin {"up", "devUp", "cypress", "down", "teardown"} => states = {}
  BY DEF HalfDown
<1> HIDE DEF states
<1>4. /\ \A x \in Execs \ {Exec(p)} : host'[x].stack = host[x].stack
      /\ proc[p].pc \notin {"up", "devUp", "cypress"} /\ host[Exec(p)].stack = "none" =>
           host'[Exec(p)].stack = "none"
      /\ proc[p].pc \notin {"up", "devUp", "cypress", "down", "teardown"} =>
           host'[Exec(p)].stack = host[Exec(p)].stack
  BY <1>1, <1>3, StackFields
<1>5. EntriesOK' /\ EndsByCleaning(p) /\ ~Live(p)'
  <2>1. proc[p].pc = "record" => proc[p].suite
    BY DEF LifeInv, EntriesOK
  <2> QED BY <1>1, <1>2, <2>1, EntriesKept DEF EndsByCleaning, Live, Ended
<1>6. ASSUME Alone(Exec(p))
      PROVE  /\ Owes(p) => Owes(p)'
             /\ Dropping(p) => Settling(p)'
             /\ \/ proc[p].cmd \in BringUp \cup {"test"}
                \/ host[Exec(p)].stack = "none" => host'[Exec(p)].stack = "none"
             /\ files[Exec(p)].run = "stopped" => host'[Exec(p)].stack = "none"
             /\ files[Exec(p)].run \in {"active", "open"} =>
                  \/ host'[Exec(p)].stack = host[Exec(p)].stack
                  \/ proc[p].cmd \in {"down", "test"}
  <2>1. /\ Working(p) /\ Resting(Exec(p)) /\ Exec(p) = proc[p].exec
        /\ Dropping(p) => Settling(p)
        /\ ProcOK(p) /\ proc[p].pc # "done"
    BY <1>1, <1>6, LiveFacts DEF Ended
  <2>2. proc[p].pc \in {"up", "devUp", "cypress"} =>
          \/ proc[p].cmd = "test" /\ files[Exec(p)].run \in {"active", "open"} \cup Verdicts
          \/ proc[p].cmd \in BringUp /\ files[Exec(p)].run \in {"absent", "prepared"}
    BY <2>1 DEF Working, Beginning, ProcOK, CommandOK, Early, BringUp
  <2>3. files[Exec(p)].run = "stopped" => host'[Exec(p)].stack = "none"
    BY <1>4, <2>1, <2>2 DEF Resting, StackOK, Verdicts
  <2>4. Dropping(p) => Settling(p)'
    BY <1>1, <1>2, <1>4, <2>1, <2>2 DEF Settling, Dropping, Carried, Verdicts
  <2>5. \/ proc[p].cmd \in BringUp \cup {"test"}
        \/ host[Exec(p)].stack = "none" => host'[Exec(p)].stack = "none"
    BY <1>4, <2>2
  <2>6. files[Exec(p)].run \in {"active", "open"} =>
          \/ host'[Exec(p)].stack = host[Exec(p)].stack
          \/ proc[p].cmd \in {"down", "test"}
    <3>1. CASE proc[p].pc \in {"up", "devUp", "cypress"}
      BY <2>2, <3>1
    <3>2. CASE proc[p].pc = "teardown"
      BY <2>1, <3>2 DEF Working, Writing, ProcOK, CommandOK, Results, Verdicts, Broken
    <3>3. CASE proc[p].pc = "down"
      BY <2>1, <3>3 DEF Working, Beginning, ProcOK, CommandOK, Early, BringUp
    <3> QED BY <1>4, <3>1, <3>2, <3>3
  <2> QED BY <1>2, <2>3, <2>4, <2>5, <2>6 DEF Owes, Carried
<1> QED
  BY <1>1, <1>2, <1>4, <1>5, <1>6, DockerActs

-----------------------------------------------------------------------------
(* A save of a command.                                                    *)
LEMMA SaveActs ==
  ASSUME TypeInv, LifeInv, NEW p \in Procs, Live(p), Carried(p), EntriesOK',
         crossed' = crossed, suiteRuns' = suiteRuns, last' = last,
         \A x \in Execs : host'[x].stack = host[x].stack,
         \A x \in Execs \ {Exec(p)} : files'[x] = files[x],
         EndsByCleaning(p), NEW f, f = files[Exec(p)], NEW g, g = files'[Exec(p)],
         Alone(Exec(p)) =>
           /\ g.dir = "full"
           /\ Live(p)' => Working(p)'
           /\ Dropping(p) => Settling(p)'
           /\ \/ g.result = "absent" /\ g.run \notin Results
              \/ g.run \in {g.result} \cup DownStates
              \/ proc'[p].pc = "writeResult"
              \/ g.run = f.run /\ g.result = f.result /\ proc[p].pc # "writeResult"
           /\ \/ g.envelope \in {"absent", g.result} \/ Owes(p)'
              \/ g.envelope = f.envelope /\ g.result = f.result /\ ~Owes(p)
           /\ g.run = "stopped" => host[Exec(p)].stack = "none"
           /\ g.run \in {"active", "open"} => g.run = f.run \/ host[Exec(p)].stack = "up"
           /\ \/ proc[p].cmd \in BringUp \cup {"test"}
              \/ g.run \in {f.run} \cup DownStates /\ g.result = f.result
           /\ f.run \in Broken \cup DownStates => g.run \notin Nonterminal \cup Verdicts
  PROVE  Acts(p)
<1>1. Elsewhere(p)
  BY ElsewhereHolds
<1>2. ASSUME Alone(Exec(p))
      PROVE  /\ \A x \in Execs : x = Exec(p) => Resting(x)'
             /\ Settles(p) /\ StaysBroken(p) /\ OnlyPruned(p)
  <2>1. /\ Resting(Exec(p)) /\ Exec(p) \in Execs /\ Exec(p) = proc[p].exec
        /\ f.dir = "full"
    BY <1>2, LiveFacts DEF Working, Beginning
  <2>2. ASSUME NEW x \in Execs, x = Exec(p) PROVE Resting(x)'
    <3>1. /\ ResultOK(x) /\ EnvelopeOK(x) /\ StackOK(x)
          /\ files[x] = f /\ files'[x] = g /\ host'[x].stack = host[x].stack
          /\ proc'[p].exec = x
      BY <1>2, <2>1, <2>2 DEF Resting, Carried
    <3>2. ResultOK(x)'
      <4>1. proc'[p].pc = "writeResult" => HalfWritten(x)'
        BY <3>1 DEF HalfWritten
      <4>2. proc[p].pc # "writeResult" => (HalfWritten(x) => HalfWritten(x)')
        BY <2>2, TracesKept
      <4> QED BY <1>2, <3>1, <4>1, <4>2 DEF ResultOK
    <3>3. EnvelopeOK(x)'
      <4>1. Owes(p)' => Owed(x)'
        BY <3>1 DEF Owed
      <4>2. ~Owes(p) => (Owed(x) => Owed(x)')
        BY <2>2, TracesKept
      <4> QED BY <1>2, <3>1, <4>1, <4>2 DEF EnvelopeOK
    <3>4. StackOK(x)'
      BY <1>2, <2>2, <3>1 DEF StackOK, Touched, Carried
    <3>5. WholeOK(x)'
      BY <1>2, <3>1 DEF WholeOK
    <3> QED BY <3>2, <3>3, <3>4, <3>5 DEF Resting
  <2>3. ASSUME NEW q \in Procs, Dropping(q), proc[q].exec = Exec(p)
        PROVE  Settling(q)'
    <3>1. CASE q = p
      BY <1>2, <2>3, <3>1
    <3>2. CASE q # p
      <4>1. proc'[q] = proc[q] /\ Settling(q)
        BY <2>3, <3>2 DEF Carried, LifeInv, SettleOK
      <4>2. g.run \in {f.run} \cup DownStates /\ g.result = f.result
        BY <1>2, <2>1, <2>3, <3>2, NoOtherDrops
      <4>3. /\ files[proc[q].exec] = f /\ files'[proc'[q].exec] = g
            /\ host'[proc'[q].exec].stack = host[proc[q].exec].stack
        BY <2>1, <2>3, <4>1
      <4> QED BY <1>2, <2>1, <2>3, <4>1, <4>2, <4>3 DEF Settling, DownStates, Verdicts
    <3> QED BY <3>1, <3>2
  <2>4. StaysBroken(p) /\ OnlyPruned(p)
    BY <1>2 DEF StaysBroken, OnlyPruned
  <2> QED BY <2>2, <2>3, <2>4 DEF Settles
<1> QED BY <1>1, <1>2 DEF Acts

LEMMA WritePreparedActs ==
  ASSUME TypeInv, LifeInv, NEW p \in Procs, WritePrepared(p)
  PROVE  Acts(p)
<1> DEFINE f == files[Exec(p)]
           g == files'[Exec(p)]
<1>1. /\ Live(p) /\ proc[p].pc = "prepare" /\ proc[p].cmd \in BringUp /\ ~proc[p].dead
      /\ UNCHANGED <<last, suiteRuns, crossed>>
      /\ SaveOrAbort(p, f.dir = "full", [f EXCEPT !.run = "prepared"], "mark")
      /\ host' = [host EXCEPT ![Exec(p)].temp = TRUE]
  BY DEF WritePrepared, At, Live, Ended, TypeInv, ProcOK, CommandOK
<1>2. \A x \in Execs : host'[x].stack = host[x].stack
  BY <1>1 DEF TypeInv, TypeOK, HostState
<1>3. /\ Carried(p) /\ proc'[p].pc \in {"mark", "aborted"} /\ ~proc'[p].dead
      /\ proc'[p].outcome = proc[p].outcome /\ proc'[p].teardown = proc[p].teardown
      /\ \A x \in Execs \ {Exec(p)} : files'[x] = files[x]
      /\ f.dir = "full" => proc'[p].pc = "mark" /\ g = [f EXCEPT !.run = "prepared"]
  BY <1>1, SaveFields
<1>4. EntriesOK' /\ EndsByCleaning(p)
  BY <1>1, <1>3, EntriesKept DEF EndsByCleaning
<1>5. ASSUME Alone(Exec(p))
      PROVE  /\ g.dir = "full" /\ g.run = "prepared" /\ g.result = "absent"
             /\ g.envelope = "absent" /\ f.run \notin Broken \cup DownStates
             /\ Working(p)'
             /\ Dropping(p) => Settling(p)'
  <2>1. /\ Working(p) /\ Exec(p) = proc[p].exec /\ f \in FileState
        /\ Dropping(p) => Settling(p)
    BY <1>1, <1>5, LiveFacts
  <2>2. /\ f.dir = "full" /\ f.run \in {"absent", "prepared"} /\ f.result = "absent"
        /\ f.envelope = "absent"
    BY <1>1, <2>1 DEF Working, Beginning, Early
  <2>3. /\ g.dir = "full" /\ g.run = "prepared" /\ g.result = "absent"
        /\ g.envelope = "absent" /\ proc'[p].pc = "mark"
    BY <1>3, <2>1, <2>2 DEF FileState
  <2>4. Working(p)'
    BY <1>1, <1>2, <1>3, <2>1, <2>3
    DEF Working, Beginning, Writing, Standing, Listing, Carried, BringUp, Early,
        Nonterminal
  <2>5. Dropping(p) => Settling(p)'
    BY <1>1, <1>2, <1>3, <2>1, <2>3 DEF Settling, Carried, Verdicts
  <2> QED BY <2>2, <2>3, <2>4, <2>5 DEF Broken, DownStates
<1> QED
  BY <1>1, <1>2, <1>3, <1>4, <1>5, SaveActs DEF Results, Verdicts, Broken

LEMMA LifecycleActs ==
  ASSUME TypeInv, LifeInv, NEW p \in Procs, Lifecycle(p)
  PROVE  Acts(p)
<1> DEFINE f == files[Exec(p)]
           g == files'[Exec(p)]
<1>1. /\ Live(p) /\ proc[p].pc = "lifecycle" /\ proc[p].cmd \in {"up", "open", "down"}
      /\ UNCHANGED <<host, last, suiteRuns, crossed>>
      /\ files \in [Execs -> FileState] /\ Exec(p) \in Execs
      /\ proc[p].cmd = "down" => proc[p].outcome \in DownStates
  BY DEF Lifecycle, At, Live, Ended, TypeInv, TypeOK, ProcOK, CommandOK, Exec
<1>2. /\ Carried(p) /\ proc'[p].pc = "done" /\ proc'[p].outcome = proc[p].outcome
      /\ proc'[p].dead = proc[p].dead
  BY GotoFields DEF Lifecycle
<1>3. /\ proc[p].cmd = "up" => LifecycleStatus(p) = "active"
      /\ proc[p].cmd = "open" => LifecycleStatus(p) = "open"
      /\ proc[p].cmd = "down" => LifecycleStatus(p) = proc[p].outcome
  BY DEF LifecycleStatus
<1>4. /\ \A x \in Execs \ {Exec(p)} : files'[x] = files[x]
      /\ g.dir = f.dir /\ g.result = f.result /\ g.envelope = f.envelope
      /\ g.run = IF f.run = "absent" THEN "absent" ELSE LifecycleStatus(p)
  BY <1>1 DEF Lifecycle, FileState
<1>5. EntriesOK' /\ EndsByCleaning(p) /\ ~Live(p)'
  BY <1>1, <1>2, EntriesKept DEF EndsByCleaning, Live, Ended
<1>6. ASSUME Alone(Exec(p))
      PROVE  /\ g.dir = "full" /\ ~Dropping(p) /\ ~Owes(p)
             /\ proc[p].cmd \in BringUp =>
                  /\ f.run \in {"absent", "prepared"} /\ f.result = "absent"
                  /\ host[Exec(p)].stack = "up"
             /\ proc[p].cmd = "down" /\ proc[p].outcome = "stopped" =>
                  host[Exec(p)].stack = "none"
  <2>1. Working(p) /\ Exec(p) = proc[p].exec
    BY <1>1, <1>6, LiveFacts
  <2> QED BY <1>1, <1>4, <2>1
          DEF Working, Beginning, Standing, Early, BringUp, Dropping, Owes, Live
<1>7. CASE proc[p].cmd \in BringUp
  <2>1. LifecycleStatus(p) \in {"active", "open"}
    BY <1>1, <1>3, <1>7 DEF BringUp
  <2> QED
    BY <1>1, <1>2, <1>4, <1>5, <1>6, <1>7, <2>1, SaveActs
    DEF Results, Verdicts, Broken, DownStates, Nonterminal
<1>8. CASE proc[p].cmd = "down"
  <2>1. LifecycleStatus(p) \in DownStates /\ LifecycleStatus(p) = proc[p].outcome
    BY <1>1, <1>3, <1>8
  <2> QED
    BY <1>1, <1>2, <1>4, <1>5, <1>6, <1>8, <2>1, SaveActs
    DEF Results, Verdicts, Broken, DownStates, Nonterminal
<1> QED BY <1>1, <1>7, <1>8 DEF BringUp

LEMMA WriteRunActs ==
  ASSUME TypeInv, LifeInv, NEW p \in Procs, WriteRun(p)
  PROVE  Acts(p)
<1> DEFINE f == files[Exec(p)]
           g == files'[Exec(p)]
           new == [f EXCEPT !.run = proc[p].outcome,
                            !.error = proc[p].outcome \in Broken]
<1>1. /\ Live(p) /\ proc[p].pc = "writeRun" /\ ~proc[p].dead
      /\ proc[p].cmd \in BringUp \cup {"test"} /\ proc[p].outcome \in Results
      /\ UNCHANGED <<host, last, suiteRuns, crossed>>
      /\ SaveOrAbort(p, f.dir # "none", new, "writeResult")
  BY DEF WriteRun, AfterRun, At, Live, Ended, TypeInv, ProcOK, CommandOK
<1>2. /\ Carried(p) /\ proc'[p].pc \in {"writeResult", "aborted"} /\ ~proc'[p].dead
      /\ proc'[p].outcome = proc[p].outcome /\ proc'[p].teardown = proc[p].teardown
      /\ \A x \in Execs \ {Exec(p)} : files'[x] = files[x]
      /\ f.dir # "none" => proc'[p].pc = "writeResult" /\ g = new
  BY <1>1, SaveFields
<1>3. EntriesOK' /\ EndsByCleaning(p)
  BY <1>1, <1>2, EntriesKept DEF EndsByCleaning
<1>4. ASSUME Alone(Exec(p))
      PROVE  /\ g.dir = "full" /\ g.run = proc[p].outcome /\ g.result = f.result
             /\ g.envelope = f.envelope /\ proc'[p].pc = "writeResult"
             /\ f.run \in Broken \cup DownStates => proc[p].outcome \in Broken
             /\ Working(p)'
             /\ Dropping(p) => Settling(p)'
  <2>1. /\ Working(p) /\ Exec(p) = proc[p].exec /\ f \in FileState
        /\ Dropping(p) => Settling(p)
    BY <1>1, <1>4, LiveFacts
  <2>2. /\ g.dir = "full" /\ g.run = proc[p].outcome /\ g.result = f.result
        /\ g.envelope = f.envelope /\ proc'[p].pc = "writeResult"
        /\ g.error <=> proc[p].outcome \in Broken
    BY <1>1, <1>2, <2>1 DEF Working, Beginning, FileState
  <2>3. f.run \in Broken \cup DownStates => proc[p].outcome \in Broken
    BY <1>1, <2>1 DEF Working, Beginning, Broken, DownStates, Verdicts, Early
  <2>4. Beginning(p)' /\ Writing(p)' /\ Standing(p)' /\ Listing(p)'
    BY <1>1, <1>2, <2>1, <2>2
    DEF Working, Beginning, Writing, Standing, Listing, Carried, BringUp, Early
  <2>5. Dropping(p) => Settling(p)'
    BY <1>1, <1>2, <2>1, <2>2
    DEF Working, Standing, Settling, Dropping, Carried, Results, Verdicts, Broken
  <2> QED BY <2>2, <2>3, <2>4, <2>5 DEF Working
<1>5. ~Owes(p)
  BY <1>1 DEF Owes
<1> QED
  BY <1>1, <1>2, <1>3, <1>4, <1>5, SaveActs
  DEF Results, Verdicts, Broken, DownStates, Nonterminal

LEMMA WriteResultActs ==
  ASSUME TypeInv, LifeInv, NEW p \in Procs, WriteResult(p)
  PROVE  Acts(p)
<1> DEFINE f == files[Exec(p)]
           g == files'[Exec(p)]
           new == [f EXCEPT !.result = proc[p].outcome]
<1>1. /\ Live(p) /\ proc[p].pc = "writeResult" /\ ~proc[p].dead
      /\ proc[p].cmd \in BringUp \cup {"test"} /\ proc[p].outcome \in Results
      /\ proc[p].suite => proc[p].cmd = "run"
      /\ UNCHANGED <<host, last, suiteRuns, crossed>>
      /\ SaveOrAbort(p, f.dir # "none", new, AfterResult(p))
  BY DEF WriteResult, At, Live, Ended, TypeInv, ProcOK, CommandOK
<1>2. AfterResult(p) = IF proc[p].teardown = "todo" THEN "teardown"
                       ELSE IF RecordsBroken(p) THEN "record" ELSE "publish"
  BY DEF AfterResult
<1>3. /\ Carried(p) /\ proc'[p].pc \in {AfterResult(p), "aborted"} /\ ~proc'[p].dead
      /\ proc'[p].outcome = proc[p].outcome /\ proc'[p].teardown = proc[p].teardown
      /\ \A x \in Execs \ {Exec(p)} : files'[x] = files[x]
      /\ f.dir # "none" => proc'[p].pc = AfterResult(p) /\ g = new
  BY <1>1, SaveFields
<1>4. EntriesOK' /\ EndsByCleaning(p)
  BY <1>1, <1>2, <1>3, EntriesKept DEF EndsByCleaning, RecordsBroken
<1>5. ASSUME Alone(Exec(p))
      PROVE  /\ g.dir = "full" /\ g.run = proc[p].outcome /\ g.result = proc[p].outcome
             /\ g.envelope = f.envelope /\ Owes(p)' /\ f.run = proc[p].outcome
             /\ Working(p)'
             /\ Dropping(p) => Settling(p)'
  <2>1. /\ Working(p) /\ Exec(p) = proc[p].exec /\ f \in FileState
        /\ Dropping(p) => Settling(p) /\ ProcOK(p)
    BY <1>1, <1>5, LiveFacts
  <2>2. /\ g.dir = "full" /\ g.run = proc[p].outcome /\ g.result = proc[p].outcome
        /\ g.envelope = f.envelope /\ proc'[p].pc = AfterResult(p)
        /\ g.error = f.error /\ f.run = proc[p].outcome
    BY <1>1, <1>3, <2>1 DEF Working, Beginning, Writing, FileState
  <2>3. Beginning(p)'
    BY <1>1, <1>2, <1>3, <2>1, <2>2
    DEF Working, Beginning, Carried, BringUp, Early
  <2>4. Writing(p)'
    BY <1>1, <1>2, <1>3, <2>1, <2>2
    DEF Working, Writing, Carried, RecordsBroken, Broken, Verdicts
  <2>5. Standing(p)'
    BY <1>1, <1>2, <1>3, <2>1, <2>2 DEF Working, Standing, Carried
  <2>6. Listing(p)'
    BY <1>1, <1>2, <1>3, <2>1, <2>2
    DEF Working, Listing, Carried, RecordsBroken, BringUp
  <2>7. Dropping(p) => Settling(p)'
    BY <1>1, <1>2, <1>3, <2>1, <2>2
    DEF Working, Standing, Settling, Dropping, Carried, Results, Verdicts, Broken
  <2>8. Owes(p)'
    BY <1>1, <1>2, <1>3, <2>2 DEF Owes, Carried, RecordsBroken, BringUp
  <2> QED BY <2>2, <2>3, <2>4, <2>5, <2>6, <2>7, <2>8 DEF Working
<1> QED
  BY <1>1, <1>2, <1>3, <1>4, <1>5, SaveActs
  DEF Results, Verdicts, Broken, DownStates, Nonterminal

LEMMA SaveEnvelopeActs ==
  ASSUME TypeInv, LifeInv, NEW p \in Procs, SaveEnvelope(p)
  PROVE  Acts(p)
<1> DEFINE f == files[Exec(p)]
           g == files'[Exec(p)]
<1>1. /\ Live(p) /\ proc[p].pc = "envelope" /\ ~proc[p].dead
      /\ proc[p].cmd \in BringUp \cup {"test", "evidence"}
      /\ proc[p].suite => proc[p].cmd = "run"
      /\ UNCHANGED <<host, last, suiteRuns, crossed>>
      /\ files \in [Execs -> FileState] /\ Exec(p) \in Execs
  BY DEF SaveEnvelope, At, Live, Ended, TypeInv, TypeOK, ProcOK, CommandOK, Exec
<1>2. AfterPublish(p) = IF proc[p].cmd \in {"test", "evidence"} THEN "done"
                        ELSE IF proc[p].suite /\ proc[p].outcome \in Verdicts
                        THEN "record" ELSE "cleanTemp"
  BY DEF AfterPublish
<1>3. /\ Carried(p) /\ ~proc'[p].dead
      /\ proc'[p].outcome = proc[p].outcome /\ proc'[p].teardown = proc[p].teardown
      /\ proc'[p].pc \in {"aborted", AfterPublish(p)}
      /\ proc'[p].pc = "aborted" => proc[p].outcome \in Verdicts
      /\ f.dir # "none" => proc'[p].pc = AfterPublish(p)
  BY <1>1, <1>2, GotoFields DEF SaveEnvelope, PublishThrows
<1>4. /\ \A x \in Execs \ {Exec(p)} : files'[x] = files[x]
      /\ f.dir # "none" =>
           /\ g.dir = f.dir /\ g.run = f.run /\ g.error = f.error
           /\ g.result = f.result /\ g.envelope = proc[p].seen
           /\ g.reason = proc[p].seenReason
  BY <1>1 DEF SaveEnvelope, FileState
<1>5. EntriesOK' /\ EndsByCleaning(p)
  BY <1>1, <1>2, <1>3, EntriesKept DEF EndsByCleaning, Verdicts, Broken
<1>6. ASSUME Alone(Exec(p))
      PROVE  /\ g.dir = "full" /\ g.run = f.run /\ g.result = f.result
             /\ g.envelope = f.result
             /\ g.run = "stopped" => host[Exec(p)].stack = "none"
             /\ Live(p)' => Working(p)'
             /\ Dropping(p) => Settling(p)'
  <2>1. /\ Working(p) /\ Exec(p) = proc[p].exec /\ Resting(Exec(p))
        /\ Dropping(p) => Settling(p)
    BY <1>1, <1>6, LiveFacts
  <2>2. /\ f.dir = "full" /\ g.dir = "full" /\ g.run = f.run /\ g.error = f.error
        /\ g.result = f.result /\ g.envelope = f.result
        /\ g.reason = proc[p].seenReason
        /\ proc[p].seenReason <=> f.error \/ f.result # "passed"
        /\ proc'[p].pc = AfterPublish(p)
    BY <1>1, <1>3, <1>4, <2>1 DEF Working, Beginning, Writing
  <2>3. ASSUME Live(p)' PROVE Working(p)'
    <3>1. proc[p].cmd \in BringUp
      BY <1>1, <1>2, <2>2, <2>3 DEF Live, Ended
    <3>2. Beginning(p)'
      BY <1>1, <1>2, <1>3, <2>1, <2>2, <3>1 DEF Working, Beginning, Carried, Early, BringUp
    <3>3. Writing(p)'
      <4>1. /\ f.run = proc[p].outcome /\ f.result = proc[p].outcome
            /\ proc[p].outcome \in Results /\ (f.error <=> proc[p].outcome \in Broken)
        BY <1>1, <2>1, <3>1 DEF Working, Writing
      <4>2. g.reason <=> g.result # "passed"
        BY <2>2, <4>1 DEF Broken
      <4>3. g.error <=> proc[p].outcome \in Broken
        BY <2>2, <4>1
      <4> QED BY <1>1, <1>2, <1>3, <2>1, <2>2, <3>1, <4>1, <4>2, <4>3 DEF Writing, Carried
    <3>4. Standing(p)'
      BY <1>1, <1>2, <1>3, <2>1, <2>2, <3>1 DEF Working, Standing, Carried, BringUp
    <3>5. Listing(p)'
      BY <1>1, <1>2, <1>3, <2>1, <2>2, <3>1
      DEF Working, Beginning, Writing, Listing, Carried, BringUp, Results, Verdicts, Broken
    <3> QED BY <3>2, <3>3, <3>4, <3>5 DEF Working
  <2>4. Dropping(p) => Settling(p)'
    BY <1>1, <1>2, <1>3, <2>1, <2>2 DEF Settling, Dropping, Carried
  <2>5. g.run = "stopped" => host[Exec(p)].stack = "none"
    BY <2>1, <2>2 DEF Resting, StackOK
  <2> QED BY <2>2, <2>3, <2>4, <2>5
<1> QED
  BY <1>1, <1>3, <1>4, <1>5, <1>6, SaveActs
  DEF Broken, DownStates, Nonterminal, Verdicts

LEMMA PruneDeleteActs ==
  ASSUME TypeInv, LifeInv, NEW p \in Procs, PruneDelete(p)
  PROVE  Acts(p)
<1>1. /\ Live(p) /\ proc[p].pc = "delete" /\ proc[p].cmd = "prune"
      /\ UNCHANGED <<host, last, suiteRuns, crossed>>
      /\ files' = [files EXCEPT ![Exec(p)] = NoFiles]
      /\ files \in [Execs -> FileState] /\ Exec(p) \in Execs
  BY DEF PruneDelete, At, Live, Ended, TypeInv, TypeOK, ProcOK, CommandOK, Exec
<1>2. Carried(p) /\ proc'[p].pc = "done"
  BY GotoFields DEF PruneDelete
<1>3. /\ \A x \in Execs \ {Exec(p)} : files'[x] = files[x]
      /\ files'[Exec(p)] = NoFiles
  BY <1>1
<1>4. Elsewhere(p)
  BY <1>1, <1>2, <1>3, ElsewhereHolds
<1>5. EntriesOK' /\ EndsByCleaning(p) /\ ~Live(p)'
  BY <1>1, <1>2, EntriesKept DEF EndsByCleaning, Live, Ended
<1>6. ASSUME NEW x \in Execs, x = Exec(p) PROVE Resting(x)'
  BY <1>3, <1>6
  DEF Resting, ResultOK, EnvelopeOK, StackOK, WholeOK, NoFiles, Results, Verdicts,
      Broken
<1>7. Settles(p)
  <2>1. ASSUME NEW q \in Procs, Dropping(q), proc[q].exec = Exec(p)
        PROVE  Settling(q)'
    <3>1. q # p
      BY <1>1, <2>1 DEF Dropping
    <3>2. proc'[q] = proc[q]
      BY <1>2, <3>1 DEF Carried
    <3> QED BY <1>3, <2>1, <3>2 DEF Settling, NoFiles, Verdicts
  <2> QED BY <2>1 DEF Settles
<1>8. StaysBroken(p) /\ OnlyPruned(p)
  BY <1>1, <1>3 DEF StaysBroken, OnlyPruned, NoFiles, Nonterminal, Verdicts
<1> QED BY <1>4, <1>5, <1>6, <1>7, <1>8 DEF Acts

LEMMA StepActs ==
  ASSUME TypeInv, LifeInv, NEW p \in Procs, Step(p) \/ Crash(p)
  PROVE  Acts(p)
BY WritePreparedActs, WriteMarkerActs, WriteComposeActs, ValidateActs, BringUpActs,
   EmitImagesActs, LifecycleActs, CypressActs, RunDownActs, DownActs, WriteRunActs,
   WriteResultActs, TeardownActs, RecordActs, PublishActs, SaveEnvelopeActs,
   CleanTempActs, PruneDeleteActs, CrashActs
DEF Step

-----------------------------------------------------------------------------
(* The commands that start. The process has left no traces before.         *)
LEMMA IdleFacts ==
  ASSUME TypeInv, NEW p \in Procs, proc[p].pc = "idle"
  PROVE  /\ proc[p].cmd = "none" /\ proc[p].exec = NoExec /\ ~Live(p)
         /\ \A x \in Execs : proc[p].exec # x
         /\ ~proc[p].suite
BY LifecycleAssumption
DEF LifecycleAssumption, TypeInv, ProcOK, CommandOK, Live, TypeOK, ProcState

LEMMA InitDirsLife ==
  ASSUME IInv, LifeInv, NEW p \in Procs, NEW e \in Execs, NEW cmd \in BringUp,
         NEW keepUp \in BOOLEAN, NEW suite \in BOOLEAN,
         InitDirs(p, e, cmd, keepUp, suite)
  PROVE  LifeInv'
<1> DEFINE r == [Idle EXCEPT !.cmd = cmd, !.exec = e, !.pc = "prepare",
                             !.keepUp = keepUp, !.suite = suite]
<1>1. /\ proc[p].pc = "idle" /\ (\A q \in Procs : proc[q].exec # e)
      /\ UNCHANGED <<host, last, suiteRuns, crossed>>
      /\ ~(keepUp /\ suite) /\ TypeInv /\ e # NoExec
      /\ proc' = [proc EXCEPT ![p] = r] /\ proc \in [Procs -> ProcState]
      /\ files' = [files EXCEPT ![e] = [NoFiles EXCEPT !.dir = "full"]]
      /\ files \in [Execs -> FileState]
  BY LifecycleAssumption DEF LifecycleAssumption, InitDirs, IInv, TypeInv, TypeOK
<1>2. /\ r.pc = "prepare" /\ r.cmd = cmd /\ r.exec = e /\ r.keepUp = keepUp
      /\ r.suite = suite /\ r.teardown = "no" /\ ~r.dead
  BY IdleOK DEF ProcState, Idle
<1> HIDE DEF r
<1>3. /\ proc'[p] = r /\ \A q \in Procs \ {p} : proc'[q] = proc[q]
      /\ \A x \in Execs \ {e} : files'[x] = files[x]
      /\ files'[e].dir = "full" /\ files'[e].run = "absent"
      /\ files'[e].result = "absent" /\ files'[e].envelope = "absent"
  BY <1>1 DEF NoFiles
<1>4. host[e].stack = "none"
  BY <1>1 DEF IInv, TeardownInv, FreshOK
<1>5. /\ proc[p].cmd = "none" /\ ~Live(p) /\ ~proc[p].suite
      /\ \A x \in Execs : proc[p].exec # x
  BY <1>1, IdleFacts
<1>6. \A q \in Procs \ {p} : /\ Live(q)' <=> Live(q)
                             /\ proc'[q].exec # e
                             /\ Live(q) => proc[q].exec \in Execs \ {e}
  BY <1>1, <1>3 DEF Live, TypeInv, ProcOK
<1>7. OneAtATime' /\ OneBringUp'
  BY <1>1, <1>2, <1>3, <1>6 DEF LifeInv, OneAtATime, OneBringUp, Alone
<1>8. WorkOK'
  <2>1. ASSUME NEW q \in Procs, Live(q)', Alone(proc[q].exec)' PROVE Working(q)'
    <3>1. CASE q = p
      <4>1. Beginning(q)' /\ Writing(q)'
        BY <1>2, <1>3, <3>1 DEF Beginning, Writing, BringUp, Early
      <4>2. Standing(q)' /\ Listing(q)'
        BY <1>1, <1>2, <1>3, <1>4, <3>1 DEF Standing, Listing, BringUp
      <4> QED BY <4>1, <4>2 DEF Working
    <3>2. CASE q # p
      <4>1. /\ Working(q) /\ proc'[q] = proc[q]
            /\ files'[proc[q].exec] = files[proc[q].exec]
        BY <1>1, <1>3, <1>6, <2>1, <3>2 DEF LifeInv, WorkOK, Alone
      <4> QED BY <1>1, <4>1 DEF Working, Beginning, Writing, Standing, Listing
    <3> QED BY <3>1, <3>2
  <2> QED BY <2>1 DEF WorkOK
<1>9. RestOK'
  <2>1. ASSUME NEW x \in Execs, Alone(x)' PROVE Resting(x)'
    <3>1. CASE x = e
      BY <1>3, <3>1
      DEF Resting, ResultOK, EnvelopeOK, StackOK, WholeOK, Results, Verdicts, Broken
    <3>2. CASE x # e
      <4>1. /\ ResultOK(x) /\ EnvelopeOK(x) /\ StackOK(x) /\ WholeOK(x)
            /\ files'[x] = files[x] /\ host'[x] = host[x]
            /\ \A q \in Procs : proc[q].exec = x => proc'[q] = proc[q]
        BY <1>1, <1>3, <1>5, <2>1, <3>2 DEF LifeInv, RestOK, Resting, Alone
      <4>2. ResultOK(x)'
        BY <4>1 DEF ResultOK, HalfWritten
      <4>3. EnvelopeOK(x)'
        BY <4>1 DEF EnvelopeOK, Owed, Owes
      <4>4. StackOK(x)' /\ WholeOK(x)'
        BY <4>1 DEF StackOK, WholeOK, Touched
      <4> QED BY <4>2, <4>3, <4>4 DEF Resting
    <3> QED BY <3>1, <3>2
  <2> QED BY <2>1 DEF RestOK
<1>10. SettleOK'
  <2>1. ASSUME NEW q \in Procs, Dropping(q)'
        PROVE  /\ Settling(q)'
               /\ \A z \in Procs : proc'[z].exec = proc'[q].exec /\ Live(z)' =>
                    proc'[z].cmd # "test"
    <3>1. CASE q = p
      BY <1>1, <1>2, <1>3, <1>4, <1>6, <3>1 DEF Settling, Verdicts, BringUp
    <3>2. CASE q # p
      <4>1. /\ Dropping(q) /\ proc'[q] = proc[q] /\ proc[q].exec \in Execs \ {e}
        BY <1>1, <1>3, <2>1, <3>2
        DEF Dropping, Alone, TypeInv, ProcOK, CommandOK
      <4>2. files'[proc[q].exec] = files[proc[q].exec]
        BY <1>3, <4>1
      <4>3. Settling(q)'
        BY <1>1, <4>1, <4>2 DEF LifeInv, SettleOK, Settling
      <4> QED BY <1>2, <1>3, <1>6, <4>1, <4>3 DEF LifeInv, SettleOK
    <3> QED BY <3>1, <3>2
  <2> QED BY <2>1 DEF SettleOK
<1>11. EntriesOK'
  <2>1. \A q \in Procs : \A s : Entered(q, s) => q # p /\ Entered(q, s)'
    BY <1>3, <1>5 DEF Entered
  <2>2. \A q \in Procs : (proc'[q].suite => ~proc'[q].keepUp)
                         /\ (proc'[q].pc = "record" => proc'[q].suite)
    BY <1>1, <1>2, <1>3 DEF LifeInv, EntriesOK
  <2>3. ASSUME NEW entry \in suiteRuns'
        PROVE  \E q \in Procs : proc'[q].exec = entry[1] /\ Entered(q, entry[2])'
    <3>1. PICK q \in Procs : proc[q].exec = entry[1] /\ Entered(q, entry[2])
      BY <1>1, <2>3 DEF LifeInv, EntriesOK
    <3> QED BY <1>3, <2>1, <3>1
  <2> QED BY <2>2, <2>3 DEF EntriesOK
<1> QED BY <1>7, <1>8, <1>9, <1>10, <1>11 DEF LifeInv

LEMMA StartLife ==
  ASSUME TypeInv, LifeInv, NEW p \in Procs, NEW cmd \in Commands \ BringUp,
         NEW e \in Execs, NEW pc \in {"down", "validateRunner", "delete", "publish"},
         Start(p, cmd, e, pc), pc = "publish" => cmd = "evidence",
         UNCHANGED <<files, host, last, suiteRuns>>,
         Alone(e) =>
           /\ files[e].dir = "full"
           /\ cmd = "test" =>
                /\ files[e].run \in {"active", "open"} \cup Verdicts
                /\ files[e].run \in Verdicts => host[e].stack # "none"
           /\ cmd = "prune" =>
                /\ files[e].run \notin Nonterminal
                /\ "all" \notin PruneScopes => e # last
  PROVE  LifeInv'
<1> DEFINE r == [Idle EXCEPT !.cmd = cmd, !.exec = e, !.pc = pc]
<1>1. /\ proc[p].pc = "idle"
      /\ proc' = [proc EXCEPT ![p] = r] /\ proc \in [Procs -> ProcState]
      /\ crossed' = IF LiveOn(e) = {} THEN crossed ELSE crossed \cup {e}
  BY DEF Start, TypeInv, TypeOK
<1>2. /\ r.pc = pc /\ r.cmd = cmd /\ r.exec = e /\ ~r.keepUp
      /\ ~r.suite /\ r.teardown = "no" /\ ~r.dead
  BY IdleOK DEF ProcState, Idle
<1> HIDE DEF r
<1>3. proc'[p] = r /\ \A q \in Procs \ {p} : proc'[q] = proc[q]
  BY <1>1
<1>4. /\ proc[p].cmd = "none" /\ ~Live(p) /\ ~proc[p].suite
      /\ \A x \in Execs : proc[p].exec # x
  BY <1>1, IdleFacts
<1>5. /\ \A x : Alone(x)' => Alone(x)
      /\ Alone(e)' => LiveOn(e) = {}
  BY <1>1 DEF Alone
<1>6. \A q \in Procs \ {p} : Live(q)' <=> Live(q)
  BY <1>3 DEF Live
<1>7. \A q \in Procs : Alone(e)' /\ Live(q)' /\ proc'[q].exec = e => q = p
  BY <1>3, <1>5, <1>6 DEF LiveOn
<1>8. OneAtATime'
  <2>1. ASSUME NEW q \in Procs, NEW z \in Procs, Live(q)', Live(z)',
               proc'[q].exec = proc'[z].exec, Alone(proc[q].exec)'
        PROVE  q = z
    <3>1. CASE proc'[q].exec = e
      BY <1>7, <2>1, <3>1
    <3>2. CASE proc'[q].exec # e
      BY <1>2, <1>3, <1>5, <1>6, <2>1, <3>2 DEF LifeInv, OneAtATime
    <3> QED BY <3>1, <3>2
  <2> QED BY <2>1 DEF OneAtATime
<1>9. OneBringUp'
  BY <1>2, <1>3 DEF LifeInv, OneBringUp
<1>10. WorkOK'
  <2>1. ASSUME NEW q \in Procs, Live(q)', Alone(proc[q].exec)' PROVE Working(q)'
    <3>1. CASE q = p
      <4>1. Alone(e)
        BY <1>2, <1>3, <1>5, <2>1, <3>1
      <4>2. Beginning(q)' /\ Writing(q)'
        BY <1>2, <1>3, <3>1, <4>1 DEF Beginning, Writing
      <4>3. Standing(q)' /\ Listing(q)'
        BY <1>2, <1>3, <3>1, <4>1 DEF Standing, Listing, BringUp
      <4> QED BY <4>2, <4>3 DEF Working
    <3>2. CASE q # p
      <4>1. Working(q) /\ proc'[q] = proc[q]
        BY <1>3, <1>5, <1>6, <2>1, <3>2 DEF LifeInv, WorkOK
      <4> QED BY <4>1 DEF Working, Beginning, Writing, Standing, Listing
    <3> QED BY <3>1, <3>2
  <2> QED BY <2>1 DEF WorkOK
<1>11. RestOK'
  <2>1. ASSUME NEW x \in Execs, Alone(x)' PROVE Resting(x)'
    <3>1. /\ ResultOK(x) /\ EnvelopeOK(x) /\ StackOK(x) /\ WholeOK(x)
          /\ \A q \in Procs : proc[q].exec = x => proc'[q] = proc[q]
      BY <1>3, <1>4, <1>5, <2>1 DEF LifeInv, RestOK, Resting
    <3>2. ResultOK(x)'
      BY <3>1 DEF ResultOK, HalfWritten
    <3>3. EnvelopeOK(x)'
      BY <3>1 DEF EnvelopeOK, Owed, Owes
    <3>4. StackOK(x)' /\ WholeOK(x)'
      BY <3>1 DEF StackOK, WholeOK, Touched
    <3> QED BY <3>2, <3>3, <3>4 DEF Resting
  <2> QED BY <2>1 DEF RestOK
<1>12. SettleOK'
  <2>1. ASSUME NEW q \in Procs, Dropping(q)'
        PROVE  /\ Settling(q)'
               /\ \A z \in Procs : proc'[z].exec = proc'[q].exec /\ Live(z)' =>
                    proc'[z].cmd # "test"
    <3>1. q # p /\ proc'[q] = proc[q] /\ Dropping(q)
      BY <1>2, <1>3, <1>5, <2>1 DEF Dropping, BringUp
    <3>2. Settling(q)
      BY <3>1 DEF LifeInv, SettleOK
    <3>3. ASSUME NEW z \in Procs, proc'[z].exec = proc'[q].exec, Live(z)'
          PROVE  proc'[z].cmd # "test"
      <4>1. CASE z = p
        <5>1. proc[q].exec = e /\ Alone(e)
          BY <1>2, <1>3, <3>1, <3>3, <4>1 DEF Dropping
        <5> QED BY <1>2, <1>3, <3>2, <4>1, <5>1 DEF Settling
      <4>2. CASE z # p
        BY <1>3, <1>6, <3>1, <3>3, <4>2 DEF LifeInv, SettleOK
      <4> QED BY <4>1, <4>2
    <3> QED BY <3>1, <3>2, <3>3 DEF Settling
  <2> QED BY <2>1 DEF SettleOK
<1>13. EntriesOK'
  <2>1. \A q \in Procs : \A s : Entered(q, s) => q # p /\ Entered(q, s)'
    BY <1>3, <1>4 DEF Entered
  <2>2. \A q \in Procs : (proc'[q].suite => ~proc'[q].keepUp)
                         /\ (proc'[q].pc = "record" => proc'[q].suite)
    BY <1>2, <1>3 DEF LifeInv, EntriesOK
  <2>3. ASSUME NEW entry \in suiteRuns'
        PROVE  \E q \in Procs : proc'[q].exec = entry[1] /\ Entered(q, entry[2])'
    <3>1. PICK q \in Procs : proc[q].exec = entry[1] /\ Entered(q, entry[2])
      BY <2>3 DEF LifeInv, EntriesOK
    <3> QED BY <1>3, <2>1, <3>1
  <2> QED BY <2>2, <2>3 DEF EntriesOK
<1> QED BY <1>8, <1>9, <1>10, <1>11, <1>12, <1>13 DEF LifeInv

LEMMA BeginLife ==
  ASSUME IInv, LifeInv, NEW p \in Procs, Begin(p)
  PROVE  LifeInv'
<1>1. PICK e \in Execs :
        \/ \E cmd \in BringUp, keepUp, suite \in BOOLEAN :
             InitDirs(p, e, cmd, keepUp, suite)
        \/ StartDown(p, e) \/ StartTest(p, e)
        \/ StartPrune(p, e) \/ StartEvidence(p, e)
  BY DEF Begin
<1>2. CASE \E cmd \in BringUp, keepUp, suite \in BOOLEAN :
             InitDirs(p, e, cmd, keepUp, suite)
  BY <1>2, InitDirsLife
<1>3. {"down", "test", "prune", "evidence"} \subseteq Commands \ BringUp
  BY DEF Commands, BringUp
<1>4. TypeInv
  BY DEF IInv
<1>5. ASSUME Alone(e), files[e].dir # "none" \/ files[e] # NoFiles
      PROVE  files[e].dir = "full"
  BY <1>5 DEF LifeInv, RestOK, Resting, WholeOK, NoFiles
<1>6. CASE StartDown(p, e)
  <2>1. files[e] # NoFiles
    BY <1>6 DEF StartDown, NoFiles
  <2> QED BY <1>3, <1>4, <1>5, <1>6, <2>1, StartLife DEF StartDown
<1>7. CASE StartTest(p, e)
  <2>1. /\ files[e] # NoFiles
        /\ files[e].run \in {"active", "open"} \cup Verdicts
        /\ files[e].run \in Verdicts => host[e].stack # "none"
    BY <1>7 DEF StartTest, Testable, PlatformRunning, NoFiles
  <2>2. Start(p, "test", e, "validateRunner") /\ UNCHANGED <<files, host, last, suiteRuns>>
    BY <1>7 DEF StartTest
  <2> QED BY <1>3, <1>4, <1>5, <2>1, <2>2, StartLife
<1>8. CASE StartPrune(p, e)
  <2>1. /\ files[e].dir # "none" /\ files[e].run \notin Nonterminal
        /\ Start(p, "prune", e, "delete") /\ UNCHANGED <<files, host, last, suiteRuns>>
        /\ "all" \in PruneScopes \/ \E x \in Execs \ {e} : MayBeLatest(x)
    BY <1>8 DEF StartPrune, PassesSafetyFilters
  <2>2. "all" \notin PruneScopes => e # last
    BY <2>1, LifecycleAssumption DEF MayBeLatest, LifecycleAssumption
  <2> QED BY <1>3, <1>4, <1>5, <2>1, <2>2, StartLife
<1>9. CASE StartEvidence(p, e)
  <2>1. files[e] # NoFiles
    BY <1>9 DEF StartEvidence, NoFiles
  <2>2. Start(p, "evidence", e, "publish") /\ UNCHANGED <<files, host, last, suiteRuns>>
    BY <1>9 DEF StartEvidence
  <2> QED BY <1>3, <1>4, <1>5, <2>1, <2>2, StartLife
<1> QED BY <1>1, <1>2, <1>6, <1>7, <1>8, <1>9

LEMMA LifeInit == Init => LifeInv
<1> SUFFICES ASSUME Init PROVE LifeInv
  OBVIOUS
<1>1. \A p \in Procs :
        /\ proc[p].pc = "idle" /\ proc[p].cmd = "none" /\ ~proc[p].suite
        /\ ~Live(p)
  BY DEF Init, Idle, Live
<1>2. \A e \in Execs : files[e] = NoFiles
  BY DEF Init
<1>3. RestOK
  BY <1>2
  DEF RestOK, Resting, ResultOK, EnvelopeOK, StackOK, WholeOK, NoFiles, Results,
      Verdicts, Broken
<1>4. OneAtATime /\ OneBringUp /\ WorkOK /\ SettleOK
  BY <1>1 DEF OneAtATime, OneBringUp, WorkOK, SettleOK, Dropping, BringUp
<1>5. EntriesOK
  BY <1>1 DEF EntriesOK, Init
<1> QED BY <1>3, <1>4, <1>5 DEF LifeInv

LEMMA LifeStutters ==
  ASSUME LifeInv, UNCHANGED vars
  PROVE  LifeInv'
<1>1. /\ files' = files /\ host' = host /\ last' = last /\ suiteRuns' = suiteRuns
      /\ proc' = proc /\ crossed' = crossed
  BY DEF vars
<1>2. OneAtATime' /\ OneBringUp' /\ EntriesOK'
  BY <1>1 DEF LifeInv, OneAtATime, OneBringUp, EntriesOK, Entered, Live, Alone
<1>3. WorkOK'
  BY <1>1 DEF LifeInv, WorkOK, Working, Beginning, Writing, Standing, Listing, Live, Alone
<1>4. RestOK'
  BY <1>1 DEF LifeInv, RestOK, Resting, ResultOK, EnvelopeOK, StackOK, WholeOK,
     HalfWritten, Owed, Owes, Touched, Alone
<1>5. SettleOK'
  BY <1>1 DEF LifeInv, SettleOK, Settling, Dropping, Live, Alone
<1> QED BY <1>2, <1>3, <1>4, <1>5 DEF LifeInv

FullInv == IInv /\ LifeInv

LEMMA FullInit == Init => FullInv
BY TypeInit, TeardownInit, LifeInit DEF FullInv, IInv

LEMMA FullStep == FullInv /\ [Next]_vars => FullInv'
<1> SUFFICES ASSUME FullInv, [Next]_vars PROVE FullInv'
  OBVIOUS
<1>1. IInv /\ LifeInv /\ TypeInv
  BY DEF FullInv, IInv
<1>2. IInv'
  BY <1>1, StepType, TeardownStep DEF IInv
<1>3. CASE UNCHANGED vars
  BY <1>1, <1>3, LifeStutters, <1>2 DEF FullInv
<1>4. ASSUME NEW p \in Procs, Begin(p) PROVE LifeInv'
  BY <1>1, <1>4, BeginLife
<1>5. ASSUME NEW p \in Procs, Step(p) \/ Crash(p) PROVE LifeInv'
  BY <1>1, <1>5, StepActs, ActsKeep
<1> QED BY <1>2, <1>3, <1>4, <1>5 DEF Next, FullInv

-----------------------------------------------------------------------------
(* The verdict of a run and its result agree, whatever commands have       *)
(* worked on it one after the other, unless one was cut off between its    *)
(* two saves (finalize.nu, metadata.nu).                                   *)
THEOREM ResultsAgree == Spec => []ResultAgreesWithRun
<1>1. FullInv => ResultAgreesWithRun
  BY DEF FullInv, LifeInv, RestOK, Resting, ResultOK, HalfWritten,
     ResultAgreesWithRun, Stuck
<1> QED BY <1>1, FullInit, FullStep, PTL DEF Spec

(* What the site is built from shows the latest result, or will, unless    *)
(* the command that wrote it was killed before it published (envelope.nu). *)
THEOREM EnvelopeStaysCurrent == Spec => []EnvelopeIsCurrent
<1>1. FullInv => EnvelopeIsCurrent
  BY DEF FullInv, LifeInv, RestOK, Resting, EnvelopeOK, Owed, Owes,
     EnvelopeIsCurrent, Stuck
<1> QED BY <1>1, FullInit, FullStep, PTL DEF Spec

(* `up run` without --keep-up never ends with its stack still there and no *)
(* record of it (up-run.nu).                                               *)
THEOREM NothingLeaksSilently == Spec => []NoSilentLeak
<1>1. FullInv => NoSilentLeak
  BY DEF FullInv, LifeInv, SettleOK, Settling, Dropping, NoSilentLeak
<1> QED BY <1>1, FullInit, FullStep, PTL DEF Spec

(* run.json says stopped only of a stack that is gone (down.nu).           *)
THEOREM WhatIsStoppedIsDown == Spec => []StoppedIsDown
<1>1. FullInv => StoppedIsDown
  BY DEF FullInv, LifeInv, RestOK, Resting, StackOK, StoppedIsDown
<1> QED BY <1>1, FullInit, FullStep, PTL DEF Spec

(* run.json says active or open only of a whole stack, until a             *)
(* `services down` or a `test cypress run` touches it (up.nu, up-open.nu). *)
THEOREM WhatIsActiveIsUp == Spec => []ActiveMeansUp
<1>1. FullInv => ActiveMeansUp
  BY DEF FullInv, LifeInv, RestOK, Resting, StackOK, Touched, ActiveMeansUp
<1> QED BY <1>1, FullInit, FullStep, PTL DEF Spec

(* An execution has one entry in the suite record, and it shows the result *)
(* that is on disk (index.nu, up-run.nu).                                  *)
THEOREM SuiteEntriesShowResults == Spec => []SuiteEntryIsTheResult
<1>1. ASSUME FullInv PROVE SuiteEntryIsTheResult
  <2>1. ASSUME NEW e \in Execs, NEW s \in Results, <<e, s>> \in suiteRuns
        PROVE  \E p \in Procs : proc[p].exec = e /\ Entered(p, s)
    <3>1. PICK p \in Procs : proc[p].exec = <<e, s>>[1] /\ Entered(p, <<e, s>>[2])
      BY <1>1, <2>1 DEF FullInv, LifeInv, EntriesOK
    <3> QED BY <3>1
  <2>2. ASSUME NEW e \in Execs, NEW s \in Results, NEW t \in Results,
               <<e, s>> \in suiteRuns
        PROVE  /\ <<e, t>> \in suiteRuns => t = s
               /\ Alone(e) => files[e].result \in {s, "absent"}
    <3>1. PICK p \in Procs : proc[p].exec = e /\ Entered(p, s)
      BY <2>1, <2>2
    <3>2. <<e, t>> \in suiteRuns => t = s
      <4>1. ASSUME <<e, t>> \in suiteRuns PROVE t = s
        <5>1. PICK q \in Procs : proc[q].exec = e /\ Entered(q, t)
          BY <2>1, <4>1
        <5>2. q = p
          BY <1>1, <3>1, <5>1 DEF FullInv, LifeInv, OneBringUp, Entered, BringUp
        <5> QED BY <3>1, <5>1, <5>2 DEF Entered
      <4> QED BY <4>1
    <3>3. Alone(e) => Dropping(p)
      BY <1>1, <3>1 DEF FullInv, LifeInv, EntriesOK, Entered, Dropping
    <3> QED BY <1>1, <3>1, <3>2, <3>3 DEF FullInv, LifeInv, SettleOK, Settling, Entered
  <2> QED BY <2>2 DEF SuiteEntryIsTheResult
<1> QED BY <1>1, FullInit, FullStep, PTL DEF Spec

(* A command that starts neither ends one nor takes away what is there.    *)
LEMMA BeginSpares ==
  ASSUME FullInv, NEW p \in Procs, Begin(p)
  PROVE  /\ \A q \in Procs : proc'[q].pc = "done" => proc[q].pc = "done"
         /\ \A e \in Execs : files'[e] = files[e]
                             \/ (files'[e].run = "absent" /\ files'[e].dir = "full")
<1>1. PICK e \in Execs :
        \/ \E cmd \in BringUp, keepUp, suite \in BOOLEAN :
             InitDirs(p, e, cmd, keepUp, suite)
        \/ StartDown(p, e) \/ StartTest(p, e)
        \/ StartPrune(p, e) \/ StartEvidence(p, e)
  BY DEF Begin
<1>2. proc \in [Procs -> ProcState] /\ files \in [Execs -> FileState]
  BY DEF FullInv, IInv, TypeInv, TypeOK
<1>3. CASE \E cmd \in BringUp, keepUp, suite \in BOOLEAN :
             InitDirs(p, e, cmd, keepUp, suite)
  BY <1>2, <1>3 DEF InitDirs, Idle, NoFiles
<1>4. CASE \/ StartDown(p, e) \/ StartTest(p, e)
           \/ StartPrune(p, e) \/ StartEvidence(p, e)
  BY <1>2, <1>4
  DEF StartDown, StartTest, StartPrune, StartEvidence, Start, Idle
<1> QED BY <1>1, <1>3, <1>4

(* What a broken or torn-down run says, no command on it takes back: it    *)
(* never counts as alive or tested again (cypress-run.nu, metadata.nu).    *)
THEOREM BrokenIsForGood == Spec => BrokenRunsStayBroken
<1>1. ASSUME FullInv, Next, NEW e \in Execs, e \notin crossed',
             files[e].run \in Broken \cup DownStates
      PROVE  files'[e].run \notin Nonterminal \cup Verdicts
  <2>1. CASE files'[e] = files[e]
    BY <1>1, <2>1 DEF Broken, DownStates, Nonterminal, Verdicts
  <2>2. ASSUME NEW p \in Procs, Begin(p), files'[e] # files[e]
        PROVE  files'[e].run \notin Nonterminal \cup Verdicts
    BY <1>1, <2>2, BeginSpares DEF Nonterminal, Verdicts
  <2>3. ASSUME NEW p \in Procs, Step(p) \/ Crash(p), files'[e] # files[e]
        PROVE  files'[e].run \notin Nonterminal \cup Verdicts
    <3>1. Acts(p)
      BY <1>1, <2>3, StepActs DEF FullInv, IInv
    <3>2. e = Exec(p) /\ Alone(e)
      BY <1>1, <2>3, <3>1 DEF Acts, Elsewhere, Alone
    <3> QED BY <1>1, <3>1, <3>2 DEF Acts, StaysBroken
  <2> QED BY <1>1, <2>1, <2>2, <2>3 DEF Next
<1>2. FullInv /\ [Next]_vars =>
        [\A e \in Execs :
           /\ e \notin crossed' /\ files[e].run \in Broken \cup DownStates
           => files'[e].run \notin Nonterminal \cup Verdicts]_vars
  BY <1>1
<1> QED BY <1>2, FullInit, FullStep, PTL DEF Spec, BrokenRunsStayBroken

(* `artifacts prune` with its default scope deletes neither the run the    *)
(* next command takes as the latest nor one that is set up or in use,      *)
(* when no other command works on what it selects (prune.nu).              *)
THEOREM PruneSpares == Spec => PruneSparesRunsInUse
<1>1. ASSUME FullInv, Next, NEW e \in Execs, e \notin crossed', "all" \notin PruneScopes,
             files[e].dir # "none", files'[e].dir = "none"
      PROVE  e # last /\ files[e].run \notin Nonterminal
  <2>1. ASSUME NEW p \in Procs, Begin(p) PROVE FALSE
    BY <1>1, <2>1, BeginSpares
  <2>2. ASSUME NEW p \in Procs, Step(p) \/ Crash(p)
        PROVE  e # last /\ files[e].run \notin Nonterminal
    <3>1. Acts(p)
      BY <1>1, <2>2, StepActs DEF FullInv, IInv
    <3>2. e = Exec(p) /\ Alone(e) /\ Live(p)
      BY <1>1, <3>1 DEF Acts, Elsewhere, Alone
    <3>3. Working(p) /\ Exec(p) = proc[p].exec
      BY <1>1, <3>2, LiveFacts DEF FullInv, IInv
    <3>4. proc[p].cmd = "prune"
      BY <1>1, <3>1, <3>2, <3>3 DEF Acts, OnlyPruned, Working, Beginning
    <3> QED BY <1>1, <3>2, <3>3, <3>4 DEF Working, Listing
  <2> QED BY <1>1, <2>1, <2>2 DEF Next
<1>2. FullInv /\ [Next]_vars =>
        [\A e \in Execs :
           /\ e \notin crossed' /\ "all" \notin PruneScopes
           /\ files[e].dir # "none" /\ files'[e].dir = "none"
           => e # last /\ files[e].run \notin Nonterminal]_vars
  BY <1>1
<1> QED BY <1>2, FullInit, FullStep, PTL DEF Spec, PruneSparesRunsInUse

(* When `up run` ends, run.json, the result, the envelope and the suite    *)
(* record show the same outcome, the envelope explains it unless it is     *)
(* passed, and the temporary directory is gone (up-run.nu, infra-fail.nu,  *)
(* lifecycle.nu).                                                          *)
THEOREM RunsEndConsistent == Spec => RunEndsConsistent
<1> DEFINE EndsWell(p) ==
             LET e == proc[p].exec
                 f == files'[e]
             IN  /\ proc[p].cmd = "run" /\ proc[p].pc # "done" /\ proc'[p].pc = "done"
                 /\ e \notin crossed'
                 => /\ f.run = f.result /\ f.run = f.envelope
                    /\ f.run = proc[p].outcome
                    /\ proc[p].suite /\ proc[p].teardown # "failed" =>
                         <<e, f.run>> \in suiteRuns'
                    /\ f.reason <=> f.run # "passed"
                    /\ ~host'[e].temp
<1>1. ASSUME FullInv, Next, NEW p \in Procs, proc[p].cmd = "run",
             proc[p].pc # "done", proc'[p].pc = "done", proc[p].exec \notin crossed'
      PROVE  EndsWell(p)
  <2>1. PICK q \in Procs : Begin(q) \/ Step(q) \/ Crash(q)
    BY <1>1 DEF Next
  <2>2. ~Begin(q)
    BY <1>1, BeginSpares
  <2>3. Acts(q)
    BY <1>1, <2>1, <2>2, StepActs DEF FullInv, IInv
  <2>4. q = p
    BY <1>1, <2>3 DEF Acts, Elsewhere
  <2>5. CleanTemp(p) /\ Live(p) /\ Alone(proc[p].exec)
    BY <1>1, <2>3, <2>4 DEF Acts, Elsewhere, EndsByCleaning, Alone
  <2>6. /\ Working(p) /\ proc[p].pc = "cleanTemp" /\ Exec(p) = proc[p].exec
        /\ proc[p].exec \in Execs /\ files' = files /\ suiteRuns' = suiteRuns
        /\ host \in [Execs -> HostState]
        /\ host' = [host EXCEPT ![Exec(p)].temp = FALSE]
    BY <1>1, <2>5, LiveFacts
    DEF CleanTemp, At, FullInv, IInv, TypeInv, TypeOK, Exec
  <2>7. ~host'[proc[p].exec].temp
    BY <2>6 DEF HostState
  <2>8. /\ files[proc[p].exec].run = proc[p].outcome
        /\ files[proc[p].exec].result = proc[p].outcome
        /\ files[proc[p].exec].envelope = files[proc[p].exec].result
        /\ files[proc[p].exec].reason <=> files[proc[p].exec].result # "passed"
    BY <1>1, <2>6 DEF Working, Writing, BringUp
  <2>9. proc[p].suite /\ proc[p].teardown # "failed" =>
          <<proc[p].exec, proc[p].outcome>> \in suiteRuns
    BY <1>1, <2>6 DEF Working, Listing
  <2> QED BY <2>6, <2>7, <2>8, <2>9
<1>2. ASSUME FullInv, Next PROVE \A p \in Procs : EndsWell(p)
  BY <1>1, <1>2
<1>3. FullInv /\ [Next]_vars => [\A p \in Procs : EndsWell(p)]_vars
  BY <1>2
<1> QED BY <1>3, FullInit, FullStep, PTL DEF Spec, RunEndsConsistent

-----------------------------------------------------------------------------
(* The findings about these commands, for any number of executions and     *)
(* commands. A suite run is without an entry exactly if the teardown of a  *)
(* failed phase failed as well.                                            *)
Closing == {"writeRun", "writeResult", "publish", "envelope", "cleanTemp"} \cup Ended

RecordedOK(p) ==
  LET r == proc[p]
  IN  r.suite =>
        /\ r.pc \in {"publish", "envelope"} => r.outcome \in Results
        /\ r.teardown = "failed" =>
             /\ r.pc \in Closing /\ r.outcome \in Broken
             /\ \A s \in Results : <<r.exec, s>> \notin suiteRuns
        /\ /\ r.teardown # "failed"
           /\ \/ r.pc \in {"cleanTemp", "done"}
              \/ r.pc \in {"publish", "envelope"} /\ r.outcome \in Broken
           => r.outcome \in Results /\ <<r.exec, r.outcome>> \in suiteRuns

(* A step of a command other than Record, by what it does to the command.  *)
LEMMA RecordedStays ==
  ASSUME NEW p \in Procs, RecordedOK(p), suiteRuns' = suiteRuns,
         proc'[p].exec = proc[p].exec, proc'[p].suite = proc[p].suite,
         proc[p].suite =>
           \/ /\ proc[p].pc \notin Closing
              /\ proc'[p].pc \notin {"cleanTemp", "done", "publish", "envelope"}
              /\ proc'[p].teardown # "failed"
           \/ /\ proc[p].pc \in {"writeRun", "writeResult"} /\ proc[p].outcome \in Results
              /\ proc'[p].outcome = proc[p].outcome
              /\ proc'[p].teardown = proc[p].teardown
              /\ proc[p].teardown = "failed" => proc'[p].pc \in Closing
              /\ proc[p].teardown # "failed" =>
                   \/ proc'[p].pc \in {"writeResult", "teardown", "record", "aborted"}
                   \/ proc'[p].pc = "publish" /\ proc[p].outcome \notin Broken
           \/ /\ proc[p].pc \in {"publish", "envelope", "cleanTemp"}
              /\ proc'[p].outcome = proc[p].outcome
              /\ proc'[p].teardown = proc[p].teardown
              /\ proc[p].outcome \in Broken => proc'[p].pc \in Closing
              /\ (proc[p].outcome \notin Broken /\ proc[p].pc # "cleanTemp") =>
                   proc'[p].pc \notin {"cleanTemp", "done"}
              /\ proc[p].pc = "cleanTemp" => proc'[p].pc = "done"
  PROVE  RecordedOK(p)'
BY DEF RecordedOK, Closing, Ended

(* Before the report, a command of a suite run has no teardown behind it.  *)
LEMMA EarlyRecorded ==
  ASSUME TypeInv, NEW p \in Procs, RecordedOK(p),
         \/ WritePrepared(p) \/ WriteMarker(p) \/ WriteCompose(p) \/ ValidateBase(p)
         \/ ValidateRunner(p) \/ ComposeUp(p) \/ EmitImages(p) \/ ValidateDev(p)
         \/ DevUp(p) \/ Cypress(p) \/ RunDown(p)
  PROVE  RecordedOK(p)'
<1>1. proc \in [Procs -> ProcState] /\ ProcOK(p)
  BY DEF TypeInv, TypeOK
<1>2. /\ suiteRuns' = suiteRuns
      /\ proc[p].pc \notin Closing
  BY DEF WritePrepared, WriteMarker, WriteCompose, ValidateBase, ValidateRunner,
     ComposeUp, EmitImages, ValidateDev, DevUp, Cypress, RunDown, At, Closing, Ended
<1>3. proc[p].suite => proc[p].teardown # "failed"
  BY <1>2 DEF RecordedOK
<1>4. ASSUME NEW w, Goto(p, w)
      PROVE  /\ proc'[p].exec = proc[p].exec /\ proc'[p].suite = proc[p].suite
             /\ proc'[p].pc = w /\ proc'[p].teardown = proc[p].teardown
  BY <1>4, GotoFields DEF Carried
<1>5. ASSUME NEW t, FailPhase(p, t)
      PROVE  /\ proc'[p].exec = proc[p].exec /\ proc'[p].suite = proc[p].suite
             /\ proc'[p].pc = "writeRun" /\ proc'[p].teardown # "failed"
  BY <1>5, FailPhaseFields DEF Carried
<1>6. ASSUME NEW w, NEW possible, NEW new, SaveOrAbort(p, possible, new, w)
      PROVE  Goto(p, w) \/ Goto(p, "aborted")
  BY <1>6 DEF SaveOrAbort
<1>7. \/ \E w \in {"mark", "compose", "validate", "up", "images", "validateRunner",
                   "runCompose", "cypress", "dev", "devCompose", "devUp", "lifecycle",
                   "writeRun", "aborted"} : Goto(p, w)
      \/ \E t : FailPhase(p, t)
      \/ /\ proc'[p].exec = proc[p].exec /\ proc'[p].suite = proc[p].suite
         /\ proc'[p].pc \in {"down", "writeRun"} /\ proc'[p].teardown = proc[p].teardown
  <2>1. CASE WritePrepared(p)
    BY <1>6, <2>1 DEF WritePrepared
  <2>2. CASE WriteMarker(p)
    BY <2>2 DEF WriteMarker, AfterMark
  <2>3. CASE WriteCompose(p)
    BY <1>6, <2>3 DEF WriteCompose
  <2>4. CASE ValidateBase(p) \/ ValidateRunner(p) \/ ComposeUp(p) \/ ValidateDev(p) \/ DevUp(p)
    BY <2>4 DEF ValidateBase, ValidateRunner, ComposeUp, ValidateDev, DevUp
  <2>5. CASE EmitImages(p)
    <3>1. proc[p].cmd \in BringUp
      BY <1>1, <2>5 DEF EmitImages, At, ProcOK, CommandOK
    <3>2. QED
      BY <2>5, <3>1 DEF EmitImages, BringUp
  <2>6. CASE Cypress(p)
    <3>1. PICK verdict \in Verdicts :
            proc' = [proc EXCEPT
              ![p].outcome = verdict,
              ![p].pc = IF proc[p].cmd = "run" /\ ~proc[p].keepUp THEN "down"
                        ELSE "writeRun"]
      BY <2>6 DEF Cypress
    <3>2. QED
      BY <1>1, <3>1 DEF ProcState
  <2>7. CASE RunDown(p)
    BY <1>1, <2>7 DEF RunDown, ProcState
  <2>8. QED
    BY <2>1, <2>2, <2>3, <2>4, <2>5, <2>6, <2>7
<1>8. /\ proc'[p].exec = proc[p].exec /\ proc'[p].suite = proc[p].suite
      /\ proc'[p].pc \notin {"cleanTemp", "done", "publish", "envelope"}
      /\ proc[p].suite => proc'[p].teardown # "failed"
  BY <1>3, <1>4, <1>5, <1>7
<1>9. QED
  BY <1>2, <1>8, RecordedStays

(* The commands that no suite runs.                                        *)
LEMMA OthersRecorded ==
  ASSUME TypeInv, NEW p \in Procs, RecordedOK(p),
         Lifecycle(p) \/ Down(p) \/ PruneDelete(p)
  PROVE  RecordedOK(p)'
<1>1. proc \in [Procs -> ProcState] /\ ProcOK(p)
  BY DEF TypeInv, TypeOK
<1>2. ~proc[p].suite
  BY <1>1 DEF ProcOK, CommandOK, Lifecycle, Down, PruneDelete, At
<1>3. proc'[p].suite = proc[p].suite
  BY <1>1 DEF Lifecycle, Down, PruneDelete, Goto, ProcState
<1>4. QED
  BY <1>2, <1>3 DEF RecordedOK

(* The report of a run that broke goes through the suite record, unless    *)
(* its teardown has failed.                                                *)
LEMMA ReportRecorded ==
  ASSUME TypeInv, NEW p \in Procs, RecordedOK(p),
         \/ WriteRun(p) \/ WriteResult(p) \/ Publish(p) \/ SaveEnvelope(p)
         \/ CleanTemp(p)
  PROVE  RecordedOK(p)'
<1>1. proc \in [Procs -> ProcState] /\ ProcOK(p) /\ suiteRuns' = suiteRuns
  BY DEF TypeInv, TypeOK, WriteRun, WriteResult, Publish, SaveEnvelope, CleanTemp
<1>2. proc[p].suite => proc[p].cmd = "run"
  BY <1>1 DEF ProcOK
<1>3. ASSUME NEW w, Goto(p, w)
      PROVE  /\ proc'[p].exec = proc[p].exec /\ proc'[p].suite = proc[p].suite
             /\ proc'[p].pc = w /\ proc'[p].teardown = proc[p].teardown
             /\ proc'[p].outcome = proc[p].outcome
  BY <1>3, GotoFields DEF Carried
<1>4. ASSUME NEW w, NEW possible, NEW new, SaveOrAbort(p, possible, new, w)
      PROVE  Goto(p, w) \/ Goto(p, "aborted")
  BY <1>4 DEF SaveOrAbort
<1>5. CASE WriteRun(p)
  <2>1. proc[p].pc = "writeRun" /\ (Goto(p, "writeResult") \/ Goto(p, "aborted"))
    BY <1>4, <1>5 DEF WriteRun, At, AfterRun
  <2>2. proc[p].outcome \in Results
    BY <1>1, <2>1 DEF ProcOK
  <2>3. QED
    BY <1>1, <1>3, <2>1, <2>2, RecordedStays DEF Closing, Ended
<1>6. CASE WriteResult(p)
  <2>1. proc[p].pc = "writeResult" /\ (Goto(p, AfterResult(p)) \/ Goto(p, "aborted"))
    BY <1>4, <1>6 DEF WriteResult, At
  <2>2. /\ proc[p].teardown = "failed" => AfterResult(p) = "publish"
        /\ (proc[p].suite /\ proc[p].teardown # "failed") =>
             \/ AfterResult(p) \in {"teardown", "record"}
             \/ AfterResult(p) = "publish" /\ proc[p].outcome \notin Broken
    BY DEF AfterResult, RecordsBroken
  <2>3. proc[p].outcome \in Results
    BY <1>1, <2>1 DEF ProcOK
  <2>4. QED
    BY <1>1, <1>3, <2>1, <2>2, <2>3, RecordedStays DEF Closing, Ended
<1>7. ASSUME proc[p].suite, proc[p].pc \in {"publish", "envelope"}
      PROVE  /\ AfterPublish(p) = IF proc[p].outcome \in Verdicts THEN "record" ELSE "cleanTemp"
             /\ PublishThrows(p) => \/ Goto(p, "aborted") /\ proc[p].outcome \in Verdicts
                                    \/ Goto(p, "cleanTemp") /\ proc[p].outcome \notin Verdicts
  BY <1>2, <1>7 DEF AfterPublish, PublishThrows
<1>8. CASE Publish(p) \/ SaveEnvelope(p)
  <2>1. proc[p].pc \in {"publish", "envelope"}
    BY <1>8 DEF Publish, SaveEnvelope, At
  <2>2. /\ proc'[p].exec = proc[p].exec /\ proc'[p].suite = proc[p].suite
        /\ proc'[p].teardown = proc[p].teardown /\ proc'[p].outcome = proc[p].outcome
        /\ \/ proc'[p].pc = "envelope"
           \/ Goto(p, AfterPublish(p)) \/ PublishThrows(p)
    <3>1. CASE Goto(p, AfterPublish(p)) \/ PublishThrows(p)
      <4>1. \E w : Goto(p, w)
        BY <3>1 DEF PublishThrows
      <4>2. QED
        BY <1>3, <3>1, <4>1
    <3>2. CASE proc' = [proc EXCEPT ![p].pc = "envelope", ![p].seen = files[Exec(p)].result,
                                    ![p].seenReason = files[Exec(p)].error
                                                      \/ files[Exec(p)].result # "passed"]
      BY <1>1, <3>2 DEF ProcState
    <3>3. QED
      BY <1>8, <3>1, <3>2 DEF Publish, SaveEnvelope
  <2>3. ASSUME proc[p].suite
        PROVE  /\ proc[p].outcome \in Broken => proc'[p].pc \in {"envelope", "cleanTemp"}
               /\ proc[p].outcome \notin Broken => proc'[p].pc \notin {"cleanTemp", "done"}
    <3>1. proc[p].outcome \in Verdicts \/ proc[p].outcome \in Broken
      BY <2>1, <2>3 DEF RecordedOK, Results
    <3>2. proc[p].outcome \in Verdicts => proc[p].outcome \notin Broken
      BY DEF Verdicts, Broken
    <3>3. CASE proc'[p].pc = "envelope"
      BY <3>3
    <3>4. CASE Goto(p, AfterPublish(p)) \/ PublishThrows(p)
      <4>1. /\ proc[p].outcome \in Verdicts => Goto(p, "record") \/ Goto(p, "aborted")
            /\ proc[p].outcome \notin Verdicts => Goto(p, "cleanTemp")
        BY <1>7, <2>1, <2>3, <3>4
      <4>2. QED
        BY <1>3, <3>1, <3>2, <4>1
    <3>5. QED
      BY <2>2, <3>3, <3>4
  <2>4. QED
    BY <1>1, <2>1, <2>2, <2>3, RecordedStays DEF Closing
<1>9. CASE CleanTemp(p)
  <2>1. proc[p].pc = "cleanTemp" /\ (proc[p].suite => Goto(p, "done"))
    BY <1>2, <1>9 DEF CleanTemp, At
  <2>2. proc'[p].exec = proc[p].exec /\ proc'[p].suite = proc[p].suite
    BY <1>3, <1>9 DEF CleanTemp
  <2>3. QED
    BY <1>1, <1>3, <2>1, <2>2, RecordedStays DEF Closing, Ended
<1>10. QED
  BY <1>5, <1>6, <1>8, <1>9

(* No entry is of a command that is tearing its stack down.                *)
LEMMA NotYetEntered ==
  ASSUME LifeInv, NEW p \in Procs, proc[p].cmd \in BringUp, proc[p].pc = "teardown"
  PROVE  \A s : <<proc[p].exec, s>> \notin suiteRuns
<1>1. SUFFICES ASSUME NEW s, <<proc[p].exec, s>> \in suiteRuns PROVE FALSE
  OBVIOUS
<1>2. PICK q \in Procs : proc[q].exec = proc[p].exec /\ Entered(q, s)
  <2>1. PICK q \in Procs : /\ proc[q].exec = <<proc[p].exec, s>>[1]
                           /\ Entered(q, <<proc[p].exec, s>>[2])
    BY <1>1 DEF LifeInv, EntriesOK
  <2>2. QED
    BY <2>1
<1>3. q = p
  BY <1>2 DEF LifeInv, OneBringUp, Entered, BringUp
<1>4. QED
  BY <1>2, <1>3 DEF Entered

(* A teardown that fails leaves its run without an entry.                  *)
LEMMA TeardownRecorded ==
  ASSUME TypeInv, LifeInv, NEW p \in Procs, RecordedOK(p), Teardown(p)
  PROVE  RecordedOK(p)'
<1>1. /\ proc \in [Procs -> ProcState] /\ ProcOK(p) /\ suiteRuns' = suiteRuns
      /\ proc[p].pc = "teardown" /\ proc[p].cmd \in BringUp
  BY DEF TypeInv, TypeOK, Teardown, At, ProcOK, CommandOK
<1>2. CASE Goto(p, IF proc[p].suite THEN "record" ELSE "publish")
  <2>1. /\ proc'[p].exec = proc[p].exec /\ proc'[p].suite = proc[p].suite
        /\ proc'[p].teardown = proc[p].teardown
        /\ proc[p].suite => proc'[p].pc = "record"
    BY <1>2, GotoFields DEF Carried
  <2>2. proc[p].suite => proc[p].teardown # "failed" /\ proc[p].pc \notin Closing
    BY <1>1 DEF RecordedOK, Closing, Ended
  <2>3. QED
    BY <1>1, <2>1, <2>2, RecordedStays
<1>3. CASE proc' = [proc EXCEPT ![p].pc = "writeRun", ![p].teardown = "failed",
                                ![p].outcome = "cleanup-failed"]
  <2>1. /\ proc'[p].pc = "writeRun" /\ proc'[p].exec = proc[p].exec
        /\ proc'[p].outcome = "cleanup-failed" /\ proc'[p].teardown = "failed"
    BY <1>1, <1>3 DEF ProcState
  <2>2. QED
    BY <1>1, <2>1, NotYetEntered DEF RecordedOK, Closing, Broken
<1>4. QED
  BY <1>2, <1>3 DEF Teardown

(* What is recorded is the entry of this run, and of no other.             *)
LEMMA RecordRecorded ==
  ASSUME TypeInv, LifeInv, NEW p \in Procs, \A q \in Procs : RecordedOK(q), Record(p)
  PROVE  \A q \in Procs : RecordedOK(q)'
<1>1. /\ proc \in [Procs -> ProcState] /\ ProcOK(p)
      /\ proc[p].pc = "record" /\ proc[p].cmd = "run"
      /\ suiteRuns' = suiteRuns \cup {<<Exec(p), proc[p].outcome>>}
      /\ Goto(p, IF proc[p].outcome \in Verdicts THEN "cleanTemp" ELSE "publish")
  BY DEF TypeInv, TypeOK, Record, At, ProcOK, CommandOK, SuiteEntry
<1>2. /\ Carried(p) /\ proc'[p].pc \in {"cleanTemp", "publish"}
      /\ proc'[p].outcome = proc[p].outcome /\ proc'[p].teardown = proc[p].teardown
  BY <1>1, GotoFields
<1>3. RecordedOK(p)'
  <2>1. proc[p].outcome \in Results
    BY <1>1 DEF ProcOK
  <2>2. proc[p].suite => proc[p].teardown # "failed"
    BY <1>1 DEF RecordedOK, Closing, Ended
  <2>3. <<proc'[p].exec, proc'[p].outcome>> \in suiteRuns'
    BY <1>1, <1>2 DEF Carried, Exec
  <2>4. QED
    BY <1>2, <2>1, <2>2, <2>3 DEF RecordedOK, Carried
<1>4. ASSUME NEW q \in Procs, q # p
      PROVE  RecordedOK(q)'
  <2>1. proc'[q] = proc[q] /\ RecordedOK(q)
    BY <1>2, <1>4 DEF Carried
  <2>2. proc[q].suite => proc[q].exec # Exec(p)
    BY <1>1, <1>4 DEF TypeInv, ProcOK, LifeInv, OneBringUp, BringUp, Exec
  <2>3. \A s : proc[q].suite =>
          (<<proc[q].exec, s>> \in suiteRuns' <=> <<proc[q].exec, s>> \in suiteRuns)
    BY <1>1, <2>2
  <2>4. QED
    BY <2>1, <2>3 DEF RecordedOK
<1>5. QED
  BY <1>3, <1>4

(* A command that is killed or has yet to start loses nothing.             *)
LEMMA BeginOrCrashRecorded ==
  ASSUME TypeInv, NEW p \in Procs, RecordedOK(p), Begin(p) \/ Crash(p)
  PROVE  /\ RecordedOK(p)' /\ suiteRuns' = suiteRuns
         /\ \A q \in Procs \ {p} : proc'[q] = proc[q]
<1>1. proc \in [Procs -> ProcState]
  BY DEF TypeInv, TypeOK
<1>2. CASE Crash(p)
  <2>1. /\ suiteRuns' = suiteRuns /\ \A q \in Procs \ {p} : proc'[q] = proc[q]
        /\ proc'[p].exec = proc[p].exec /\ proc'[p].suite = proc[p].suite
        /\ proc'[p].pc = proc[p].pc /\ proc'[p].outcome = proc[p].outcome
        /\ proc'[p].teardown = proc[p].teardown
    BY <1>1, <1>2 DEF Crash, ProcState
  <2>2. QED
    BY <2>1 DEF RecordedOK
<1>3. CASE Begin(p)
  <2>1. PICK e \in Execs :
          \/ \E cmd \in BringUp, keepUp, suite \in BOOLEAN :
               InitDirs(p, e, cmd, keepUp, suite)
          \/ StartDown(p, e) \/ StartTest(p, e)
          \/ StartPrune(p, e) \/ StartEvidence(p, e)
    BY <1>3 DEF Begin
  <2>2. /\ suiteRuns' = suiteRuns /\ \A q \in Procs \ {p} : proc'[q] = proc[q]
        /\ proc'[p].teardown = "no"
        /\ \/ proc'[p].pc \notin {"cleanTemp", "done", "publish", "envelope"}
           \/ ~proc'[p].suite
    <3>1. CASE \E cmd \in BringUp, keepUp, suite \in BOOLEAN :
                 InitDirs(p, e, cmd, keepUp, suite)
      <4>1. PICK cmd, keepUp, suite : InitDirs(p, e, cmd, keepUp, suite)
        BY <3>1
      <4>2. /\ suiteRuns' = suiteRuns
            /\ proc' = [proc EXCEPT ![p] = [Idle EXCEPT !.cmd = cmd, !.exec = e,
                          !.pc = "prepare", !.keepUp = keepUp, !.suite = suite]]
        BY <4>1 DEF InitDirs
      <4>3. QED
        BY <1>1, <4>2 DEF Idle
    <3>2. CASE StartDown(p, e) \/ StartTest(p, e) \/ StartPrune(p, e) \/ StartEvidence(p, e)
      <4>1. \E cmd, pc : Start(p, cmd, e, pc) /\ suiteRuns' = suiteRuns
        BY <3>2 DEF StartDown, StartTest, StartPrune, StartEvidence
      <4>2. PICK cmd, pc : Start(p, cmd, e, pc) /\ suiteRuns' = suiteRuns
        BY <4>1
      <4>3. proc' = [proc EXCEPT ![p] = [Idle EXCEPT !.cmd = cmd, !.exec = e, !.pc = pc]]
        BY <4>2 DEF Start
      <4>4. QED
        BY <1>1, <4>2, <4>3 DEF Idle
    <3>3. QED
      BY <2>1, <3>1, <3>2
  <2>3. QED
    BY <2>2 DEF RecordedOK
<1>4. QED
  BY <1>2, <1>3

(* The invariant is kept by every step.                                    *)
LEMMA RecordedStep ==
  ASSUME FullInv, \A p \in Procs : RecordedOK(p), [Next]_vars
  PROVE  \A p \in Procs : RecordedOK(p)'
<1>1. TypeInv /\ LifeInv
  BY DEF FullInv, IInv
<1>2. ASSUME NEW p \in Procs, RecordedOK(p)', suiteRuns' = suiteRuns,
             \A q \in Procs \ {p} : proc'[q] = proc[q]
      PROVE  \A q \in Procs : RecordedOK(q)'
  <2>1. ASSUME NEW q \in Procs, q # p PROVE RecordedOK(q)'
    BY <1>2, <2>1 DEF RecordedOK
  <2>2. QED
    BY <1>2, <2>1
<1>3. CASE UNCHANGED vars
  BY <1>3 DEF vars, RecordedOK
<1>4. ASSUME NEW p \in Procs, Begin(p) \/ Crash(p)
      PROVE  \A q \in Procs : RecordedOK(q)'
  BY <1>1, <1>2, <1>4, BeginOrCrashRecorded
<1>5. ASSUME NEW p \in Procs, Step(p)
      PROVE  \A q \in Procs : RecordedOK(q)'
  <2>1. CASE Record(p)
    BY <1>1, <2>1, RecordRecorded
  <2>2. CASE ~Record(p)
    <3>1. RecordedOK(p)'
      BY <1>1, <1>5, <2>2, EarlyRecorded, OthersRecorded, ReportRecorded, TeardownRecorded
      DEF Step
    <3>2. suiteRuns' = suiteRuns
      BY <1>5, <2>2
      DEF Step, WritePrepared, WriteMarker, WriteCompose, ValidateBase, ValidateRunner,
          ComposeUp, EmitImages, ValidateDev, DevUp, Lifecycle, Cypress, RunDown, Down,
          WriteRun, WriteResult, Teardown, Publish, SaveEnvelope, CleanTemp, PruneDelete
    <3>3. \A q \in Procs \ {p} : proc'[q] = proc[q]
      BY <1>1, <1>5, StepActs DEF Acts, Elsewhere
    <3>4. QED
      BY <1>2, <3>1, <3>2, <3>3
  <2>3. QED
    BY <2>1, <2>2
<1>6. QED
  BY <1>3, <1>4, <1>5 DEF Next

(* A suite run that has ended is without an entry in the suite record      *)
(* exactly if one of its phases failed and the teardown after it failed    *)
(* too: overwrite-cleanup-failed throws past the entry (infra-fail.nu).    *)
(* Other commands on the execution, crashes and prunes make no difference. *)
THEOREM UnrecordedExactly ==
  Spec => [](\A p \in Procs :
               proc[p].suite /\ proc[p].pc = "done" =>
                 ((\E s \in Results : <<proc[p].exec, s>> \in suiteRuns)
                   <=> proc[p].teardown # "failed"))
<1> DEFINE Exactly == \A p \in Procs :
                        proc[p].suite /\ proc[p].pc = "done" =>
                          ((\E s \in Results : <<proc[p].exec, s>> \in suiteRuns)
                            <=> proc[p].teardown # "failed")
           RecordedInv == FullInv /\ \A p \in Procs : RecordedOK(p)
<1>1. Init => RecordedInv
  <2>1. Init => \A p \in Procs : RecordedOK(p)
    BY DEF Init, RecordedOK, Idle
  <2>2. QED
    BY <2>1, FullInit
<1>2. RecordedInv /\ [Next]_vars => RecordedInv'
  BY RecordedStep, FullStep
<1>3. RecordedInv => Exactly
  BY DEF RecordedOK
<1>4. QED
  BY <1>1, <1>2, <1>3, PTL DEF Spec

-----------------------------------------------------------------------------
(* A command `test` that nothing has raced with reaches Cypress if it is   *)
(* given its environment, and otherwise cannot.                            *)
TestedOK(p) ==
  LET r == proc[p]
  IN  r.cmd = "test" /\ Alone(r.exec) =>
        /\ r.pc = "cypress" => TestEnv
        /\ r.pc \notin {"validateRunner", "cypress"} => (r.outcome \in Verdicts <=> TestEnv)

(* What a step of another command does to it.                              *)
LEMMA TestedElsewhere ==
  ASSUME NEW p \in Procs, TestedOK(p), proc'[p] = proc[p], crossed \subseteq crossed'
  PROVE  TestedOK(p)'
BY DEF TestedOK, Alone

(* A step of its own.                                                      *)
LEMMA TestedStep ==
  ASSUME TypeInv, LifeInv, ~MayFail, NEW p \in Procs, TestedOK(p), Step(p),
         crossed' = crossed
  PROVE  TestedOK(p)'
<1>1. proc \in [Procs -> ProcState] /\ ProcOK(p)
  BY DEF TypeInv, TypeOK
<1>2. proc'[p].exec = proc[p].exec /\ proc'[p].cmd = proc[p].cmd
  BY StepActs DEF Acts, Elsewhere
<1>3. SUFFICES ASSUME proc[p].cmd = "test", Alone(proc[p].exec)
               PROVE  /\ proc'[p].pc = "cypress" => TestEnv
                      /\ proc'[p].pc \notin {"validateRunner", "cypress"} =>
                           (proc'[p].outcome \in Verdicts <=> TestEnv)
  BY <1>2 DEF TestedOK, Alone
<1>4. ASSUME NEW w, Goto(p, w)
      PROVE  proc'[p].pc = w /\ proc'[p].outcome = proc[p].outcome
  BY <1>4, GotoFields
<1>5. ASSUME NEW w, NEW possible, NEW new, SaveOrAbort(p, possible, new, w)
      PROVE  Goto(p, w) \/ Goto(p, "aborted")
  BY <1>5 DEF SaveOrAbort
<1>6. ASSUME NEW w, Goto(p, w), w # "cypress",
             proc[p].pc \notin {"validateRunner", "cypress"}
      PROVE  /\ proc'[p].pc = "cypress" => TestEnv
             /\ proc'[p].pc \notin {"validateRunner", "cypress"} =>
                  (proc'[p].outcome \in Verdicts <=> TestEnv)
  BY <1>3, <1>4, <1>6 DEF TestedOK
<1>7. CASE ValidateRunner(p)
  <2>1. FilesReady(p) /\ ~MayFailNow(p)
    <3>1. Live(p) /\ proc[p].exec = Exec(p)
      BY <1>7 DEF ValidateRunner, At, Live, Ended, Exec
    <3>2. files[Exec(p)].dir = "full"
      BY <1>3, <3>1 DEF LifeInv, WorkOK, Working, Beginning
    <3>3. QED
      BY <1>3, <3>2 DEF FilesReady, MayFailNow, BringUp
  <2>2. \/ TestEnv /\ Goto(p, "cypress")
        \/ ~TestEnv /\ \E t : FailPhase(p, t)
    BY <1>3, <1>7, <2>1 DEF ValidateRunner
  <2>3. CASE TestEnv /\ Goto(p, "cypress")
    BY <1>4, <2>3
  <2>4. CASE ~TestEnv /\ \E t : FailPhase(p, t)
    BY <2>4, FailPhaseFields DEF Verdicts
  <2>5. QED
    BY <2>2, <2>3, <2>4
<1>8. CASE Cypress(p)
  <2>1. proc[p].pc = "cypress"
    BY <1>8 DEF Cypress, At
  <2>2. PICK verdict \in Verdicts :
          proc' = [proc EXCEPT
            ![p].outcome = verdict,
            ![p].pc = IF proc[p].cmd = "run" /\ ~proc[p].keepUp THEN "down"
                      ELSE "writeRun"]
    BY <1>8 DEF Cypress
  <2>3. proc'[p].pc = "writeRun" /\ proc'[p].outcome = verdict
    BY <1>1, <1>3, <2>2 DEF ProcState
  <2>4. QED
    BY <1>3, <2>1, <2>3 DEF TestedOK
<1>9. CASE WriteRun(p) \/ WriteResult(p)
  <2>1. /\ proc[p].pc \in {"writeRun", "writeResult"}
        /\ \E w \in {"writeResult", "teardown", "record", "publish", "aborted"} : Goto(p, w)
    BY <1>5, <1>9 DEF WriteRun, WriteResult, At, AfterRun, AfterResult
  <2>2. QED
    BY <1>6, <2>1
<1>10. CASE Publish(p) \/ SaveEnvelope(p)
  <2>1. proc[p].pc \in {"publish", "envelope"}
    BY <1>10 DEF Publish, SaveEnvelope, At
  <2>2. CASE \E w \in {"done", "aborted"} : Goto(p, w)
    BY <1>6, <2>1, <2>2
  <2>3. CASE proc' = [proc EXCEPT ![p].pc = "envelope", ![p].seen = files[Exec(p)].result,
                                  ![p].seenReason = files[Exec(p)].error
                                                    \/ files[Exec(p)].result # "passed"]
    <3>1. proc'[p].pc = "envelope" /\ proc'[p].outcome = proc[p].outcome
      BY <1>1, <2>3 DEF ProcState
    <3>2. QED
      BY <1>3, <2>1, <3>1 DEF TestedOK
  <2>4. QED
    BY <1>3, <1>10, <2>2, <2>3
    DEF Publish, SaveEnvelope, PublishThrows, AfterPublish
<1>11. ValidateRunner(p) \/ Cypress(p) \/ WriteRun(p) \/ WriteResult(p)
       \/ Publish(p) \/ SaveEnvelope(p)
  <2>1. proc[p].pc \in {"validateRunner", "cypress", "writeRun", "writeResult",
                        "publish", "envelope"} \cup Ended \cup {"idle"}
    <3>1. proc[p].pc \in Pcs /\ CommandOK(proc[p].pc, "test")
      BY <1>1, <1>3 DEF ProcOK, ProcState
    <3>2. QED
      BY <3>1 DEF Pcs, CommandOK, BringUp
  <2>2. QED
    BY <1>3, <2>1
    DEF Step, WritePrepared, WriteMarker, WriteCompose, ValidateBase, ComposeUp,
        EmitImages, ValidateDev, DevUp, Lifecycle, RunDown, Down, Teardown, Record,
        CleanTemp, PruneDelete, At, Ended
<1>12. QED
  BY <1>7, <1>8, <1>9, <1>10, <1>11

(* A command that starts, or is killed.                                    *)
LEMMA TestedBeginOrCrash ==
  ASSUME TypeInv, NEW p \in Procs, TestedOK(p), Begin(p) \/ Crash(p)
  PROVE  /\ TestedOK(p)' /\ crossed \subseteq crossed'
         /\ \A q \in Procs \ {p} : proc'[q] = proc[q]
<1>1. proc \in [Procs -> ProcState]
  BY DEF TypeInv, TypeOK
<1>2. CASE Crash(p)
  <2>1. /\ crossed' = crossed /\ \A q \in Procs \ {p} : proc'[q] = proc[q]
        /\ proc'[p].exec = proc[p].exec /\ proc'[p].cmd = proc[p].cmd
        /\ proc'[p].pc = proc[p].pc /\ proc'[p].outcome = proc[p].outcome
    BY <1>1, <1>2 DEF Crash, ProcState
  <2>2. QED
    BY <2>1 DEF TestedOK, Alone
<1>3. CASE Begin(p)
  <2>1. PICK e \in Execs :
          \/ \E cmd \in BringUp, keepUp, suite \in BOOLEAN :
               InitDirs(p, e, cmd, keepUp, suite)
          \/ StartTest(p, e)
          \/ StartDown(p, e) \/ StartPrune(p, e) \/ StartEvidence(p, e)
    BY <1>3 DEF Begin
  <2>2. /\ crossed \subseteq crossed' /\ \A q \in Procs \ {p} : proc'[q] = proc[q]
        /\ proc'[p].cmd # "test" \/ proc'[p].pc = "validateRunner"
    <3>1. CASE \E cmd \in BringUp, keepUp, suite \in BOOLEAN :
                 InitDirs(p, e, cmd, keepUp, suite)
      <4>1. PICK cmd \in BringUp, keepUp \in BOOLEAN, suite \in BOOLEAN :
              InitDirs(p, e, cmd, keepUp, suite)
        BY <3>1
      <4>2. /\ crossed' = crossed
            /\ proc' = [proc EXCEPT ![p] = [Idle EXCEPT !.cmd = cmd, !.exec = e,
                          !.pc = "prepare", !.keepUp = keepUp, !.suite = suite]]
        BY <4>1 DEF InitDirs
      <4>3. QED
        BY <1>1, <4>2 DEF Idle, BringUp
    <3>2. CASE ~\E cmd \in BringUp, keepUp, suite \in BOOLEAN :
                  InitDirs(p, e, cmd, keepUp, suite)
      <4>1. \E cmd, pc : Start(p, cmd, e, pc) /\ (cmd # "test" \/ pc = "validateRunner")
        BY <2>1, <3>2 DEF StartDown, StartTest, StartPrune, StartEvidence
      <4>2. PICK cmd, pc : Start(p, cmd, e, pc) /\ (cmd # "test" \/ pc = "validateRunner")
        BY <4>1
      <4>3. /\ proc' = [proc EXCEPT ![p] = [Idle EXCEPT !.cmd = cmd, !.exec = e, !.pc = pc]]
            /\ crossed \subseteq crossed'
        BY <4>2 DEF Start
      <4>4. QED
        BY <1>1, <4>2, <4>3 DEF Idle
    <3>3. QED
      BY <3>1, <3>2
  <2>3. QED
    BY <2>2 DEF TestedOK
<1>4. QED
  BY <1>2, <1>3

(* Where docker does not fail, a command `test` that has run on an         *)
(* execution alone ends in a verdict exactly if the operator has supplied  *)
(* what the command looks for outside the artifacts, a file among it that  *)
(* the repository lacks (TestEnv).                                         *)
THEOREM TestNeedsItsEnvironment ==
  ASSUME ~MayFail
  PROVE  Spec => [](\A p \in Procs :
                      proc[p].cmd = "test" /\ proc[p].pc = "done" /\ Alone(proc[p].exec) =>
                        (proc[p].outcome \in Verdicts <=> TestEnv))
<1> DEFINE Exactly == \A p \in Procs :
                        proc[p].cmd = "test" /\ proc[p].pc = "done" /\ Alone(proc[p].exec) =>
                          (proc[p].outcome \in Verdicts <=> TestEnv)
           TestedInv == FullInv /\ \A p \in Procs : TestedOK(p)
<1>1. Init => TestedInv
  <2>1. Init => \A p \in Procs : TestedOK(p)
    BY DEF Init, TestedOK, Idle
  <2>2. QED
    BY <2>1, FullInit
<1>2. ASSUME FullInv, \A p \in Procs : TestedOK(p), [Next]_vars
      PROVE  \A p \in Procs : TestedOK(p)'
  <2>1. TypeInv /\ LifeInv
    BY <1>2 DEF FullInv, IInv
  <2>2. CASE UNCHANGED vars
    BY <1>2, <2>2 DEF vars, TestedOK, Alone
  <2>3. ASSUME NEW p \in Procs, Begin(p) \/ Step(p) \/ Crash(p)
        PROVE  \A q \in Procs : TestedOK(q)'
    <3>1. /\ TestedOK(p)' /\ crossed \subseteq crossed'
          /\ \A q \in Procs \ {p} : proc'[q] = proc[q]
      <4>1. CASE Begin(p) \/ Crash(p)
        BY <1>2, <2>1, <4>1, TestedBeginOrCrash
      <4>2. CASE Step(p)
        <5>1. crossed' = crossed /\ \A q \in Procs \ {p} : proc'[q] = proc[q]
          BY <2>1, <4>2, StepActs DEF Acts, Elsewhere
        <5>2. QED
          BY <1>2, <2>1, <4>2, <5>1, TestedStep
      <4>3. QED
        BY <2>3, <4>1, <4>2
    <3>2. QED
      BY <1>2, <3>1, TestedElsewhere
  <2>4. QED
    BY <1>2, <2>2, <2>3 DEF Next
<1>3. TestedInv /\ [Next]_vars => TestedInv'
  BY <1>2, FullStep
<1>4. TestedInv => Exactly
  BY DEF TestedOK
<1>5. QED
  BY <1>1, <1>3, <1>4, PTL DEF Spec

=============================================================================
