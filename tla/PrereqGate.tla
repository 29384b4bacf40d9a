------------------------------ MODULE PrereqGate ------------------------------
(***************************************************************************)
(* What a suite promises about the cells it plans, whoever runs them, the  *)
(* local suite runner (SuiteRunner) or the CI workflows (CiPipeline): a    *)
(* cell runs only once every cell it depends on has passed, it is blocked  *)
(* only because of one that has not, or whose outcome got lost, and what   *)
(* has an outcome keeps it.                                                *)
(***************************************************************************)
CONSTANT Cells

VARIABLES
  status,   \* what has become of each cell
  deps,     \* the cells each cell depends on, fixed by the plan
  lost      \* the cells whose machine, outcome or downloads got lost

vars == <<status, deps, lost>>

Started    == {"running", "passed", "failed"}
Unavailable == {"failed", "blocked"}
Statuses   == Started \cup {"pending", "blocked", "skipped"}

TypeOK ==
  /\ status \in [Cells -> Statuses]
  /\ deps \in [Cells -> SUBSET Cells]
  /\ lost \subseteq Cells

Init ==
  /\ status = [c \in Cells |-> "pending"]
  /\ deps \in [Cells -> SUBSET Cells]
  /\ lost = {}

Becomes(c, s) == status' = [status EXCEPT ![c] = s]

Start(c) ==
  /\ status[c] = "pending"
  /\ \A d \in deps[c] : status[d] = "passed"
  /\ Becomes(c, "running")

End(c) ==
  /\ status[c] = "running"
  /\ \E s \in {"passed", "failed"} : Becomes(c, s)

Block(c) ==
  /\ status[c] = "pending"
  /\ \E d \in deps[c] : status[d] \in Unavailable \/ {c, d} \cap lost # {}
  /\ Becomes(c, "blocked")

(* Given up because the suite stops at a failure.                          *)
Skip(c) ==
  /\ status[c] = "pending"
  /\ \E d \in Cells : status[d] = "failed"
  /\ Becomes(c, "skipped")

(* With or without a step of a cell something more may get lost.           *)
Next ==
  /\ \/ \E c \in Cells : Start(c) \/ End(c) \/ Block(c) \/ Skip(c)
     \/ UNCHANGED status
  /\ lost \subseteq lost' /\ lost' \subseteq Cells
  /\ UNCHANGED deps

Spec == Init /\ [][Next]_vars

-----------------------------------------------------------------------------
(* A cell has been started only if all it depends on has passed            *)
(* (config/ci/prerequisites.nuon: "a given capability must pass before     *)
(* listed flows can run").                                                 *)
StartedAfterItsDependencies ==
  \A c \in Cells : status[c] \in Started =>
    \A d \in deps[c] : status[d] = "passed"

(* Whatever was not run has a failed cell behind it, unless outcomes get   *)
(* lost: blocks never feed on each other alone (blocker.nu,                *)
(* cypress-suite.nu:138-141).                                              *)
NothingIsLostWithoutAFailure ==
  lost = {} /\ (\E c \in Cells : status[c] \in {"blocked", "skipped"}) =>
    \E c \in Cells : status[c] = "failed"

=============================================================================
