--------------------------- MODULE PrereqGateProofs ---------------------------
(***************************************************************************)
(* What PrereqGate promises, for any number of cells and any dependencies. *)
(***************************************************************************)
EXTENDS PrereqGate, TLAPS

(* Every step keeps each status within Statuses and the dependencies as    *)
(* the plan has fixed them (planner.nu:150-164).                           *)
THEOREM TypeCorrect == Spec => []TypeOK
<1>1. Init => TypeOK
  BY DEF Init, TypeOK, Statuses
<1>2. TypeOK /\ [Next]_vars => TypeOK'
  BY DEF TypeOK, Next, Start, End, Block, Skip, Becomes, Statuses, Started, vars
<1>3. QED
  BY <1>1, <1>2, PTL DEF Spec

Inv == TypeOK /\ StartedAfterItsDependencies /\ NothingIsLostWithoutAFailure

(* Both promises need nothing but types to be kept by every step: what has *)
(* passed or failed stays so, hence a dependency once passed is passed for *)
(* good, and a failure once seen is there for good.                        *)
LEMMA GateInductive == Inv /\ [Next]_vars => Inv'
<1> SUFFICES ASSUME Inv, [Next]_vars
             PROVE  Inv'
  OBVIOUS
<1> USE DEF Inv
<1>1. TypeOK'
  BY DEF TypeOK, Next, Start, End, Block, Skip, Becomes, Statuses, Started, vars
<1>2. CASE UNCHANGED <<status, deps>> /\ lost \subseteq lost'
  BY <1>1, <1>2 DEF StartedAfterItsDependencies, NothingIsLostWithoutAFailure
<1>3. ASSUME NEW c \in Cells, Start(c) \/ End(c) \/ Block(c) \/ Skip(c), Next
      PROVE  Inv'
  <2>1. Start(c) \/ End(c) \/ Block(c) \/ Skip(c)
    BY <1>3
  <2>2. /\ deps' = deps /\ lost \subseteq lost'
        /\ \A x \in Cells : x # c => status'[x] = status[x]
        /\ status[c] \in {"pending", "running"}
        /\ status'[c] \in Statuses \ {"pending"}
    BY <1>3 DEF Next, Start, End, Block, Skip, Becomes, TypeOK, Statuses, Started
  <2>3. \A d \in Cells : status[d] \in {"passed", "failed"} => status'[d] = status[d]
    BY <2>2
  <2>4. status'[c] \in Started => \A d \in deps[c] : status[d] = "passed"
    <3>1. CASE Start(c)
      BY <3>1 DEF Start
    <3>2. CASE End(c)
      BY <3>2 DEF End, Started, StartedAfterItsDependencies
    <3>3. CASE Block(c) \/ Skip(c)
      BY <3>3 DEF Block, Skip, Becomes, TypeOK, Started
    <3>4. QED
      BY <2>1, <3>1, <3>2, <3>3
  <2>5. StartedAfterItsDependencies'
    BY <2>2, <2>3, <2>4 DEF StartedAfterItsDependencies, TypeOK
  <2>6. lost = {} /\ status'[c] \in {"blocked", "skipped"} => \E d \in Cells : status[d] = "failed"
    <3>1. CASE Start(c) \/ End(c)
      BY <3>1 DEF Start, End, Becomes, TypeOK
    <3>2. CASE Block(c)
      BY <3>2 DEF Block, Unavailable, NothingIsLostWithoutAFailure, TypeOK
    <3>3. CASE Skip(c)
      BY <3>3 DEF Skip
    <3>4. QED
      BY <2>1, <3>1, <3>2, <3>3
  <2>7. NothingIsLostWithoutAFailure'
    BY <2>2, <2>3, <2>6 DEF NothingIsLostWithoutAFailure
  <2>8. QED
    BY <1>1, <2>5, <2>7
<1>4. CASE Next
  BY <1>2, <1>3, <1>4 DEF Next
<1>5. QED
  BY <1>2, <1>4 DEF vars

(* A cell that was started had all it depends on passed, and where nothing *)
(* gets lost a cell that was not run has a failure behind it, for any plan *)
(* (blocker.nu:20-42).                                                     *)
THEOREM GateIsKept ==
  Spec => []StartedAfterItsDependencies /\ []NothingIsLostWithoutAFailure
<1>1. Init => Inv
  BY DEF Init, Inv, TypeOK, Statuses, Started, StartedAfterItsDependencies,
         NothingIsLostWithoutAFailure
<1>2. Inv /\ [Next]_vars => Inv'
  BY GateInductive
<1>3. Inv => StartedAfterItsDependencies /\ NothingIsLostWithoutAFailure
  BY DEF Inv
<1>4. QED
  BY <1>1, <1>2, <1>3, PTL DEF Spec

=============================================================================
