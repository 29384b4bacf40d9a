----------------------------- MODULE Handshake ------------------------------
(***************************************************************************)
(* What a contact cell is there to show: two servers get, in this order,   *)
(* from an invitation to trust to a share to its receipt, and a run that   *)
(* says "passed" says it of servers that have got that far.                *)
(***************************************************************************)
EXTENDS Naturals

VARIABLES
  reached,  \* how far the two servers have got
  verdict   \* of the run of the spec

Steps == [nowhere |-> 0, invited |-> 1, trusted |-> 2, shared |-> 3, received |-> 4]

(* Servers that need no contact to share start as if they had one.         *)
Init ==
  /\ reached \in {Steps.nowhere, Steps.trusted}
  /\ verdict = "open"

(* The servers get one step further, while a run is open or not.           *)
Progress ==
  /\ reached < Steps.received /\ reached' = reached + 1
  /\ UNCHANGED verdict

Pass ==
  /\ verdict = "open" /\ reached = Steps.received
  /\ verdict' = "passed"
  /\ UNCHANGED reached

GiveUp ==
  /\ verdict = "open" /\ verdict' = "failed"
  /\ UNCHANGED reached

(* A new run of the spec; a request of the old one may still be carried    *)
(* out as it starts.                                                       *)
Restart ==
  /\ verdict # "open" /\ verdict' = "open"
  /\ reached' \in {reached, reached + 1} /\ reached' <= Steps.received

Next == Progress \/ Pass \/ GiveUp \/ Restart

Spec == Init /\ [][Next]_<<reached, verdict>>

=============================================================================
