------------------------------ MODULE Attempts ------------------------------
(***************************************************************************)
(* What InviteExchange and FederatedShare share: the pair of platforms, on *)
(* servers that keep what they hold, and the runs of the spec against      *)
(* them, each of which goes from stage to stage until it passes or fails.  *)
(***************************************************************************)
EXTENDS Registry, Naturals, Sequences

CONSTANTS
  Pairs,        \* [flow, sender, receiver] records
  MaxAttempts   \* bound: runs of the spec on one stack

ASSUME AttemptsAssumption == MaxAttempts \in Nat \ {0}

VARIABLES
  pair,     \* the cell
  attempt,  \* which run of its spec
  stage,    \* what this run has got done
  cause     \* why it has failed

None == "-"

InviteFlows == {"contact-token", "contact-wayf"}

InviteStages == {"new", "creating", "copied", "followed", "accepting",
                 "accepted", "verified"}
ShareStages  == {"writing", "prepared", "chosen", "sent", "shared", "polling",
                 "adding", "looking", "received", "passed"}
Ended        == {"passed", "failed"}

(* The stage a run starts in: share-with needs no contact.                 *)
First == IF pair.flow \in InviteFlows THEN "new" ELSE "verified"

To(s) == stage' = s /\ UNCHANGED <<pair, attempt, cause>>

Fail(c) == stage' = "failed" /\ cause' = c /\ UNCHANGED <<pair, attempt>>

=============================================================================
