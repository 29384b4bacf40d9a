---------------------------- MODULE ContactShare ----------------------------
(***************************************************************************)
(* The adapters' part of a contact or share-with cell: InviteExchange and  *)
(* then FederatedShare, on servers that outlive the run of the spec.       *)
(***************************************************************************)
EXTENDS InviteExchange, FederatedShare

(* The registry throws for a pair without the adapters its flow needs.     *)
ASSUME PairsAssumption ==
  \A p \in Pairs :
    /\ p.flow \in InviteFlows \cup {"share-with"}
    /\ Supports(p.flow, "sender", p.sender)
    /\ Supports(p.flow, "receiver", p.receiver)

vars == <<pair, attempt, stage, cause, inviteVars, shareVars>>

Init ==
  /\ pair \in Pairs /\ attempt = 1 /\ stage = First /\ cause = None
  /\ InviteInit /\ ShareInit

(* A command of Cypress waits no longer than its timeout.                  *)
TimeOut ==
  /\ stage \notin Ended
  /\ Fail("timeout")
  /\ UNCHANGED <<inviteVars, shareVars>>

TestStep ==
  \/ InviteTest /\ UNCHANGED shareVars
  \/ ShareTest /\ UNCHANGED inviteVars

ServerStep ==
  \/ InviteServer /\ UNCHANGED shareVars
  \/ ShareServer /\ UNCHANGED inviteVars

(* The spec is run again on the same servers.                              *)
Again ==
  /\ stage = "failed" /\ attempt < MaxAttempts
  /\ attempt' = attempt + 1 /\ stage' = First /\ cause' = None
  /\ UNCHANGED pair
  /\ InviteAgain /\ ShareAgain

Next == TestStep \/ ServerStep \/ TimeOut \/ Again

(* Cypress goes on with the test until it ends.                            *)
Spec == Init /\ [][Next]_vars /\ WF_vars(TestStep \/ TimeOut)

-----------------------------------------------------------------------------
TypeOK ==
  /\ pair \in Pairs /\ attempt \in 1..MaxAttempts
  /\ stage \in InviteStages \cup ShareStages \cup Ended
  /\ cause \in {None, "product", "timeout", "form", "rerun", "dialog"}
  /\ InviteTypeOK /\ ShareTypeOK

(* The runs in which the receiver has verified the contact, or later.      *)
ContactVerified ==
  /\ pair.flow \in InviteFlows
  /\ stage \in {"verified"} \cup ShareStages

AwaitsAnswers(ref) == ref.platform = "nextcloud"

(* The contact a test goes on with is the one it has made: the receiver's  *)
(* server has accepted an invitation this run's sender created. On a stack *)
(* that had an earlier run, the platforms that wait for answers say so.    *)
ThisInviteAccepted ==
  (/\ ContactVerified
   /\ attempt = 1 \/ (AwaitsAnswers(pair.sender) /\ AwaitsAnswers(pair.receiver)))
    => attempt \in contacts

(* The URL that the receiver's page is to show the contact at is the       *)
(* contact's, not one of the pages it was accepted on.                     *)
AcceptedUrlIsTheContact == url \in {None, "contact", "domain"}

(* A run that passes has got this run's file to the receiver, and it is    *)
(* this run's file whose content was read, although all have one name.     *)
(* OCM-Go makes no new file, and its receiver may take an earlier one.     *)
PassedMeansThisShare ==
  (stage = "passed" /\ GivesContent(pair.sender)) =>
    /\ attempt \in mounted
    /\ compared \in {0, attempt}

(* On a new stack no run fails for something the helpers do to each other: *)
(* a token the next form cannot take, a redirect without one, a file that  *)
(* is there already.                                                       *)
NeverStuckOnItsOwn == attempt = 1 => cause \notin {"form", "rerun"}

(* A run ends, even if the dialogs of Nextcloud come back for ever.        *)
EveryRunEnds == stage \notin Ended ~> stage \in Ended

-----------------------------------------------------------------------------
(* What the servers have got to: a contact counts once it is accepted, a   *)
(* share once it is sent to the receiver.                                  *)
Reached ==
  CASE mounted # {}                  -> 4
    [] mounted = {} /\ outgoing # {} -> 3
    [] mounted = {} /\ outgoing = {} /\ (contacts # {} \/ First = "verified") -> 2
    [] mounted = {} /\ outgoing = {} /\ contacts = {} /\ First = "new"
         /\ invites # <<>> -> 1
    [] OTHER -> 0

Verdict == IF stage \in Ended THEN stage ELSE "open"

Contract == INSTANCE Handshake WITH reached <- Reached, verdict <- Verdict

(* Each step of the pages and servers is a step of the contract or none:   *)
(* no run passes before its servers have got all the way, in order.        *)
KeepsTheContract == Contract!Spec

=============================================================================
