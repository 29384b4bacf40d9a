---------------------------- MODULE WebappLaunch ----------------------------
(***************************************************************************)
(* The last two tests of webapp-share: the sender's Nextcloud shares a     *)
(* JupyterHub folder, the receiver accepts it, marks the proxy's log and   *)
(* launches the application at the remote hub. Nextcloud's receiver shows  *)
(* a card per share and the helper looks for the only one that fits, anew  *)
(* before each click; CERNBox has a list of folders and takes the first.   *)
(***************************************************************************)
EXTENDS Attempts, FiniteSets, MitmTraffic

VARIABLES
  sent,      \* the sender's server: the runs whose share it has sent
  cards,     \* the receiver's server: [run, accepted] records
  taken,     \* the run whose card the test has accepted
  opened,    \* the run whose card it has opened
  hub        \* the origin the launch leads to

webappVars == <<sent, cards, taken, opened, hub>>

vars == <<pair, attempt, stage, cause, webappVars, logVars>>

WebappStages == {"new", "folder", "shared", "clicked", "accepted", "marked",
                 "opened"}

(* extractHubLaunchOriginFromRedirectHtml and ...FromOpenInApp: what the   *)
(* answer leads to, if it leads anywhere.                                  *)
HubOrigins == {"hub", "receiver", "none"}

Init ==
  /\ pair \in Pairs /\ attempt = 1 /\ stage = "new" /\ cause = None
  /\ sent = {} /\ cards = {} /\ taken = 0 /\ opened = 0 /\ hub = "none"
  /\ LogInit

TypeOK ==
  /\ pair \in Pairs /\ attempt \in 1..MaxAttempts
  /\ stage \in WebappStages \cup Ended
  /\ cause \in {None, "product", "timeout", "card", "hub"}
  /\ sent \subseteq 1..MaxAttempts
  /\ cards \subseteq [run : 1..MaxAttempts, accepted : BOOLEAN]
  /\ \A c, d \in cards : c.run = d.run => c = d
  /\ taken \in 0..MaxAttempts /\ opened \in 0..MaxAttempts
  /\ hub \in HubOrigins
  /\ LogTypeOK

-----------------------------------------------------------------------------
(* prepareShareFolder: a folder or a notebook that is there already will   *)
(* do, so this may be run again.                                           *)
PrepareFolder ==
  /\ stage = "new"
  /\ \/ To("folder")
     \/ Fail("product")
  /\ UNCHANGED webappVars

(* openWebappShareDialog and submitWebappShare wait for the answer.        *)
SubmitShare ==
  /\ stage = "folder"
  /\ \/ sent' = sent \cup {attempt} /\ To("shared")
     \/ UNCHANGED sent /\ Fail("product")
  /\ UNCHANGED <<cards, taken, opened, hub>>

(* The receiver's server is told.                                          *)
DeliverCard ==
  /\ \E r \in sent \ {c.run : c \in cards} :
       cards' = cards \cup {[run |-> r, accepted |-> FALSE]}
  /\ UNCHANGED <<pair, attempt, stage, cause, sent, taken, opened, hub>>

(* matchesIncomingWebappShareCardText: folder and sender are the same in   *)
(* every run, so every run's card fits.                                    *)
Matches == cards

(* Mutant: the first of several will do.                                   *)
FindShareCardFirst == Matches

(* findShareCard: the only one, or none.                                   *)
FindShareCard == IF Cardinality(Matches) = 1 THEN Matches ELSE {}

(* CERNBox: the first folder of the name, in whatever order.               *)
ReceivedFolder == cards

IsNextcloud == pair.receiver.platform = "nextcloud"

(* acceptIncomingWebappShare: Nextcloud's card has a button until it is    *)
(* accepted, and its click is answered.                                    *)
AcceptCard ==
  /\ stage = "shared" /\ IsNextcloud
  /\ \/ FindShareCard = {} /\ Fail("card") /\ UNCHANGED <<cards, taken>>
     \/ \E c \in FindShareCard :
          /\ ~c.accepted
          /\ cards' = (cards \ {c}) \cup {[run |-> c.run, accepted |-> TRUE]}
          /\ taken' = c.run
          /\ To("clicked")
     \/ FindShareCard # {} /\ Fail("product") /\ UNCHANGED <<cards, taken>>
  /\ UNCHANGED <<sent, opened, hub>>

(* The card is looked for once more and shows that it is accepted.         *)
SeeAccepted ==
  /\ stage = "clicked"
  /\ \/ FindShareCard = {} /\ Fail("card")
     \/ \E c \in FindShareCard : c.accepted /\ To("accepted")
  /\ UNCHANGED webappVars

(* CERNBox's helper only sees it listed.                                   *)
SeeFolder ==
  /\ stage = "shared" /\ ~IsNextcloud
  /\ \E c \in ReceivedFolder : taken' = c.run
  /\ To("accepted")
  /\ UNCHANGED <<sent, cards, opened, hub>>

(* The marker is taken between the acceptance and the launch.              *)
Mark ==
  /\ stage = "accepted"
  /\ CaptureMarker
  /\ To("marked")
  /\ UNCHANGED webappVars

(* assertHubLaunchOrigin.                                                  *)
IsHubLaunchOrigin(o) == o \notin {"none", "receiver"}

(* launchRemoteWebapp.                                                     *)
Launchable == IF IsNextcloud THEN {c \in FindShareCard : c.accepted}
              ELSE ReceivedFolder

Launch ==
  /\ stage = "marked"
  /\ \/ IsNextcloud /\ FindShareCard = {} /\ Fail("card") /\ UNCHANGED <<opened, hub>>
     \/ \E c \in Launchable, o \in HubOrigins :
          /\ hub' = o
          /\ \/ IsHubLaunchOrigin(o) /\ opened' = c.run /\ To("opened")
             \/ ~IsHubLaunchOrigin(o) /\ opened' = 0 /\ Fail("hub")
  /\ UNCHANGED <<sent, cards, taken>>

(* proveJupyterLabFromLaunchArtifact, at that origin; Nextcloud and        *)
(* CERNBox expect no legs of the launch in the log.                        *)
Prove ==
  /\ stage = "opened" /\ hub = "hub"
  /\ To("passed")
  /\ UNCHANGED webappVars

TimeOut ==
  /\ stage \notin Ended /\ Fail("timeout")
  /\ UNCHANGED webappVars

(* The spec again, on the same servers and the same log.                   *)
Again ==
  /\ stage = "failed" /\ attempt < MaxAttempts
  /\ attempt' = attempt + 1 /\ stage' = "new" /\ cause' = None
  /\ taken' = 0 /\ opened' = 0 /\ hub' = "none"
  /\ UNCHANGED <<pair, sent, cards>>

PageStep ==
  \/ PrepareFolder \/ SubmitShare \/ DeliverCard \/ AcceptCard \/ SeeAccepted
  \/ SeeFolder \/ Launch \/ Prove \/ TimeOut \/ Again

Next ==
  \/ PageStep /\ UNCHANGED logVars
  \/ Mark
  \/ Addon /\ UNCHANGED <<pair, attempt, stage, cause, webappVars>>

Spec == Init /\ [][Next]_vars

-----------------------------------------------------------------------------
(* The page lists its cards anew before each click, and more may have come *)
(* in between; the share that is opened is still the one that was accepted.*)
OpenedWhatItAccepted ==
  (IsNextcloud /\ opened # 0) =>
    /\ opened = taken
    /\ [run |-> opened, accepted |-> TRUE] \in cards

=============================================================================
