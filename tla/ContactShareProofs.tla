------------------------- MODULE ContactShareProofs --------------------------
(***************************************************************************)
(* Two platforms that exchange an invitation and a share implement the     *)
(* contract of Handshake, for every pair of adapters, any number of runs   *)
(* on the same servers and any of Nextcloud's dialogs; and a run goes on   *)
(* with its own invitation and passes with its own file.                   *)
(***************************************************************************)
EXTENDS ContactShare, SequenceTheorems, WellFoundedInduction, TLAPS

(* Stages that follow the copying of an invitation.                        *)
Handing == {"copied", "followed", "accepting", "accepted"}

Trust == First = "verified" \/ contacts # {}

Typed ==
  /\ attempt \in 1..MaxAttempts
  /\ invites \in Seq(1..MaxAttempts)

(* What is handed over, or being accepted, was an invitation of the server.*)
Invited ==
  (shown # <<>> \/ stage \in Handing \/ accepting = "sent") => invites # <<>>

(* A share is prepared, sent or delivered between servers with trust only. *)
Trusted ==
  /\ rows \subseteq contacts
  /\ (stage \in {"verified"} \cup ShareStages \/ sending = "sent") => Trust
  /\ outgoing # {} => Trust

Delivered ==
  /\ pending \subseteq outgoing /\ mounted \subseteq outgoing
  /\ syncing \subseteq outgoing
  /\ stage = "passed" => mounted # {}

Inv == Typed /\ Invited /\ Trusted /\ Delivered

world == <<pair, invites, contacts, outgoing, mounted>>

USE AttemptsAssumption

-----------------------------------------------------------------------------
LEMMA Pushed ==
  ASSUME NEW s \in Seq(1..MaxAttempts), NEW x \in 1..MaxAttempts
  PROVE  <<x>> \o s \in Seq(1..MaxAttempts) /\ <<x>> \o s # <<>>
<1>1. <<x>> \in Seq(1..MaxAttempts) /\ Len(<<x>>) = 1
  OBVIOUS
<1>2. <<x>> \o s \in Seq(1..MaxAttempts) /\ Len(<<x>> \o s) = 1 + Len(s)
  BY <1>1, ConcatProperties
<1>3. Len(s) \in Nat /\ Len(<<>>) = 0
  BY LenProperties, EmptySeq
<1>4. QED
  BY <1>2, <1>3

LEMMA ReachedRange == Reached \in 0..4
  BY DEF Reached

(* Nothing the contract speaks of has changed.                             *)
LEMMA Stutters ==
  ASSUME UNCHANGED world,
         stage' = stage \/ (stage \notin Ended /\ stage' \notin Ended)
  PROVE  UNCHANGED <<Reached, Verdict>>
<1>1. Reached' = Reached
  BY DEF world, Reached, First
<1>2. Verdict' = Verdict
  BY DEF Verdict
<1>3. QED
  BY <1>1, <1>2

LEMMA GivesUp ==
  ASSUME UNCHANGED world, stage \notin Ended, stage' = "failed"
  PROVE  Contract!Next
<1>1. Reached' = Reached
  BY DEF world, Reached, First
<1>2. Verdict = "open" /\ Verdict' = "failed"
  BY DEF Verdict, Ended
<1>3. QED
  BY <1>1, <1>2 DEF Contract!Next, Contract!GiveUp

LEMMA Advances ==
  ASSUME Reached' \in {Reached, Reached + 1}, Verdict' = Verdict
  PROVE  [Contract!Next]_<<Reached, Verdict>>
<1>1. CASE Reached' = Reached
  BY <1>1
<1>2. CASE Reached' = Reached + 1
  <2>1. Reached < 4
    BY <1>2, ReachedRange DEF Reached
  <2>2. Contract!Progress
    BY <1>2, <2>1 DEF Contract!Progress, Contract!Steps
  <2>3. QED
    BY <2>2 DEF Contract!Next
<1>3. QED
  BY <1>1, <1>2

(* A step of a test that changes nothing at the servers.                   *)
Quiet ==
  /\ UNCHANGED world
  /\ \/ stage' = stage
     \/ stage \notin Ended /\ stage' \notin Ended
     \/ stage \notin Ended /\ stage' = "failed"

LEMMA QuietSteps == Quiet => [Contract!Next]_<<Reached, Verdict>>
  BY Stutters, GivesUp DEF Quiet

-----------------------------------------------------------------------------
LEMMA InitInv == Init => Inv /\ Contract!Init
<1> SUFFICES ASSUME Init PROVE Inv /\ Contract!Init
  OBVIOUS
<1> USE DEF Init, InviteInit, ShareInit
<1>1. Typed
  BY DEF Typed
<1>2. Invited /\ Trusted /\ Delivered
  BY DEF Invited, Handing, Trusted, Trust, Delivered, First, ShareStages
<1>3. Reached \in {0, 2} /\ Verdict = "open"
  BY DEF Reached, First, Verdict, Ended
<1>4. QED
  BY <1>1, <1>2, <1>3 DEF Inv, Contract!Init, Contract!Steps

(* The sender's and receiver's tests up to the contact.                    *)
LEMMA InviteTestInv ==
  ASSUME Inv, InviteTest, UNCHANGED shareVars
  PROVE  Inv' /\ Quiet
<1> USE DEF Inv, Typed, Invited, Trusted, Trust, Delivered, Quiet, world, Handing,
            To, Fail, Ended, shareVars, First
<1>1. CASE Generate
  BY <1>1 DEF Generate, ShareStages
<1>2. CASE Copy
  BY <1>2 DEF Copy, ReadyToCopy, Listed, inviteVars, ShareStages
<1>3. CASE FollowLink
  BY <1>3 DEF FollowLink, ShareStages
<1>4. CASE ClickAccept
  BY <1>4 DEF ClickAccept, ShareStages
<1>5. CASE TakeUrl
  BY <1>5 DEF TakeUrl, ShareStages
<1>6. CASE Verify
  <2>1. contacts # {}
    BY <1>6 DEF Verify, Seen, HasRow
  <2>2. QED
    BY <1>6, <2>1 DEF Verify, inviteVars, ShareStages
<1>7. QED
  BY <1>1, <1>2, <1>3, <1>4, <1>5, <1>6 DEF InviteTest

(* The servers and the pages that show what they hold.                     *)
LEMMA InviteServerInv ==
  ASSUME Inv, InviteServer, UNCHANGED shareVars
  PROVE  Inv' /\ Reached' \in {Reached, Reached + 1} /\ Verdict' = Verdict
<1> USE DEF Inv, Typed, Invited, Trusted, Trust, Delivered, Handing, shareVars, First
<1>1. CASE ServerCreates
  <2> USE <1>1 DEF ServerCreates
  <2>1. invites' = invites \/ (invites' \in Seq(1..MaxAttempts) /\ invites' # <<>>)
    BY Pushed
  <2>2. Inv'
    BY <2>1
  <2>3. Reached' \in {Reached, Reached + 1} /\ Verdict' = Verdict
    BY <2>1, SMTT(20) DEF Reached, Verdict
  <2>4. QED
    BY <2>2, <2>3
<1>2. CASE ListRefreshes
  BY <1>2 DEF ListRefreshes, Reached, Verdict
<1>3. CASE ServerAccepts
  <2> USE <1>3 DEF ServerAccepts
  <2>1. Inv'
    OBVIOUS
  <2>2. Reached' \in {Reached, Reached + 1} /\ Verdict' = Verdict
    BY DEF Reached, Verdict
  <2>3. QED
    BY <2>1, <2>2
<1>4. CASE RowsRefresh
  BY <1>4 DEF RowsRefresh, Reached, Verdict
<1>5. CASE PageMoves
  BY <1>5 DEF PageMoves, Reached, Verdict
<1>6. QED
  BY <1>1, <1>2, <1>3, <1>4, <1>5 DEF InviteServer

LEMMA ShareServerInv ==
  ASSUME Inv, ShareServer, UNCHANGED inviteVars
  PROVE  Inv' /\ Reached' \in {Reached, Reached + 1} /\ Verdict' = Verdict
<1> USE DEF Inv, Typed, Invited, Trusted, Trust, Delivered, Handing, inviteVars, First
<1>1. CASE ServerShares
  <2> USE <1>1 DEF ServerShares
  <2>1. outgoing \subseteq outgoing'
    OBVIOUS
  <2>2. Inv'
    BY <2>1
  <2>3. Reached' \in {Reached, Reached + 1} /\ Verdict' = Verdict
    BY <2>1 DEF Reached, Verdict
  <2>4. QED
    BY <2>2, <2>3
<1>2. CASE Deliver
  BY <1>2 DEF Deliver, Reached, Verdict
<1>3. CASE ServerSyncs
  <2> USE <1>3 DEF ServerSyncs
  <2>1. /\ mounted \subseteq mounted' /\ mounted' \subseteq outgoing
        /\ pending' \subseteq pending /\ syncing' \subseteq syncing
    OBVIOUS
  <2>2. Inv'
    BY <2>1
  <2>3. Reached' \in {Reached, Reached + 1} /\ Verdict' = Verdict
    BY <2>1 DEF Reached, Verdict
  <2>4. QED
    BY <2>2, <2>3
<1>4. QED
  BY <1>1, <1>2, <1>3 DEF ShareServer

(* The tests from the file to its content: only the two that accept a      *)
(* share change what the servers have got to.                              *)
Accepting == AcceptListed \/ AddAndReload

LEMMA AcceptingInv ==
  ASSUME Inv, Accepting, UNCHANGED inviteVars
  PROVE  Inv' /\ Reached' \in {Reached, Reached + 1} /\ Verdict' = Verdict
<1> USE DEF Inv, Typed, Invited, Trusted, Trust, Delivered, Handing, inviteVars, First,
            To, ShareStages, Ended
<1>1. CASE AcceptListed
  <2> USE <1>1 DEF AcceptListed, Incoming
  <2>1. mounted \subseteq mounted' /\ mounted' \subseteq outgoing
    OBVIOUS
  <2>2. Inv'
    BY <2>1
  <2>3. Reached' \in {Reached, Reached + 1} /\ Verdict' = Verdict
    BY <2>1 DEF Reached, Verdict
  <2>4. QED
    BY <2>2, <2>3
<1>2. CASE AddAndReload
  <2> USE <1>2 DEF AddAndReload
  <2>1. mounted \subseteq mounted' /\ mounted' \subseteq outgoing
    OBVIOUS
  <2>2. Inv'
    BY <2>1
  <2>3. Reached' \in {Reached, Reached + 1} /\ Verdict' = Verdict
    BY <2>1 DEF Reached, Verdict
  <2>4. QED
    BY <2>2, <2>3
<1>3. QED
  BY <1>1, <1>2 DEF Accepting

LEMMA ShareTestInv ==
  ASSUME Inv, ShareTest, UNCHANGED inviteVars, ~Accepting, ~ReadContent
  PROVE  Inv' /\ Quiet
<1> USE DEF Inv, Typed, Invited, Trusted, Trust, Delivered, Quiet, world, Handing,
            To, Fail, Ended, inviteVars, First, ShareStages
<1>1. CASE Prepare
  BY <1>1 DEF Prepare, RenameFile, CreateFile, PutFile
<1>2. CASE SaveText
  BY <1>2 DEF SaveText, shareVars
<1>3. CASE ChooseRecipient
  BY <1>3 DEF ChooseRecipient
<1>4. CASE SendShare
  BY <1>4 DEF SendShare
<1>5. CASE Answered
  BY <1>5 DEF Answered, shareVars
<1>6. CASE VerifyShared
  BY <1>6 DEF VerifyShared, shareVars
<1>7. CASE OpenFiles
  BY <1>7 DEF OpenFiles
<1>8. CASE PollDialog
  BY <1>8 DEF PollDialog, shareVars
<1>9. CASE FindFile
  BY <1>9 DEF FindFile, shareVars
<1>10. CASE EnableSync
  BY <1>10 DEF EnableSync
<1>11. QED
  BY <1>1, <1>2, <1>3, <1>4, <1>5, <1>6, <1>7, <1>8, <1>9, <1>10 DEF ShareTest, Accepting

(* A run passes once its receiver's server has an accepted share.          *)
LEMMA ReadContentInv ==
  ASSUME Inv, ReadContent, UNCHANGED inviteVars
  PROVE  Inv' /\ Contract!Next
<1> USE DEF Inv, Typed, Invited, Trusted, Trust, Delivered, Handing, inviteVars, First,
            ReadContent, To, ShareStages
<1>1. Inv'
  OBVIOUS
<1>2. Reached = 4 /\ Reached' = 4
  BY DEF Reached
<1>3. Verdict = "open" /\ Verdict' = "passed"
  BY DEF Verdict, Ended
<1>4. Contract!Pass
  BY <1>2, <1>3 DEF Contract!Pass, Contract!Steps
<1>5. QED
  BY <1>1, <1>4 DEF Contract!Next

(* The spec again: at most one request of the old run is still carried out *)
(* that the contract can tell.                                             *)
LEMMA AgainInv ==
  ASSUME Inv, Again
  PROVE  Inv' /\ Contract!Next
<1> USE DEF Inv, Typed, Invited, Trusted, Trust, Delivered, Handing, First, Again
<1>1. /\ invites' = invites \/ (invites' \in Seq(1..MaxAttempts) /\ invites' # <<>>)
      /\ shown' = <<>> /\ accepting' = "none" /\ rows' = {}
  BY Pushed DEF InviteAgain
<1>2. /\ contacts \subseteq contacts'
      /\ contacts' # contacts => invites # <<>>
  BY DEF InviteAgain
<1>3. /\ outgoing \subseteq outgoing' /\ sending' = "none"
      /\ outgoing' # outgoing => Trust
      /\ UNCHANGED <<pending, mounted, syncing>>
  BY DEF ShareAgain
<1>4. UNCHANGED pair /\ stage = "failed" /\ stage' \in {"new", "verified"}
      /\ attempt' \in 1..MaxAttempts
  OBVIOUS
<1>5. Inv'
  BY <1>1, <1>2, <1>3, <1>4 DEF ShareStages
<1>6. Reached' \in {Reached, Reached + 1}
  BY <1>1, <1>2, <1>3, <1>4 DEF Reached
<1>7. Reached' <= 4
  BY DEF Reached
<1>8. Verdict = "failed" /\ Verdict' = "open"
  BY <1>4 DEF Verdict, Ended
<1>9. Contract!Restart
  BY <1>6, <1>7, <1>8 DEF Contract!Restart, Contract!Steps
<1>10. QED
  BY <1>5, <1>9 DEF Contract!Next

LEMMA TimeOutInv ==
  ASSUME Inv, TimeOut
  PROVE  Inv' /\ Quiet
  BY DEF Inv, Typed, Invited, Trusted, Trust, Delivered, Quiet, world, Handing,
         Fail, Ended, inviteVars, shareVars, First, ShareStages, TimeOut

LEMMA StepInv ==
  ASSUME Inv, [Next]_vars
  PROVE  Inv' /\ [Contract!Next]_<<Reached, Verdict>>
<1>1. CASE UNCHANGED vars
  <2>1. Inv'
    BY <1>1 DEF vars, inviteVars, shareVars, Inv, Typed, Invited, Trusted, Trust,
                Delivered, Handing, First
  <2>2. UNCHANGED <<Reached, Verdict>>
    BY <1>1, Stutters DEF vars, inviteVars, shareVars, world
  <2>3. QED
    BY <2>1, <2>2
<1>2. CASE InviteTest /\ UNCHANGED shareVars
  BY <1>2, InviteTestInv, QuietSteps
<1>3. CASE ShareTest /\ UNCHANGED inviteVars
  <2>1. CASE Accepting
    BY <1>3, <2>1, AcceptingInv, Advances
  <2>2. CASE ReadContent
    BY <1>3, <2>2, ReadContentInv
  <2>3. CASE ~Accepting /\ ~ReadContent
    BY <1>3, <2>3, ShareTestInv, QuietSteps
  <2>4. QED
    BY <2>1, <2>2, <2>3
<1>4. CASE InviteServer /\ UNCHANGED shareVars
  BY <1>4, InviteServerInv, Advances
<1>5. CASE ShareServer /\ UNCHANGED inviteVars
  BY <1>5, ShareServerInv, Advances
<1>6. CASE TimeOut
  BY <1>6, TimeOutInv, QuietSteps
<1>7. CASE Again
  BY <1>7, AgainInv
<1>8. QED
  BY <1>1, <1>2, <1>3, <1>4, <1>5, <1>6, <1>7 DEF Next, TestStep, ServerStep

(* Whatever the pages show and whichever requests are lost or late, the    *)
(* servers go from invitation to trust to share to receipt, and no run     *)
(* passes before they have arrived.                                        *)
THEOREM AdaptersKeepTheContract == Spec => KeepsTheContract
<1>1. Inv /\ [Next]_vars => Inv' /\ [Contract!Next]_<<Reached, Verdict>>
  BY StepInv
<1>2. QED
  BY <1>1, InitInv, PTL DEF Spec, KeepsTheContract, Contract!Spec

-----------------------------------------------------------------------------
(* Type correctness, with what it takes for the types to last: an item     *)
(* under way has been named, and a dialog is only taken on if one is left. *)
Named ==
  /\ (stage \in {"copied", "followed", "accepting"} \/ accepting = "sent") => handed.id # 0
  /\ stage \in {"creating", "accepting"} => pair.flow \in InviteFlows
  /\ stage = "new" => First = "new"
  /\ stage = "adding" => left > 0
  /\ stage = "followed" => pair.flow = "contact-wayf"

TypeInv == TypeOK /\ Named

LEMMA MinIsIn ==
  ASSUME NEW S, S \subseteq Nat, S # {}
  PROVE  Min(S) \in S
<1>1. \E x \in S : \A y \in S : ~(<<y, x>> \in OpToRel(<, Nat))
  BY NatLessThanWellFounded, WFMin, Zenon
<1>2. \A x, y \in Nat : ~(<<y, x>> \in OpToRel(<, Nat)) => x <= y
  BY DEF OpToRel
<1>3. \E x \in S : \A y \in S : x <= y
  BY <1>1, <1>2
<1>4. QED
  BY <1>3 DEF Min

(* The adapters the registry has for a contact are those of InviteExchange.*)
LEMMA SenderForm ==
  ASSUME NEW ref, Resolves(contactTokenSenderAdapters, ref)
                  \/ Resolves(contactWayfSenderAdapters, ref)
  PROVE  ContactAdapter(ref).creates.form \in Forms
<1>1. \/ ref.platform = "nextcloud" /\ ref.versionLine \in {"v34", "v35"}
      \/ ref.platform \in {"ocis", "opencloud", "cernbox"}
  BY DEF Resolves, contactTokenSenderAdapters, contactWayfSenderAdapters
<1>2. CASE ref.platform = "nextcloud" /\ ref.versionLine = "v34"
  BY <1>2 DEF ContactAdapter, nextcloudV34, nextcloudInvites, Forms
<1>3. CASE ref.platform = "nextcloud" /\ ref.versionLine = "v35"
  BY <1>3 DEF ContactAdapter, nextcloudV35, nextcloudV35Invites, Forms
<1>4. CASE ref.platform \in {"ocis", "opencloud", "cernbox"}
  BY <1>4 DEF ContactAdapter, ocisV8, opencloudV6, cernboxV11, ocisInvites,
              opencloudInvites, cernboxInvites, Forms
<1>5. QED
  BY <1>1, <1>2, <1>3, <1>4

Sources == {"body", "location", "token"}

LEMMA ReceiverSource ==
  ASSUME NEW ref, Resolves(contactTokenReceiverAdapters, ref)
  PROVE  ContactAdapter(ref).accepts.from \in Sources
<1>1. \/ ref.platform = "nextcloud" /\ ref.versionLine \in {"v34", "v35"}
      \/ ref.platform \in {"ocis", "opencloud", "cernbox"}
  BY DEF Resolves, contactTokenReceiverAdapters
<1>2. CASE ref.platform = "nextcloud" /\ ref.versionLine = "v34"
  BY <1>2 DEF ContactAdapter, nextcloudV34, nextcloudV34Accepts, Sources
<1>3. CASE ref.platform = "nextcloud" /\ ref.versionLine = "v35"
  BY <1>3 DEF ContactAdapter, nextcloudV35, nextcloudV35Accepts, Sources
<1>4. CASE ref.platform \in {"ocis", "opencloud", "cernbox"}
  BY <1>4 DEF ContactAdapter, ocisV8, opencloudV6, cernboxV11, ocisAccepts,
              opencloudAccepts, cernboxAccepts, Sources
<1>5. QED
  BY <1>1, <1>2, <1>3, <1>4

LEMMA WayfSource ==
  ASSUME NEW ref, Resolves(contactWayfReceiverAdapters, ref)
  PROVE  ContactAdapter(ref).redirect.from \in Sources
<1>1. ref.platform = "nextcloud" /\ ref.versionLine \in {"v34", "v35"}
  BY DEF Resolves, contactWayfReceiverAdapters
<1>2. CASE ref.versionLine = "v34"
  BY <1>1, <1>2 DEF ContactAdapter, nextcloudV34, nextcloudV34AcceptsRedirect, Sources
<1>3. CASE ref.versionLine = "v35"
  BY <1>1, <1>3 DEF ContactAdapter, nextcloudV35, nextcloudV35AcceptsRedirect, Sources
<1>4. QED
  BY <1>1, <1>2, <1>3

LEMMA AdaptersTyped ==
  ASSUME pair \in Pairs, pair.flow \in InviteFlows
  PROVE  Creates.form \in Forms /\ Confirms.from \in Sources
<1>1. Supports(pair.flow, "sender", pair.sender)
      /\ Supports(pair.flow, "receiver", pair.receiver)
  BY PairsAssumption
<1>2. CASE pair.flow = "contact-token"
  <2>1. /\ Resolves(contactTokenSenderAdapters, pair.sender)
        /\ Resolves(contactTokenReceiverAdapters, pair.receiver)
    BY <1>1, <1>2 DEF Supports, Needs
  <2>2. QED
    BY <1>2, <2>1, SenderForm, ReceiverSource DEF Creates, Confirms, Accepts
<1>3. CASE pair.flow = "contact-wayf"
  <2>1. /\ Resolves(contactWayfSenderAdapters, pair.sender)
        /\ Resolves(contactWayfReceiverAdapters, pair.receiver)
    BY <1>1, <1>3 DEF Supports, Needs
  <2>2. QED
    BY <1>3, <2>1, SenderForm, WayfSource DEF Creates, Confirms
<1>4. QED
  BY <1>2, <1>3 DEF InviteFlows

(* Every platform with a login picks its recipients in a known way.        *)
LEMMA SelectableTyped ==
  ASSUME pair \in Pairs, NEW first \in Findable, NEW second \in Findable
  PROVE  Selectable(first, second) \subseteq Recipients
<1> DEFINE p == pair.sender.platform
<1>1. loginAdapters \in Needs(pair.flow, "sender")
  BY PairsAssumption DEF Needs, InviteFlows
<1>2. Resolves(loginAdapters, pair.sender)
  BY <1>1, PairsAssumption DEF Supports
<1>3. p \in {"nextcloud", "ocmgo", "ocis", "opencloud", "cernbox"}
  BY <1>2 DEF Resolves, loginAdapters
<1>4. Shares.shares.picks \in {"typed", "host", "best"}
  <2>1. CASE p = "nextcloud"
    BY <2>1 DEF Shares, ShareAdapter, nextcloudShare, nextcloudShares
  <2>2. CASE p = "ocis"
    BY <2>2 DEF Shares, ShareAdapter, ocisShare, ocisShares
  <2>3. CASE p = "opencloud"
    BY <2>3 DEF Shares, ShareAdapter, opencloudShare, opencloudShares
  <2>4. CASE p = "cernbox"
    BY <2>4 DEF Shares, ShareAdapter, cernboxShare, cernboxShares
  <2>5. CASE p = "ocmgo"
    BY <2>5 DEF Shares, ShareAdapter, ocmgoShare, ocmgoShares
  <2>6. QED
    BY <1>3, <2>1, <2>2, <2>3, <2>4, <2>5
<1>5. QED
  BY <1>4 DEF Selectable, PickBest, Findable, Recipients

LEMMA InitTyped == Init => TypeInv
<1> SUFFICES ASSUME Init PROVE TypeInv
  OBVIOUS
<1> USE AttemptsAssumption, DialogsAssumption DEF Init, First
<1>1. InviteTypeOK
  BY DEF InviteInit, InviteTypeOK, Requests, Nothing, Forms, Places, Routes
<1>2. ShareTypeOK
  BY DEF ShareInit, ShareTypeOK, Recipients
<1>3. stage \in InviteStages /\ cause = None /\ attempt \in 1..MaxAttempts
  BY DEF InviteStages
<1>4. Named
  BY DEF Named, InviteInit
<1>5. QED
  BY <1>1, <1>2, <1>3, <1>4 DEF TypeInv, TypeOK

LEMMA HeadIsIn ==
  ASSUME NEW s \in Seq(1..MaxAttempts), s # <<>>
  PROVE  Head(s) \in 1..MaxAttempts
  BY HeadTailProperties

LEMMA HandedId ==
  ASSUME TypeInv, accepting = "sent"
  PROVE  handed.id \in 1..MaxAttempts
<1>1. handed.id \in 0..MaxAttempts /\ handed.id # 0
  BY DEF TypeInv, TypeOK, InviteTypeOK, Named
<1>2. QED
  BY <1>1

LEMMA InviteTestTyped ==
  ASSUME TypeInv, InviteTest, UNCHANGED shareVars
  PROVE  TypeInv'
<1> USE DEF TypeInv, TypeOK, InviteTypeOK, ShareTypeOK, Named, To, Fail, Ended,
            InviteStages, ShareStages, shareVars, First
<1>1. CASE Generate
  BY <1>1 DEF Generate, Requests
<1>2. CASE Copy
  <2>1. CASE Fail("product") /\ UNCHANGED inviteVars
    BY <2>1 DEF inviteVars
  <2>2. CASE ReadyToCopy /\ ~(Fail("product") /\ UNCHANGED inviteVars)
    <3>1. Listed \in Seq(1..MaxAttempts) /\ Listed # <<>>
      BY <2>2 DEF Listed, ReadyToCopy
    <3>2. Head(Listed) \in 1..MaxAttempts
      BY <3>1, HeadIsIn
    <3>3. pair.flow \in InviteFlows /\ Creates.form \in Forms
      BY <1>2, AdaptersTyped DEF Copy
    <3>4. handed' \in [id : 0..MaxAttempts, form : Forms, place : Places]
          /\ handed'.id # 0
      BY <1>2, <2>2, <3>2, <3>3 DEF Copy, Places
    <3>5. QED
      BY <1>2, <2>2, <3>1, <3>4 DEF Copy
  <2>3. QED
    BY <1>2, <2>1, <2>2 DEF Copy
<1>3. CASE FollowLink
  <2>1. handed' \in [id : 0..MaxAttempts, form : Forms, place : Places]
        /\ handed'.id = handed.id
    BY <1>3 DEF FollowLink
  <2>2. QED
    BY <1>3, <2>1 DEF FollowLink
<1>4. CASE ClickAccept
  <2>1. pair.flow \in InviteFlows
    BY <1>4 DEF ClickAccept, InviteFlows
  <2>2. CASE Understood
    <3>1. /\ stage' = "accepting" /\ accepting' = "sent" /\ rows' = contacts
          /\ route' \in {"dialog", "invites"} /\ handed.id # 0
          /\ UNCHANGED <<pair, attempt, cause, invites, shown, creating, handed,
                         contacts, url>>
      BY <1>4, <2>2 DEF ClickAccept
    <3>2. InviteTypeOK'
      BY <3>1 DEF Requests, Routes
    <3>3. Named' /\ ShareTypeOK'
      BY <2>1, <3>1
    <3>4. QED
      BY <3>1, <3>2, <3>3
  <2>3. CASE ~Understood
    <3>1. /\ stage' = "failed" /\ cause' = "form"
          /\ UNCHANGED <<pair, attempt, invites, shown, creating, handed, accepting,
                         contacts, rows, route, url>>
      BY <1>4, <2>3 DEF ClickAccept
    <3>2. QED
      BY <3>1
  <2>4. QED
    BY <2>2, <2>3
<1>5. CASE TakeUrl
  <2>1. Confirms.from \in Sources
    BY <1>5, AdaptersTyped DEF TakeUrl
  <2>2. Taken \in Routes \cup {"domain"}
    BY <2>1 DEF Taken, Sources, Routes
  <2>3. QED
    BY <1>5, <2>2 DEF TakeUrl
<1>6. CASE Verify
  BY <1>6 DEF Verify, inviteVars
<1>7. QED
  BY <1>1, <1>2, <1>3, <1>4, <1>5, <1>6 DEF InviteTest

LEMMA InviteServerTyped ==
  ASSUME TypeInv, InviteServer, UNCHANGED shareVars
  PROVE  TypeInv'
<1> USE DEF TypeInv, TypeOK, InviteTypeOK, ShareTypeOK, Named, Requests, Routes,
            shareVars, First
<1>1. CASE ServerCreates
  <2>1. invites' \in Seq(1..MaxAttempts)
    BY <1>1, Pushed DEF ServerCreates
  <2>2. /\ creating' \in {"refused", "done"}
        /\ UNCHANGED <<pair, attempt, stage, cause, shown, handed, accepting, contacts,
                       rows, route, url>>
    BY <1>1 DEF ServerCreates
  <2>3. (pair \in Pairs /\ Named /\ ShareTypeOK)'
    <3>1. pair \in Pairs /\ Named /\ ShareTypeOK
      OBVIOUS
    <3> HIDE DEF TypeInv, TypeOK, InviteTypeOK
    <3>2. QED
      BY <2>2, <3>1
  <2>4. (/\ attempt \in 1..MaxAttempts
         /\ stage \in InviteStages \cup ShareStages \cup Ended
         /\ cause \in {None, "product", "timeout", "form", "rerun", "dialog"})'
    BY <2>2
  <2>5. InviteTypeOK'
    BY <2>1, <2>2
  <2>6. QED
    BY <2>3, <2>4, <2>5
<1>2. CASE ListRefreshes
  BY <1>2 DEF ListRefreshes
<1>3. CASE ServerAccepts
  <2>1. handed.id \in 1..MaxAttempts
    BY <1>3, HandedId DEF ServerAccepts
  <2>2. contacts' \subseteq 1..MaxAttempts
    BY <1>3, <2>1 DEF ServerAccepts
  <2>3. accepting' \in {"done", "refused"}
    BY <1>3 DEF ServerAccepts
  <2>4. QED
    BY <1>3, <2>2, <2>3 DEF ServerAccepts
<1>4. CASE RowsRefresh
  BY <1>4 DEF RowsRefresh
<1>5. CASE PageMoves
  BY <1>5 DEF PageMoves
<1>6. QED
  BY <1>1, <1>2, <1>3, <1>4, <1>5 DEF InviteServer

LEMMA ShareServerTyped ==
  ASSUME TypeInv, ShareServer, UNCHANGED inviteVars
  PROVE  TypeInv'
<1> USE DEF TypeInv, TypeOK, InviteTypeOK, ShareTypeOK, Named, inviteVars, First
<1>1. CASE ServerShares
  <2>1. /\ outgoing \subseteq outgoing' /\ outgoing' \subseteq 1..MaxAttempts
        /\ elsewhere' \subseteq 1..MaxAttempts
        /\ sending' \in {"refused", "done"}
    BY <1>1 DEF ServerShares
  <2>2. QED
    BY <1>1, <2>1 DEF ServerShares
<1>2. CASE Deliver
  BY <1>2 DEF Deliver
<1>3. CASE ServerSyncs
  <2>1. /\ pending' \subseteq outgoing /\ mounted' \subseteq outgoing
        /\ syncing' \subseteq outgoing
    BY <1>3 DEF ServerSyncs
  <2>2. /\ UNCHANGED <<pair, attempt, stage, cause, inviteVars>>
        /\ UNCHANGED <<source, file, chosen, sending, outgoing, elsewhere, left, compared>>
    BY <1>3 DEF ServerSyncs
  <2>3. ShareTypeOK'
    BY <2>1, <2>2
  <2> HIDE DEF ShareTypeOK
  <2>4. QED
    BY <2>2, <2>3
<1>4. QED
  BY <1>1, <1>2, <1>3 DEF ShareServer

LEMMA ShareTestTyped ==
  ASSUME TypeInv, Delivered, ShareTest, UNCHANGED inviteVars
  PROVE  TypeInv'
<1> USE DialogsAssumption
    DEF TypeInv, TypeOK, InviteTypeOK, ShareTypeOK, Named, To, Fail, Ended,
        InviteStages, ShareStages, inviteVars, First
<1>1. CASE Prepare
  <2>1. /\ source' \in BOOLEAN /\ file' \in 0..MaxAttempts
        /\ stage' \in {"prepared", "writing", "failed"}
        /\ cause' \in {cause, "rerun", "product"} /\ UNCHANGED <<pair, attempt>>
    <3>0. source \in BOOLEAN /\ file \in 0..MaxAttempts /\ attempt \in 0..MaxAttempts
      OBVIOUS
    <3> HIDE DEF TypeInv
    <3>1. CASE RenameFile
      BY <3>0, <3>1 DEF RenameFile
    <3>2. CASE CreateFile
      BY <3>0, <3>2 DEF CreateFile
    <3>3. CASE PutFile
      BY <3>0, <3>3 DEF PutFile
    <3>4. QED
      BY <1>1, <3>1, <3>2, <3>3 DEF Prepare
  <2>2. UNCHANGED <<inviteVars, chosen, sending, outgoing, elsewhere, pending,
                    mounted, syncing, left, compared>>
    BY <1>1 DEF Prepare
  <2>3. ShareTypeOK' /\ InviteTypeOK'
    BY <2>1, <2>2
  <2>4. Named'
    BY <2>1, <2>2
  <2>5. QED
    BY <2>1, <2>3, <2>4
<1>2. CASE SaveText
  BY <1>2 DEF SaveText, shareVars
<1>3. CASE ChooseRecipient
  <2>1. PICK first, second \in Findable :
          \/ chosen' \in Selectable(first, second) /\ To("chosen")
          \/ Fail("product") /\ UNCHANGED chosen
    BY <1>3 DEF ChooseRecipient
  <2>2. Selectable(first, second) \subseteq Recipients
    BY SelectableTyped
  <2>3. QED
    BY <1>3, <2>1, <2>2 DEF ChooseRecipient
<1>4. CASE SendShare
  BY <1>4 DEF SendShare
<1>5. CASE Answered
  BY <1>5 DEF Answered, shareVars
<1>6. CASE VerifyShared
  BY <1>6 DEF VerifyShared, shareVars
<1>7. CASE AcceptListed
  BY <1>7 DEF AcceptListed, Incoming
<1>8. CASE OpenFiles
  BY <1>8 DEF OpenFiles
<1>9. CASE PollDialog
  BY <1>9 DEF PollDialog, shareVars
<1>10. CASE AddAndReload
  <2>1. left' \in 0..MaxDialogs
    BY <1>10 DEF AddAndReload, LeftAfter
  <2>2. QED
    BY <1>10, <2>1, ZenonT(30) DEF AddAndReload
<1>11. CASE FindFile
  BY <1>11 DEF FindFile, shareVars
<1>12. CASE ReadContent
  <2>1. mounted # {} /\ mounted \subseteq 1..MaxAttempts
    BY <1>12 DEF ReadContent
  <2>2. Min(mounted) \in mounted
    <3>1. mounted \subseteq Nat
      BY <2>1
    <3>2. QED
      BY <2>1, <3>1, MinIsIn
  <2>3. compared' \in 0..MaxAttempts
    BY <1>12, <2>1, <2>2 DEF ReadContent
  <2>4. QED
    BY <1>12, <2>3 DEF ReadContent
<1>13. CASE EnableSync
  BY <1>13 DEF EnableSync
<1>14. QED
  BY <1>1, <1>2, <1>3, <1>4, <1>5, <1>6, <1>7, <1>8, <1>9, <1>10, <1>11, <1>12, <1>13
     DEF ShareTest

LEMMA AgainTyped ==
  ASSUME TypeInv, Again
  PROVE  TypeInv'
<1> USE DEF TypeInv, TypeOK
<1>1. pair' \in Pairs /\ attempt' \in 1..MaxAttempts
      /\ stage' \in {"new", "verified"} /\ stage' = First' /\ cause' = None
  BY DEF Again, First
<1>2. InviteTypeOK'
  <2>1. invites' \in Seq(1..MaxAttempts)
    BY Pushed DEF Again, InviteAgain, InviteTypeOK
  <2>2. contacts' \subseteq 1..MaxAttempts
    BY HandedId DEF Again, InviteAgain, InviteTypeOK
  <2>3. <<>> \in Seq(1..MaxAttempts) /\ Nothing \in [id : 0..MaxAttempts, form : Forms, place : Places]
    BY EmptySeq DEF Nothing, Forms, Places
  <2>4. QED
    BY <2>1, <2>2, <2>3 DEF Again, InviteAgain, InviteTypeOK, Requests, Routes
<1>3. ShareTypeOK'
  <2>1. /\ outgoing \subseteq outgoing' /\ outgoing' \subseteq 1..MaxAttempts
        /\ elsewhere' \subseteq 1..MaxAttempts
    BY DEF Again, ShareAgain, ShareTypeOK
  <2>2. MaxDialogs \in 0..MaxDialogs /\ 0 \in 0..MaxAttempts
    BY DialogsAssumption
  <2>3. QED
    BY <2>1, <2>2 DEF Again, ShareAgain, ShareTypeOK
<1>4. Named'
  BY <1>1 DEF Named, Again, InviteAgain, First
<1>5. QED
  BY <1>1, <1>2, <1>3, <1>4 DEF InviteStages

LEMMA StepTyped ==
  ASSUME Inv, TypeInv, [Next]_vars
  PROVE  TypeInv'
<1>1. CASE UNCHANGED vars
  BY <1>1 DEF vars, inviteVars, shareVars, TypeInv, TypeOK, InviteTypeOK,
              ShareTypeOK, Named, First
<1>2. CASE TestStep
  BY <1>2, InviteTestTyped, ShareTestTyped DEF TestStep, Inv
<1>3. CASE ServerStep
  BY <1>3, InviteServerTyped, ShareServerTyped DEF ServerStep
<1>4. CASE TimeOut
  BY <1>4 DEF TimeOut, Fail, inviteVars, shareVars, TypeInv, TypeOK, InviteTypeOK,
              ShareTypeOK, Named, First, Ended
<1>5. CASE Again
  BY <1>5, AgainTyped
<1>6. QED
  BY <1>1, <1>2, <1>3, <1>4, <1>5 DEF Next

(* Whatever the adapters, each page and server holds what its code can put *)
(* there: the tokens are of runs there were, the invitation handed over is *)
(* one of the list, the URL a contact's, and a share is read only where    *)
(* there is one to be read.                                                *)
THEOREM ContactTypeCorrect == Spec => []TypeOK
<1>1. Init => Inv /\ TypeInv
  BY InitInv, InitTyped
<1>2. Inv /\ TypeInv /\ [Next]_vars => Inv' /\ TypeInv'
  BY StepInv, StepTyped
<1>3. TypeInv => TypeOK
  BY DEF TypeInv
<1>4. QED
  BY <1>1, <1>2, <1>3, PTL DEF Spec

-----------------------------------------------------------------------------
(* The adapters of a supported pair, as far as the safety of a run needs.  *)
LEMMA ReceiverPlatform ==
  ASSUME pair \in Pairs, pair.flow \in InviteFlows
  PROVE  \/ pair.receiver.platform = "nextcloud"
              /\ pair.receiver.versionLine \in {"v34", "v35"}
         \/ pair.flow = "contact-token"
              /\ pair.receiver.platform \in {"ocis", "opencloud", "cernbox"}
<1>1. Supports(pair.flow, "receiver", pair.receiver)
  BY PairsAssumption
<1>2. CASE pair.flow = "contact-token"
  <2>1. Resolves(contactTokenReceiverAdapters, pair.receiver)
    BY <1>1, <1>2 DEF Supports, Needs
  <2>2. QED
    BY <1>2, <2>1 DEF Resolves, contactTokenReceiverAdapters
<1>3. CASE pair.flow = "contact-wayf"
  <2>1. Resolves(contactWayfReceiverAdapters, pair.receiver)
    BY <1>1, <1>3 DEF Supports, Needs
  <2>2. QED
    BY <2>1 DEF Resolves, contactWayfReceiverAdapters
<1>4. QED
  BY <1>2, <1>3 DEF InviteFlows

LEMMA UrlsAreSpecific ==
  ASSUME pair \in Pairs, pair.flow \in InviteFlows, ReadyToTake
  PROVE  Taken \in {"contact", "domain"}
<1>1. Confirms.from \in Sources
  BY AdaptersTyped
<1>2. CASE Confirms.from = "location"
  <2>1. pair.receiver.platform = "nextcloud" /\ pair.receiver.versionLine = "v35"
    <3>1. CASE pair.receiver.platform = "nextcloud" /\ pair.receiver.versionLine = "v34"
      <4>1. ContactAdapter(pair.receiver) = nextcloudV34
        BY <3>1 DEF ContactAdapter
      <4>2. Confirms.from = "body"
        BY <4>1 DEF Confirms, Accepts, nextcloudV34, nextcloudV34Accepts,
                    nextcloudV34AcceptsRedirect
      <4>3. QED
        BY <1>2, <4>2
    <3>2. CASE pair.flow = "contact-token"
                 /\ pair.receiver.platform \in {"ocis", "opencloud", "cernbox"}
      <4>1. Confirms.from = "token"
        BY <3>2 DEF Confirms, Accepts, ContactAdapter, ocisV8, opencloudV6,
                    cernboxV11, ocisAccepts, opencloudAccepts, cernboxAccepts
      <4>2. QED
        BY <1>2, <4>1
    <3>3. QED
      BY <3>1, <3>2, ReceiverPlatform
  <2>2. ContactAdapter(pair.receiver).specific = {"contact"}
    BY <2>1 DEF ContactAdapter, nextcloudV35, nextcloudV35Specific
  <2>3. QED
    BY <1>2, <2>2 DEF ReadyToTake, Taken
<1>3. CASE Confirms.from \in {"body", "token"}
  BY <1>3 DEF Taken
<1>4. QED
  BY <1>1, <1>2, <1>3 DEF Sources

(* The page a contact is to be seen at is never one it was accepted on:    *)
(* assertContactSpecificUrl of v34 takes any route, but is not the source  *)
(* of the URL there (nextcloud/v34/contact-adapter.ts).                    *)
THEOREM UrlIsTheContacts == Spec => []AcceptedUrlIsTheContact
<1>1. Init => AcceptedUrlIsTheContact
  BY DEF Init, InviteInit, AcceptedUrlIsTheContact
<1>2. ASSUME TypeInv, AcceptedUrlIsTheContact, [Next]_vars
      PROVE  AcceptedUrlIsTheContact'
  <2>1. CASE TakeUrl
    <3>1. pair \in Pairs /\ pair.flow \in InviteFlows
      BY <1>2, <2>1 DEF TypeInv, TypeOK, Named, TakeUrl
    <3>2. CASE ReadyToTake
      <4>1. url' \in {url, "contact", "domain"}
        BY <2>1, <3>1, <3>2, UrlsAreSpecific DEF TakeUrl
      <4>2. QED
        BY <1>2, <4>1 DEF AcceptedUrlIsTheContact
    <3>3. CASE ~ReadyToTake
      BY <1>2, <2>1, <3>3 DEF TakeUrl, AcceptedUrlIsTheContact
    <3>4. QED
      BY <3>2, <3>3
  <2>2. CASE Again
    BY <2>2 DEF Again, InviteAgain, AcceptedUrlIsTheContact
  <2>3. CASE ~TakeUrl /\ ~Again
    <3>1. url' = url
      BY <1>2, <2>3 DEF Next, TestStep, ServerStep, TimeOut, InviteTest, InviteServer,
           Generate, Copy, FollowLink, ClickAccept, Verify, ServerCreates,
           ListRefreshes, ServerAccepts, RowsRefresh, PageMoves, inviteVars, vars
    <3>2. QED
      BY <1>2, <3>1 DEF AcceptedUrlIsTheContact
  <2>4. QED
    BY <2>1, <2>2, <2>3
<1>3. Init => Inv /\ TypeInv
  BY InitInv, InitTyped
<1>4. Inv /\ TypeInv /\ [Next]_vars => Inv' /\ TypeInv'
  BY StepInv, StepTyped
<1>5. TypeInv /\ AcceptedUrlIsTheContact /\ [Next]_vars => AcceptedUrlIsTheContact'
  BY <1>2
<1>6. QED
  BY <1>1, <1>3, <1>4, <1>5, PTL DEF Spec

-----------------------------------------------------------------------------
(* What a first run finds is new, and no token is in a form the next page  *)
(* cannot take.                                                            *)
Fresh ==
  attempt = 1 => /\ stage \in InviteStages => source /\ file = 0
                 /\ cause # "rerun"

Misunderstood == cause = "form"

LEMMA LinksAreParsed ==
  ASSUME pair \in Pairs, pair.flow = "contact-wayf"
  PROVE  /\ ContactAdapter(pair.sender).parses = Places
         /\ ContactAdapter(pair.receiver).parses = Places
<1>1. /\ Resolves(contactWayfSenderAdapters, pair.sender)
      /\ Resolves(contactWayfReceiverAdapters, pair.receiver)
  BY PairsAssumption DEF Supports, Needs
<1>2. ASSUME NEW ref, ref.platform = "nextcloud", ref.versionLine \in {"v34", "v35"}
      PROVE  ContactAdapter(ref).parses = Places
  <2>1. CASE ref.versionLine = "v34"
    BY <1>2, <2>1 DEF ContactAdapter, nextcloudV34, nextcloudV34Parses, Places
  <2>2. CASE ref.versionLine = "v35"
    BY <1>2, <2>2 DEF ContactAdapter, nextcloudV35, nextcloudV35Parses, Places
  <2>3. QED
    BY <1>2, <2>1, <2>2
<1>3. QED
  BY <1>1, <1>2 DEF Resolves, contactWayfSenderAdapters, contactWayfReceiverAdapters

LEMMA TokensAreTaken ==
  ASSUME pair \in Pairs, pair.flow = "contact-token", NEW form \in Forms
  PROVE  Accepts.types[form] \in Takes(pair.receiver)
<1>1. \/ pair.receiver.platform = "nextcloud"
           /\ pair.receiver.versionLine \in {"v34", "v35"}
      \/ pair.receiver.platform \in {"ocis", "opencloud", "cernbox"}
  BY ReceiverPlatform DEF InviteFlows
<1>2. CASE pair.receiver.platform = "cernbox"
  BY <1>2 DEF Accepts, ContactAdapter, cernboxV11, cernboxAccepts, EncodeForUi, Takes,
              Forms
<1>3. CASE pair.receiver.platform \in {"ocis", "opencloud"}
  BY <1>3 DEF Accepts, ContactAdapter, ocisV8, opencloudV6, ocisAccepts,
              opencloudAccepts, Takes
<1>4. CASE pair.receiver.platform = "nextcloud"
  BY <1>1, <1>4 DEF Accepts, ContactAdapter, nextcloudV34, nextcloudV35,
              nextcloudV34Accepts, nextcloudV35Accepts, Takes
<1>5. QED
  BY <1>1, <1>2, <1>3, <1>4

LEMMA FormsAreTaken ==
  ASSUME TypeInv, Misunderstood', ~Misunderstood, [Next]_vars
  PROVE  FALSE
<1> USE DEF Misunderstood
<1>1. CASE FollowLink
  <2>1. ContactAdapter(pair.sender).parses = Places
    BY <1>1, LinksAreParsed DEF FollowLink, TypeInv, TypeOK
  <2>2. QED
    BY <1>1, <2>1 DEF FollowLink, To
<1>2. CASE ClickAccept
  <2>1. CASE stage = "followed"
    <3>1. ContactAdapter(pair.receiver).parses = Places
      BY <2>1, LinksAreParsed DEF TypeInv, TypeOK, Named
    <3>2. Understood
      BY <2>1, <3>1 DEF Understood, TypeInv, TypeOK, InviteTypeOK
    <3>3. QED
      BY <1>2, <3>2 DEF ClickAccept, To
  <2>2. CASE stage # "followed"
    <3>1. Understood
      BY <1>2, <2>2, TokensAreTaken
         DEF ClickAccept, Understood, TypeInv, TypeOK, InviteTypeOK
    <3>2. QED
      BY <1>2, <3>1 DEF ClickAccept, To
  <2>3. QED
    BY <2>1, <2>2
<1>3. CASE InviteTest /\ ~FollowLink /\ ~ClickAccept
  BY <1>3 DEF InviteTest, Generate, Copy, TakeUrl, Verify, To, Fail
<1>4. CASE ShareTest
  BY <1>4 DEF ShareTest, Prepare, RenameFile, CreateFile, PutFile, SaveText,
       ChooseRecipient, SendShare, Answered, VerifyShared, AcceptListed, EnableSync,
       OpenFiles, PollDialog, AddAndReload, FindFile, ReadContent, To, Fail
<1>5. CASE ServerStep \/ TimeOut \/ Again \/ UNCHANGED vars
  BY <1>5 DEF ServerStep, InviteServer, ShareServer, ServerCreates, ListRefreshes,
       ServerAccepts, RowsRefresh, PageMoves, ServerShares, Deliver, ServerSyncs, TimeOut,
       Fail, Again, vars, None
<1>6. QED
  BY <1>1, <1>2, <1>3, <1>4, <1>5 DEF Next, TestStep

LEMMA FreshStays ==
  ASSUME TypeInv, Fresh, [Next]_vars
  PROVE  Fresh'
<1> USE DEF Fresh, To, Fail, InviteStages, ShareStages, Ended
<1>1. CASE InviteTest /\ UNCHANGED shareVars
  BY <1>1 DEF InviteTest, Generate, Copy, FollowLink, ClickAccept, TakeUrl, Verify,
       shareVars
<1>2. CASE Prepare
  <2>1. CASE RenameFile
    BY <1>2, <2>1 DEF Prepare, RenameFile
  <2>2. CASE CreateFile
    BY <1>2, <2>2 DEF Prepare, CreateFile, MustBeNew
  <2>3. CASE PutFile
    BY <1>2, <2>3 DEF Prepare, PutFile
  <2>4. QED
    BY <1>2, <2>1, <2>2, <2>3 DEF Prepare
<1>3. CASE ShareTest /\ ~Prepare
  BY <1>3 DEF ShareTest, SaveText, ChooseRecipient, SendShare, Answered, VerifyShared,
       AcceptListed, EnableSync, OpenFiles, PollDialog, AddAndReload, FindFile,
       ReadContent, shareVars
<1>4. CASE ServerStep \/ TimeOut \/ UNCHANGED vars
  BY <1>4 DEF ServerStep, InviteServer, ShareServer, ServerCreates, ListRefreshes,
       ServerAccepts, RowsRefresh, PageMoves, ServerShares, Deliver, ServerSyncs, TimeOut,
       inviteVars, shareVars, vars
<1>5. CASE Again
  <2>1. attempt' # 1
    BY <1>5 DEF Again, TypeInv, TypeOK
  <2>2. QED
    BY <2>1
<1>6. QED
  BY <1>1, <1>2, <1>3, <1>4, <1>5 DEF Next, TestStep

(* On a new stack no run fails for what the helpers do to each other: each *)
(* receiver takes every sender's token, and the file is not there yet.     *)
THEOREM FirstRunIsNotStuck == Spec => []NeverStuckOnItsOwn
<1>1. Init => Inv /\ TypeInv /\ Fresh /\ ~Misunderstood
  BY InitInv, InitTyped
     DEF Init, ShareInit, Fresh, Misunderstood, None, InviteStages
<1>2. Inv /\ TypeInv /\ [Next]_vars => Inv' /\ TypeInv'
  BY StepInv, StepTyped
<1>3. TypeInv /\ Fresh /\ ~Misunderstood /\ [Next]_vars
        => Fresh' /\ ~Misunderstood'
  BY FreshStays, FormsAreTaken
<1>4. Fresh /\ ~Misunderstood => NeverStuckOnItsOwn
  BY DEF Fresh, Misunderstood, NeverStuckOnItsOwn
<1>5. QED
  BY <1>1, <1>2, <1>3, <1>4, PTL DEF Spec

-----------------------------------------------------------------------------
(* What is known of invitations is of this run or an earlier one; where a  *)
(* helper awaits the answer and reads the list anew, its first entry is    *)
(* this run's.                                                             *)
Past ==
  /\ invites \in Seq(1..attempt) /\ shown \in Seq(1..attempt)
  /\ handed.id \in 0..attempt
  /\ rows \subseteq contacts /\ contacts \subseteq 1..attempt

NewestFirst == creating = "done" => invites # <<>> /\ Head(invites) = attempt

HandsOverItsOwn ==
  (pair.flow \in InviteFlows /\ AwaitsAnswers(pair.sender)
     /\ stage \in {"copied", "followed", "accepting", "accepted"})
    => handed.id = attempt

OwnInvite == Past /\ NewestFirst /\ HandsOverItsOwn /\ ThisInviteAccepted

LEMMA SeqGrows ==
  ASSUME NEW n \in Nat, NEW s \in Seq(1..n)
  PROVE  s \in Seq(1..(n + 1))
<1>1. Len(s) \in Nat /\ s \in [1..Len(s) -> 1..n]
  BY LenProperties
<1>2. s \in [1..Len(s) -> 1..(n + 1)]
  BY <1>1
<1>3. QED
  BY <1>1, <1>2, SeqDef

LEMMA PushedOnto ==
  ASSUME NEW n \in Nat, NEW s \in Seq(1..n), NEW x \in 1..n
  PROVE  /\ <<x>> \o s \in Seq(1..n) /\ <<x>> \o s # <<>>
         /\ Head(<<x>> \o s) = x
<1>1. <<x>> \in Seq(1..n) /\ Len(<<x>>) = 1 /\ <<x>>[1] = x
  OBVIOUS
<1>2. <<x>> \o s \in Seq(1..n) /\ Len(<<x>> \o s) = 1 + Len(s) /\ (<<x>> \o s)[1] = x
  BY <1>1, ConcatProperties
<1>3. Len(s) \in Nat /\ Len(<<>>) = 0
  BY LenProperties, EmptySeq
<1>4. <<x>> \o s # <<>>
  BY <1>2, <1>3
<1>5. QED
  BY <1>2, <1>4, HeadTailProperties

LEMMA NewestIsCopied ==
  ASSUME TypeInv, OwnInvite, Copy, ~Fail("product"), AwaitsAnswers(pair.sender)
  PROVE  handed'.id = attempt
<1>1. pair \in Pairs /\ pair.flow \in InviteFlows
  BY DEF TypeInv, TypeOK, Named, Copy
<1>2. \/ Resolves(contactTokenSenderAdapters, pair.sender)
      \/ Resolves(contactWayfSenderAdapters, pair.sender)
  <2>1. Supports(pair.flow, "sender", pair.sender)
    BY <1>1, PairsAssumption
  <2>2. CASE pair.flow = "contact-token"
    BY <2>1, <2>2 DEF Supports, Needs
  <2>3. CASE pair.flow = "contact-wayf"
    BY <2>1, <2>3 DEF Supports, Needs
  <2>4. QED
    BY <1>1, <2>2, <2>3 DEF InviteFlows
<1>3. pair.sender.platform = "nextcloud" /\ pair.sender.versionLine \in {"v34", "v35"}
  BY <1>2 DEF AwaitsAnswers, Resolves, contactTokenSenderAdapters,
              contactWayfSenderAdapters
<1>4. Creates.awaits = "answer" /\ Creates.list = "reopened"
  BY <1>3 DEF Creates, ContactAdapter, nextcloudV34, nextcloudV35, nextcloudInvites,
              nextcloudV35Invites
<1>5. ReadyToCopy /\ handed'.id = Head(Listed)
  BY DEF Copy
<1>6. QED
  BY <1>4, <1>5 DEF ReadyToCopy, Listed, OwnInvite, NewestFirst

LEMMA PageShowsTheAccepted ==
  ASSUME TypeInv, Verify, AwaitsAnswers(pair.receiver), pair.flow \in InviteFlows
  PROVE  handed.id \in contacts
<1>1. pair.receiver.versionLine \in {"v34", "v35"}
  BY ReceiverPlatform DEF AwaitsAnswers, TypeInv, TypeOK
<1>2. ContactAdapter(pair.receiver).asserts = "page"
  BY <1>1 DEF AwaitsAnswers, ContactAdapter, nextcloudV34, nextcloudV35,
              nextcloudV34Asserts, nextcloudV35Asserts
<1>3. QED
  BY <1>2 DEF Verify, Seen

LEMMA OwnInviteStays ==
  ASSUME Inv, TypeInv, OwnInvite, [Next]_vars
  PROVE  OwnInvite'
<1>0. attempt \in Nat /\ attempt >= 1 /\ attempt \in 1..attempt
  BY DEF TypeInv, TypeOK
<1> USE DEF OwnInvite, Past, NewestFirst, HandsOverItsOwn
<1>1. CASE InviteTest
  <2> USE DEF To, Fail, ThisInviteAccepted, ContactVerified, ShareStages
  <2>1. CASE Generate
    BY <2>1 DEF Generate
  <2>2. CASE Copy
    <3>1. CASE Fail("product") /\ UNCHANGED inviteVars
      BY <3>1 DEF inviteVars
    <3>2. CASE ~(Fail("product") /\ UNCHANGED inviteVars)
      <4>1. /\ ReadyToCopy /\ shown' = Listed /\ handed'.id = Head(Listed)
            /\ stage' = "copied" /\ UNCHANGED <<pair, attempt, cause>>
            /\ UNCHANGED <<invites, creating, accepting, contacts, rows, route, url>>
        BY <2>2, <3>2 DEF Copy
      <4>2. Listed \in Seq(1..attempt) /\ Listed # <<>>
        BY <4>1 DEF Listed, ReadyToCopy
      <4>3. Head(Listed) \in 1..attempt
        BY <4>2, HeadTailProperties
      <4>4. Past'
        BY <1>0, <4>1, <4>2, <4>3
      <4>5. HandsOverItsOwn'
        BY <2>2, <4>1, NewestIsCopied DEF AwaitsAnswers
      <4>6. QED
        BY <4>1, <4>4, <4>5
    <3>3. QED
      BY <3>1, <3>2
  <2>3. CASE FollowLink
    <3>1. handed'.id = handed.id
      BY <2>3 DEF FollowLink, TypeInv, TypeOK, InviteTypeOK
    <3>2. QED
      BY <2>3, <3>1 DEF FollowLink
  <2>4. CASE ClickAccept
    BY <2>4 DEF ClickAccept
  <2>5. CASE TakeUrl
    BY <2>5 DEF TakeUrl
  <2>6. CASE Verify
    <3>1. contacts # {}
      BY <2>6 DEF Verify, Seen, HasRow
    <3>2. attempt = 1 => attempt \in contacts
      <4>1. contacts \subseteq 1..attempt
        OBVIOUS
      <4>2. 1..1 = {1}
        OBVIOUS
      <4>3. QED
        BY <3>1, <4>1, <4>2
    <3>3. (pair.flow \in InviteFlows /\ AwaitsAnswers(pair.sender)
             /\ AwaitsAnswers(pair.receiver)) => attempt \in contacts
      BY <2>6, PageShowsTheAccepted DEF Verify
    <3>4. UNCHANGED <<pair, attempt, inviteVars>> /\ stage' = "verified"
      BY <2>6 DEF Verify
    <3>5. ThisInviteAccepted'
      BY <3>2, <3>3, <3>4 DEF inviteVars, AwaitsAnswers
    <3>6. QED
      BY <3>4, <3>5 DEF inviteVars
  <2>7. QED
    BY <1>1, <2>1, <2>2, <2>3, <2>4, <2>5, <2>6 DEF InviteTest
<1>2. CASE UNCHANGED inviteVars /\ UNCHANGED <<pair, attempt>>
           /\ (stage' \in Ended \ {"passed"} \/ stage \in {"verified"} \cup ShareStages
               \/ stage' = stage)
           /\ (stage' \notin {"copied", "followed", "accepting", "accepted"}
               \/ stage' = stage)
  BY <1>2 DEF inviteVars, ThisInviteAccepted, ContactVerified, ShareStages, Ended,
              AwaitsAnswers
<1>3. CASE ShareTest /\ UNCHANGED inviteVars
  <2>1. /\ UNCHANGED <<pair, attempt>> /\ stage \in {"verified"} \cup ShareStages
        /\ stage' \notin {"copied", "followed", "accepting", "accepted"}
    BY <1>3 DEF ShareTest, Prepare, RenameFile, CreateFile, PutFile, SaveText,
         ChooseRecipient, SendShare, Answered, VerifyShared, AcceptListed, EnableSync,
         OpenFiles, PollDialog, AddAndReload, FindFile, ReadContent, To, Fail, ShareStages
  <2>2. QED
    BY <1>2, <1>3, <2>1
<1>4. CASE ShareServer /\ UNCHANGED inviteVars
  BY <1>2, <1>4 DEF ShareServer, ServerShares, Deliver, ServerSyncs
<1>5. CASE InviteServer
  <2> USE DEF ThisInviteAccepted, ContactVerified, AwaitsAnswers
  <2>1. CASE ServerCreates
    <3>1. CASE creating' = "refused"
      BY <2>1, <3>1 DEF ServerCreates
    <3>2. CASE creating' = "done" /\ invites' = <<attempt>> \o invites
      <4>1. invites' \in Seq(1..attempt) /\ invites' # <<>> /\ Head(invites') = attempt
        BY <1>0, <3>2, PushedOnto
      <4>2. QED
        BY <2>1, <4>1 DEF ServerCreates
    <3>3. QED
      BY <2>1, <3>1, <3>2 DEF ServerCreates
  <2>2. CASE ListRefreshes
    BY <2>2 DEF ListRefreshes
  <2>3. CASE ServerAccepts
    <3>1. handed.id \in 1..attempt
      BY <1>0, <2>3, HandedId DEF ServerAccepts
    <3>2. contacts \subseteq contacts' /\ contacts' \subseteq 1..attempt
      BY <2>3, <3>1 DEF ServerAccepts
    <3>3. QED
      BY <2>3, <3>2 DEF ServerAccepts
  <2>4. CASE RowsRefresh
    BY <2>4 DEF RowsRefresh
  <2>5. CASE PageMoves
    BY <2>5 DEF PageMoves
  <2>6. QED
    BY <1>5, <2>1, <2>2, <2>3, <2>4, <2>5 DEF InviteServer
<1>6. CASE TimeOut
  BY <1>2, <1>6 DEF TimeOut, Fail, Ended
<1>7. CASE Again
  <2>1. attempt' = attempt + 1 /\ UNCHANGED pair /\ stage' = First
        /\ shown' = <<>> /\ creating' = "none" /\ handed' = Nothing /\ rows' = {}
    BY <1>7 DEF Again, InviteAgain
  <2>2. invites' \in Seq(1..(attempt + 1))
    <3>1. invites' \in Seq(1..attempt)
      <4>1. invites \in Seq(1..attempt) /\ <<attempt>> \o invites \in Seq(1..attempt)
        BY <1>0, PushedOnto
      <4>2. invites' \in {invites, <<attempt>> \o invites}
        BY <1>7 DEF Again, InviteAgain
      <4>3. QED
        BY <4>1, <4>2
    <3>2. QED
      BY <1>0, <3>1, SeqGrows
  <2>3. contacts' \subseteq 1..(attempt + 1)
    <3>1. accepting = "sent" => handed.id \in 1..attempt
      BY <1>0, HandedId
    <3>2. contacts' \subseteq contacts \cup (1..attempt)
      BY <1>7, <3>1 DEF Again, InviteAgain
    <3>3. QED
      BY <1>0, <3>2
  <2>4. Past'
    BY <1>0, <2>1, <2>2, <2>3, EmptySeq DEF Nothing
  <2>5. NewestFirst'
    BY <2>1
  <2>6. HandsOverItsOwn' /\ ThisInviteAccepted'
    BY <2>1 DEF First, ThisInviteAccepted, ContactVerified, ShareStages, InviteFlows
  <2>7. QED
    BY <2>4, <2>5, <2>6
<1>8. CASE UNCHANGED vars
  BY <1>2, <1>8 DEF vars
<1>9. QED
  BY <1>1, <1>3, <1>4, <1>5, <1>6, <1>7, <1>8 DEF Next, TestStep, ServerStep

(* The contact a test goes on with is of an invitation of its own run, on  *)
(* a new stack for all platforms and on a used one for those that await    *)
(* the answers to their requests; on the others a row of an earlier run    *)
(* would do (shared/contacts-ocm-invites.ts, contact-adapter.ts).          *)
THEOREM AcceptsItsOwnInvite == Spec => []ThisInviteAccepted
<1>1. Init => Inv /\ TypeInv /\ OwnInvite
  <2> SUFFICES ASSUME Init PROVE OwnInvite
    BY InitInv, InitTyped
  <2>1. Past
    BY EmptySeq DEF Init, InviteInit, Past, Nothing
  <2>2. NewestFirst /\ HandsOverItsOwn /\ ThisInviteAccepted
    BY DEF Init, InviteInit, NewestFirst, HandsOverItsOwn, ThisInviteAccepted,
           ContactVerified, First, ShareStages
  <2>3. QED
    BY <2>1, <2>2 DEF OwnInvite
<1>2. Inv /\ TypeInv /\ OwnInvite /\ [Next]_vars => Inv' /\ TypeInv' /\ OwnInvite'
  BY StepInv, StepTyped, OwnInviteStays
<1>3. OwnInvite => ThisInviteAccepted
  BY DEF OwnInvite
<1>4. QED
  BY <1>1, <1>2, <1>3, PTL DEF Spec

-----------------------------------------------------------------------------
(* A sender whose file has content to compare makes it once: while it has  *)
(* its shared name, all that is sent under that name is that file.         *)
MadeOnce ==
  GivesContent(pair.sender) =>
    /\ outgoing \subseteq {file} \ {0}
    /\ source /\ Shares.prepares = "rename" => file = 0
    /\ stage \in ShareStages \/ sending # "none" => file = attempt
    /\ stage = "passed" => compared \in {0, attempt}

LEMMA MakesNewFiles ==
  ASSUME pair \in Pairs, GivesContent(pair.sender)
  PROVE  Shares.prepares \in {"rename", "create"}
<1> DEFINE p == pair.sender.platform
<1>1. loginAdapters \in Needs(pair.flow, "sender")
  BY PairsAssumption DEF Needs, InviteFlows
<1>2. Resolves(loginAdapters, pair.sender)
  BY <1>1, PairsAssumption DEF Supports
<1>3. p \in {"nextcloud", "ocis", "opencloud", "cernbox"}
  BY <1>2 DEF Resolves, loginAdapters, GivesContent
<1>4. QED
  BY <1>3 DEF Shares, ShareAdapter, nextcloudShare, nextcloudPrepares, ocisShare,
       ocisPrepares, opencloudShare, opencloudPrepares, cernboxShare, cernboxPrepares

LEMMA MadeOnceStays ==
  ASSUME Inv, TypeInv, MadeOnce, [Next]_vars
  PROVE  MadeOnce'
<1>0. attempt \in Nat /\ attempt # 0 /\ outgoing \subseteq 1..MaxAttempts
      /\ pair \in Pairs
  BY DEF TypeInv, TypeOK, ShareTypeOK
<1> SUFFICES ASSUME GivesContent(pair.sender)
             PROVE  MadeOnce'
  <2>1. pair' = pair
    BY DEF Next, TestStep, ServerStep, TimeOut, Again, InviteTest, InviteServer,
         ShareTest, ShareServer, Generate, Copy, FollowLink, ClickAccept, TakeUrl,
         Verify, ServerCreates, ListRefreshes, ServerAccepts, RowsRefresh, PageMoves,
         Prepare, RenameFile, CreateFile, PutFile, SaveText, ChooseRecipient,
         SendShare, Answered, VerifyShared, AcceptListed, EnableSync, OpenFiles,
         PollDialog, AddAndReload, FindFile, ReadContent, ServerShares, Deliver,
         ServerSyncs, To, Fail, vars
  <2>2. QED
    BY <2>1 DEF MadeOnce, GivesContent
<1> USE DEF MadeOnce, GivesContent, To, Fail, ShareStages, Ended
<1>1. CASE InviteTest /\ UNCHANGED shareVars
  BY <1>1 DEF InviteTest, Generate, Copy, FollowLink, ClickAccept, TakeUrl, Verify,
       shareVars, Shares
<1>2. CASE Prepare
  <2>1. file = 0 => outgoing = {}
    OBVIOUS
  <2>2. CASE RenameFile
    BY <1>0, <1>2, <2>1, <2>2 DEF Prepare, RenameFile, Shares
  <2>3. CASE CreateFile
    BY <1>0, <1>2, <2>1, <2>3 DEF Prepare, CreateFile, MustBeNew, Shares
  <2>4. CASE PutFile
    BY <1>0, <2>4, MakesNewFiles DEF PutFile
  <2>5. QED
    BY <1>2, <2>2, <2>3, <2>4 DEF Prepare
<1>3. CASE ReadContent
  <2>1. mounted = {attempt}
    BY <1>3 DEF ReadContent, Inv, Delivered
  <2>2. Min(mounted) = attempt
    BY <1>0, <2>1, MinIsIn
  <2>3. QED
    BY <1>3, <2>2 DEF ReadContent, Shares
<1>4. CASE ShareTest /\ ~Prepare /\ ~ReadContent
  BY <1>4 DEF ShareTest, SaveText, ChooseRecipient, SendShare, Answered, VerifyShared,
       AcceptListed, EnableSync, OpenFiles, PollDialog, AddAndReload, FindFile,
       shareVars, Shares
<1>5. CASE ShareServer
  <2>1. CASE ServerShares
    <3>1. outgoing' \subseteq outgoing \cup {attempt} /\ file = attempt
      BY <2>1 DEF ServerShares
    <3>2. QED
      BY <1>0, <2>1, <3>1 DEF ServerShares, Shares
  <2>2. CASE Deliver
    BY <2>2 DEF Deliver, Shares
  <2>3. CASE ServerSyncs
    BY <2>3 DEF ServerSyncs, Shares
  <2>4. QED
    BY <1>5, <2>1, <2>2, <2>3 DEF ShareServer
<1>6. CASE InviteServer /\ UNCHANGED shareVars
  BY <1>6 DEF InviteServer, ServerCreates, ListRefreshes, ServerAccepts, RowsRefresh,
       PageMoves, shareVars, Shares
<1>7. CASE TimeOut \/ UNCHANGED vars
  BY <1>7 DEF TimeOut, inviteVars, shareVars, vars, Shares
<1>8. CASE Again
  <2>1. /\ outgoing' \subseteq outgoing \cup {file} /\ sending' = "none"
        /\ outgoing' # outgoing => file = attempt
        /\ UNCHANGED <<source, file, pair>> /\ stage' \in {"new", "verified"}
    BY <1>8 DEF Again, ShareAgain, First
  <2>2. QED
    BY <1>0, <2>1 DEF Shares
<1>9. QED
  BY <1>1, <1>2, <1>3, <1>4, <1>5, <1>6, <1>7, <1>8 DEF Next, TestStep, ServerStep

(* A run that passes has got its own file to the receiver, and it is its   *)
(* own file whose content was compared, although every run names it alike: *)
(* a sender that finds the name taken fails the run (share-adapter.ts).    *)
THEOREM PassedWithItsOwnFile == Spec => []PassedMeansThisShare
<1>1. Init => Inv /\ TypeInv /\ MadeOnce
  BY InitInv, InitTyped DEF Init, ShareInit, MadeOnce, First, ShareStages
<1>2. Inv /\ TypeInv /\ MadeOnce /\ [Next]_vars => Inv' /\ TypeInv' /\ MadeOnce'
  BY StepInv, StepTyped, MadeOnceStays
<1>3. Inv /\ MadeOnce => PassedMeansThisShare
  BY DEF Inv, Delivered, MadeOnce, PassedMeansThisShare, ShareStages
<1>4. QED
  BY <1>1, <1>2, <1>3, PTL DEF Spec

=============================================================================
