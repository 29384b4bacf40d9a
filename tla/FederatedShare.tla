--------------------------- MODULE FederatedShare ---------------------------
(***************************************************************************)
(* How a file gets from the sender's server to the receiver's: the sender's*)
(* test makes the file, picks the receiver in the sharing panel and sends  *)
(* the share; the receiver's test accepts it and reads the file (the share *)
(* adapters of cypress/support/adapters). The file has the same name in    *)
(* every run of the spec, so what a run sees may be an earlier run's.      *)
(***************************************************************************)
EXTENDS Attempts, FiniteSetsExt

CONSTANT MaxDialogs   \* remainingAttempts of handleShareAcceptance

ASSUME DialogsAssumption == MaxDialogs \in Nat

VARIABLES
  source,    \* Nextcloud's welcome.txt is still under that name
  file,      \* the run whose file has the shared name at the sender's
  chosen,    \* whom the sharing panel has selected
  sending,   \* the request that creates the share
  outgoing,  \* the sender's server: runs whose file the receiver is sent
  elsewhere, \* the sender's server: runs whose file somebody else is sent
  pending,   \* the receiver's server: shares that wait to be accepted
  mounted,   \* the receiver's server: shares that are accepted
  syncing,   \* requests to accept a share that nobody waits for
  left,      \* remainingAttempts
  compared   \* the run whose file the receiver has read, or 0

shareVars == <<source, file, chosen, sending, outgoing, elsewhere, pending,
               mounted, syncing, left, compared>>

Recipients == {"receiver", "somebody"}

-----------------------------------------------------------------------------
(* How each platform makes the file: by renaming one that every account    *)
(* has, by creating one that must be new, or by writing one over.          *)
nextcloudPrepares == "rename"
ocisPrepares      == "create"
opencloudPrepares == "create"
cernboxPrepares   == "create"
ocmgoPrepares     == "write"

(* How each picks the recipient: the option "on <host>" alone, the best of *)
(* a search, or none at all; and what it takes for the share's existence   *)
(* once the request is answered.                                           *)
nextcloudShares == [picks |-> "host",   verifies |-> "toast"]
ocisShares      == [picks |-> "best",   verifies |-> "permissions"]
opencloudShares == [picks |-> "best",   verifies |-> "permissions"]
cernboxShares   == [picks |-> "best",   verifies |-> "collaborators"]
ocmgoShares     == [picks |-> "typed",  verifies |-> "toast"]

(* How each receives a share: the dialogs of Nextcloud, an inbox, a list   *)
(* with a sync action, or the list alone.                                  *)
nextcloudReceives == "dialogs"
ocisReceives      == "sync"
opencloudReceives == "sync"
cernboxReceives   == "list"
ocmgoReceives     == "inbox"

(* How each reads the file's content.                                      *)
nextcloudReads == "download"
ocisReads      == "download"
opencloudReads == "download"
cernboxReads   == "editor"

(* The adapters.                                                           *)
nextcloudShare ==
  [prepares |-> nextcloudPrepares, shares |-> nextcloudShares,
   receives |-> nextcloudReceives, reads |-> nextcloudReads]
ocisShare ==
  [prepares |-> ocisPrepares, shares |-> ocisShares,
   receives |-> ocisReceives, reads |-> ocisReads]
opencloudShare ==
  [prepares |-> opencloudPrepares, shares |-> opencloudShares,
   receives |-> opencloudReceives, reads |-> opencloudReads]
cernboxShare ==
  [prepares |-> cernboxPrepares, shares |-> cernboxShares,
   receives |-> cernboxReceives, reads |-> cernboxReads]
ocmgoShare ==
  [prepares |-> ocmgoPrepares, shares |-> ocmgoShares,
   receives |-> ocmgoReceives, reads |-> "nothing"]

ShareAdapter(ref) ==
  CASE ref.platform = "nextcloud" -> nextcloudShare
    [] ref.platform = "ocis"      -> ocisShare
    [] ref.platform = "opencloud" -> opencloudShare
    [] ref.platform = "cernbox"   -> cernboxShare
    [] ref.platform = "ocmgo"     -> ocmgoShare

Shares   == ShareAdapter(pair.sender)
Receives == ShareAdapter(pair.receiver).receives

(* pickBestOption: an option that shows the receiver's host before all     *)
(* others, else the first one; none where the search has no results.       *)
PickBest(found) == IF "receiver" \in found THEN {"receiver"} ELSE found

(* The names of the shares a receiver's page lists: of the waiting ones    *)
(* and of those accepted before.                                           *)
Incoming == pending \cup mounted

-----------------------------------------------------------------------------
ShareInit ==
  /\ source = TRUE /\ file = 0 /\ chosen = None /\ sending = "none"
  /\ outgoing = {} /\ elsewhere = {} /\ pending = {} /\ mounted = {}
  /\ syncing = {} /\ left = MaxDialogs /\ compared = 0

ShareTypeOK ==
  /\ source \in BOOLEAN /\ file \in 0..MaxAttempts
  /\ chosen \in Recipients \cup {None}
  /\ sending \in {"none", "sent", "done", "refused"}
  /\ outgoing \subseteq 1..MaxAttempts /\ elsewhere \subseteq 1..MaxAttempts
  /\ pending \subseteq outgoing /\ mounted \subseteq outgoing
  /\ syncing \subseteq outgoing
  /\ left \in 0..MaxDialogs /\ compared \in 0..MaxAttempts

(* Mutant: an existing file of the name will do as well.                   *)
MustBeNewNever == FALSE

(* createTextFile expects the status of a created file, not of a changed.  *)
MustBeNew == file # 0

(* prepareShareFile of Nextcloud: the rename waits for its answer, whatever*)
(* it is, and then for the file to be there.                               *)
RenameFile ==
  /\ Shares.prepares = "rename"
  /\ \/ ~source /\ Fail("rerun") /\ UNCHANGED <<source, file>>
     \/ source /\ source' = FALSE /\ file' = attempt /\ To("prepared")
     \/ source /\ Fail("product") /\ UNCHANGED <<source, file>>

(* Of OCIS, OpenCloud and CERNBox: the file is made and then written.      *)
CreateFile ==
  /\ Shares.prepares = "create"
  /\ \/ MustBeNew /\ Fail("rerun") /\ UNCHANGED file
     \/ ~MustBeNew /\ file' = (IF file = 0 THEN attempt ELSE file) /\ To("writing")
  /\ UNCHANGED source

(* Of OCM-Go, into the directory it mounts (cy.writeFile).                 *)
PutFile ==
  Shares.prepares = "write" /\ file' = attempt /\ To("prepared") /\ UNCHANGED source

Prepare ==
  /\ stage = "verified"
  /\ RenameFile \/ CreateFile \/ PutFile
  /\ UNCHANGED <<chosen, sending, outgoing, elsewhere, pending, mounted,
                 syncing, left, compared>>

(* The text is typed and saved, and the list shows the file.               *)
SaveText ==
  /\ stage = "writing"
  /\ To("prepared")
  /\ UNCHANGED shareVars

(* Whom a search for the recipient's name may find.                        *)
Findable == SUBSET Recipients

(* What the helper may select; a search without results is made once more  *)
(* with the name in title case.                                            *)
Selectable(first, second) ==
  LET found == IF first # {} THEN first ELSE second IN
  CASE Shares.shares.picks = "typed" -> {"receiver"}
    [] Shares.shares.picks = "host"  -> found \cap {"receiver"}
    [] Shares.shares.picks = "best"  -> PickBest(found)

(* addExternalShare up to the selection.                                   *)
ChooseRecipient ==
  /\ stage = "prepared"
  /\ \E first, second \in Findable :
       \/ chosen' \in Selectable(first, second) /\ To("chosen")
       \/ Selectable(first, second) = {} /\ Fail("product") /\ UNCHANGED chosen
  /\ UNCHANGED <<source, file, sending, outgoing, elsewhere, pending, mounted,
                 syncing, left, compared>>

SendShare ==
  /\ stage = "chosen" /\ sending = "none"
  /\ sending' = "sent"
  /\ UNCHANGED <<pair, attempt, stage, cause, source, file, chosen, outgoing,
                 elsewhere, pending, mounted, syncing, left, compared>>

(* The sender's server.                                                    *)
ServerShares ==
  /\ sending = "sent"
  /\ \/ sending' = "refused" /\ UNCHANGED <<outgoing, elsewhere>>
     \/ /\ sending' = "done"
        /\ outgoing'  = IF chosen = "receiver" THEN outgoing \cup {attempt} ELSE outgoing
        /\ elsewhere' = IF chosen = "receiver" THEN elsewhere ELSE elsewhere \cup {attempt}
  /\ UNCHANGED <<pair, attempt, stage, cause, source, file, chosen, pending,
                 mounted, syncing, left, compared>>

(* Every sender waits for the answer.                                      *)
Answered ==
  /\ stage = "chosen"
  /\ \/ sending = "done" /\ To("sent")
     \/ sending = "refused" /\ Fail("product")
  /\ UNCHANGED shareVars

(* verifySharedWithAfterReopen wants any permission of the file, the list  *)
(* of collaborators any entry like the recipient.                          *)
Evident ==
  IF Shares.shares.verifies = "toast" THEN sending = "done"
  ELSE outgoing \cup elsewhere # {}

VerifyShared ==
  /\ stage = "sent" /\ Evident
  /\ To("shared")
  /\ UNCHANGED shareVars

(* The receiver's server is told some time.                                *)
Deliver ==
  /\ \E s \in outgoing \ (pending \cup mounted) : pending' = pending \cup {s}
  /\ UNCHANGED <<pair, attempt, stage, cause, source, file, chosen, sending,
                 outgoing, elsewhere, mounted, syncing, left, compared>>

-----------------------------------------------------------------------------
(* acceptIncomingShare: a share of the name is listed. CERNBox lists it as *)
(* the recipient's at once, OCM-Go's inbox has to say that it is accepted. *)
AcceptListed ==
  /\ stage = "shared" /\ Receives \in {"list", "inbox"}
  /\ \E s \in Incoming :
       /\ mounted' = mounted \cup {s}
       /\ pending' = pending \ {s}
  /\ To("received")
  /\ UNCHANGED <<source, file, chosen, sending, outgoing, elsewhere, syncing,
                 left, compared>>

(* Of OCIS and OpenCloud: "enable sync" of a share that is not synced yet  *)
(* is clicked and its answer not awaited; the row that has to be visible   *)
(* then was so before.                                                     *)
EnableSync ==
  /\ stage = "shared" /\ Receives = "sync"
  /\ \E s \in pending : syncing' = syncing \cup {s}
  /\ To("received")
  /\ UNCHANGED <<source, file, chosen, sending, outgoing, elsewhere, pending,
                 mounted, left, compared>>

(* The receiver's server, some time; or it refuses.                        *)
ServerSyncs ==
  /\ \E s \in syncing :
       /\ syncing' = syncing \ {s}
       /\ \/ mounted' = mounted \cup {s} /\ pending' = pending \ {s}
          \/ UNCHANGED <<mounted, pending>>
  /\ UNCHANGED <<pair, attempt, stage, cause, source, file, chosen, sending,
                 outgoing, elsewhere, left, compared>>

(* handleShareAcceptance: the files page shows a dialog for each share     *)
(* that waits, if it does so within 15 seconds.                            *)
OpenFiles ==
  /\ stage = "shared" /\ Receives = "dialogs"
  /\ left' = MaxDialogs
  /\ To("polling")
  /\ UNCHANGED <<source, file, chosen, sending, outgoing, elsewhere, pending,
                 mounted, syncing, compared>>

PollDialog ==
  /\ stage = "polling"
  /\ \/ pending # {} /\ left > 0 /\ To("adding")
     \/ pending # {} /\ left = 0 /\ Fail("dialog")
     \/ To("looking")
  /\ UNCHANGED shareVars

(* Mutant: the attempts are not counted.                                   *)
LeftAfterKept == left

LeftAfter == left - 1

(* The button is clicked and the page reloaded at once: the request it     *)
(* sends may not get out.                                                  *)
AddAndReload ==
  /\ stage = "adding"
  /\ \/ \E s \in pending : pending' = pending \ {s} /\ mounted' = mounted \cup {s}
     \/ UNCHANGED <<pending, mounted>>
  /\ left' = LeftAfter
  /\ To("polling")
  /\ UNCHANGED <<source, file, chosen, sending, outgoing, elsewhere, syncing,
                 compared>>

(* ensureFileExists, with its three reloads.                               *)
FindFile ==
  /\ stage = "looking"
  /\ \/ mounted # {} /\ To("received")
     \/ mounted = {} /\ Fail("product")
  /\ UNCHANGED shareVars

(* assertSharedFileContent: of the file that has the name, the oldest one; *)
(* a share has content to read once it is mounted.                         *)
ReadContent ==
  /\ stage = "received" /\ mounted # {}
  /\ compared' = IF ShareAdapter(pair.receiver).reads = "nothing" THEN 0
                 ELSE Min(mounted)
  /\ To("passed")
  /\ UNCHANGED <<source, file, chosen, sending, outgoing, elsewhere, pending,
                 mounted, syncing, left>>

ShareTest ==
  \/ Prepare \/ SaveText \/ ChooseRecipient \/ SendShare \/ Answered
  \/ VerifyShared \/ AcceptListed \/ EnableSync \/ OpenFiles \/ PollDialog
  \/ AddAndReload \/ FindFile \/ ReadContent

ShareServer == ServerShares \/ Deliver \/ ServerSyncs

ShareAgain ==
  /\ \/ UNCHANGED <<outgoing, elsewhere>>
     \/ /\ sending = "sent" /\ chosen = "receiver"
        /\ outgoing' = outgoing \cup {attempt} /\ UNCHANGED elsewhere
     \/ /\ sending = "sent" /\ chosen # "receiver"
        /\ elsewhere' = elsewhere \cup {attempt} /\ UNCHANGED outgoing
  /\ chosen' = None /\ sending' = "none" /\ left' = MaxDialogs /\ compared' = 0
  /\ UNCHANGED <<source, file, pending, mounted, syncing>>

=============================================================================
