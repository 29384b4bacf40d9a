--------------------------- MODULE InviteExchange ---------------------------
(***************************************************************************)
(* How the sender's and the receiver's server come to trust each other:    *)
(* the sender's page creates an invitation and copies it, the receiver's   *)
(* page accepts it (the contact adapters of cypress/support/adapters). A   *)
(* page shows what its server held when it was last read, and a request    *)
(* is answered some time after the click; the adapters differ in what they *)
(* wait for and in what they take for the answer.                          *)
(***************************************************************************)
EXTENDS Attempts

VARIABLES
  invites,   \* the sender's server: its invitations, by attempt, newest first
  shown,     \* what the sender's page lists of them
  creating,  \* the request that creates one
  handed,    \* what the sender's test hands over
  accepting, \* the request that accepts it
  contacts,  \* the receiver's server: the invitations it has accepted
  rows,      \* what the receiver's page lists of them
  route,     \* where the receiver's page is
  url        \* acceptedContactUrl

inviteVars == <<invites, shown, creating, handed, accepting, contacts, rows,
                route, url>>

Requests == {"none", "sent", "done", "refused"}
Forms    == {"plain", "base64"}     \* of a token: as it is, or base64(token@host)
Places   == {"query", "nested"}     \* of a token in a redirect of contact-wayf
Routes   == {"home", "invites", "dialog", "contact"}

Nothing == [id |-> 0, form |-> "plain", place |-> "query"]

-----------------------------------------------------------------------------
(* Mutant: Nextcloud's helper waits for an entry instead of the answer.    *)
nextcloudInvitesByRow ==
  [awaits |-> "row", list |-> "shown", form |-> "plain"]

(* How each platform's helper creates an invitation: what it awaits, which *)
(* list it copies the first entry of, and in which form.                   *)
nextcloudInvites ==
  [awaits |-> "answer", list |-> "reopened", form |-> "plain"]
nextcloudV35Invites ==
  [awaits |-> "answer", list |-> "reopened", form |-> "plain"]
ocisInvites ==
  [awaits |-> "row", list |-> "shown", form |-> "base64"]
opencloudInvites ==
  [awaits |-> "row", list |-> "shown", form |-> "base64"]
cernboxInvites ==
  [awaits |-> "row", list |-> "shown", form |-> "base64"]

(* Mutant: the code is typed as it was handed over.                        *)
EncodeForUiAsGiven(form) == form

(* encodeCernboxInviteTokenForUi: base64 of a plain token@host.            *)
EncodeForUi(form) == IF form = "plain" THEN "base64" ELSE form

(* How each accepts one: what it types, what confirms it, and where the    *)
(* URL of the contact is taken from.                                       *)
nextcloudV34Accepts ==
  [types |-> [f \in Forms |-> f], confirms |-> "answer", from |-> "body"]
nextcloudV35Accepts ==
  [types |-> [f \in Forms |-> f], confirms |-> "answer", from |-> "location"]
ocisAccepts ==
  [types |-> [f \in Forms |-> f], confirms |-> "row", from |-> "token"]
opencloudAccepts ==
  [types |-> [f \in Forms |-> f], confirms |-> "row", from |-> "token"]
cernboxAccepts ==
  [types |-> [f \in Forms |-> EncodeForUi(f)], confirms |-> "row",
   from |-> "token"]

(* acceptWayfRedirectInvite.                                               *)
nextcloudV34AcceptsRedirect == [confirms |-> "answer", from |-> "body"]
nextcloudV35AcceptsRedirect == [confirms |-> "answer", from |-> "location"]

(* resolveWayfInviteAcceptUrl and parseWayfRedirectParams: the places of a *)
(* redirect they find token and provider in.                               *)
nextcloudV34Parses == {"query", "nested"}
nextcloudV35Parses == {"query", "nested"}

(* Mutant: any route below /apps/contacts will do, as on v34.              *)
nextcloudV35SpecificAny == {"invites", "dialog", "contact"}

(* assertContactSpecificUrl: the routes below /apps/contacts it takes for  *)
(* a contact's.                                                            *)
nextcloudV34Specific == {"invites", "dialog", "contact"}
nextcloudV35Specific == {"contact"}

(* assertAcceptedContactExists: the contact's own page, or a row.          *)
nextcloudV34Asserts == "page"
nextcloudV35Asserts == "page"
ocisAsserts         == "row"
opencloudAsserts    == "row"
cernboxAsserts      == "row"

(* The adapters.                                                           *)
nextcloudV34 ==
  [creates |-> nextcloudInvites, accepts |-> nextcloudV34Accepts,
   redirect |-> nextcloudV34AcceptsRedirect, parses |-> nextcloudV34Parses,
   specific |-> nextcloudV34Specific, asserts |-> nextcloudV34Asserts]
nextcloudV35 ==
  [creates |-> nextcloudV35Invites, accepts |-> nextcloudV35Accepts,
   redirect |-> nextcloudV35AcceptsRedirect, parses |-> nextcloudV35Parses,
   specific |-> nextcloudV35Specific, asserts |-> nextcloudV35Asserts]
ocisV8 ==
  [creates |-> ocisInvites, accepts |-> ocisAccepts, asserts |-> ocisAsserts]
opencloudV6 ==
  [creates |-> opencloudInvites, accepts |-> opencloudAccepts,
   asserts |-> opencloudAsserts]
cernboxV11 ==
  [creates |-> cernboxInvites, accepts |-> cernboxAccepts,
   asserts |-> cernboxAsserts]

ContactAdapter(ref) ==
  CASE ref.platform = "nextcloud" /\ ref.versionLine = "v34" -> nextcloudV34
    [] ref.platform = "nextcloud" /\ ref.versionLine = "v35" -> nextcloudV35
    [] ref.platform = "ocis"      -> ocisV8
    [] ref.platform = "opencloud" -> opencloudV6
    [] ref.platform = "cernbox"   -> cernboxV11

Creates == ContactAdapter(pair.sender).creates
Accepts == ContactAdapter(pair.receiver).accepts

Confirms == IF pair.flow = "contact-wayf"
            THEN ContactAdapter(pair.receiver).redirect ELSE Accepts

(* The form of a token a product's dialog takes (cernbox-web decodes it).  *)
Takes(ref) == IF ref.platform = "cernbox" THEN {"base64"} ELSE Forms

-----------------------------------------------------------------------------
InviteInit ==
  /\ invites = <<>> /\ shown = <<>> /\ creating = "none" /\ handed = Nothing
  /\ accepting = "none" /\ contacts = {} /\ rows = {}
  /\ route = "home" /\ url = None

InviteTypeOK ==
  /\ invites \in Seq(1..MaxAttempts) /\ shown \in Seq(1..MaxAttempts)
  /\ creating \in Requests /\ accepting \in Requests
  /\ handed \in [id : 0..MaxAttempts, form : Forms, place : Places]
  /\ contacts \subseteq 1..MaxAttempts /\ rows \subseteq 1..MaxAttempts
  /\ route \in Routes /\ url \in Routes \cup {None, "domain"}

(* The invitations page opens with what there is, and the form is sent.    *)
Generate ==
  /\ stage = "new"
  /\ shown' = invites
  /\ creating' = "sent"
  /\ To("creating")
  /\ UNCHANGED <<invites, handed, accepting, contacts, rows, route, url>>

(* The sender's server.                                                    *)
ServerCreates ==
  /\ creating = "sent"
  /\ \/ creating' = "done" /\ invites' = <<attempt>> \o invites
     \/ creating' = "refused" /\ UNCHANGED invites
  /\ UNCHANGED <<pair, attempt, stage, cause, shown, handed, accepting,
                 contacts, rows, route, url>>

(* The sender's page reads the list again.                                 *)
ListRefreshes ==
  /\ stage = "creating" /\ shown' = invites
  /\ UNCHANGED <<pair, attempt, stage, cause, invites, creating, handed,
                 accepting, contacts, rows, route, url>>

(* What the first entry is read from, once the helper is satisfied.        *)
Listed == IF Creates.list = "reopened" THEN invites ELSE shown

ReadyToCopy ==
  /\ Creates.awaits = "answer" => creating = "done"
  /\ Listed # <<>>

Copy ==
  /\ stage = "creating"
  /\ \/ /\ Creates.awaits = "answer" /\ creating = "refused"
        /\ Fail("product")
        /\ UNCHANGED inviteVars
     \/ /\ ReadyToCopy
        /\ handed' = [id |-> Head(Listed), form |-> Creates.form, place |-> "query"]
        /\ shown' = Listed
        /\ To("copied")
        /\ UNCHANGED <<invites, creating, accepting, contacts, rows, route, url>>

(* captureReceiverRedirectUrl: the link leads through the sender's page of *)
(* providers to the receiver, where nobody is signed in: the accept dialog *)
(* is there at once or behind the login page, which keeps it in its URL.   *)
FollowLink ==
  /\ stage = "copied" /\ pair.flow = "contact-wayf"
  /\ \E place \in Places :
       /\ handed' = [handed EXCEPT !.place = place]
       /\ IF place \in ContactAdapter(pair.sender).parses
          THEN To("followed") ELSE Fail("form")
  /\ UNCHANGED <<invites, shown, creating, accepting, contacts, rows, route, url>>

(* What is handed over is something the next page can take.                *)
Understood ==
  IF stage = "followed"
  THEN handed.place \in ContactAdapter(pair.receiver).parses
  ELSE Accepts.types[handed.form] \in Takes(pair.receiver)

(* acceptInviteToken and acceptInviteFromRedirect up to the click.         *)
ClickAccept ==
  /\ \/ stage = "copied" /\ pair.flow = "contact-token"
     \/ stage = "followed"
  /\ IF Understood
     THEN /\ accepting' = "sent" /\ rows' = contacts
          /\ route' = IF stage = "followed" THEN "dialog" ELSE "invites"
          /\ To("accepting")
     ELSE Fail("form") /\ UNCHANGED <<accepting, rows, route>>
  /\ UNCHANGED <<invites, shown, creating, handed, contacts, url>>

(* The receiver's server: an invitation is accepted once.                  *)
ServerAccepts ==
  /\ accepting = "sent"
  /\ \/ /\ handed.id \notin contacts
        /\ accepting' = "done" /\ contacts' = contacts \cup {handed.id}
     \/ accepting' = "refused" /\ UNCHANGED contacts
  /\ UNCHANGED <<pair, attempt, stage, cause, invites, shown, creating, handed,
                 rows, route, url>>

RowsRefresh ==
  /\ stage \in {"accepting", "accepted"} /\ rows' = contacts
  /\ UNCHANGED <<pair, attempt, stage, cause, invites, shown, creating, handed,
                 accepting, contacts, route, url>>

(* The Contacts app goes to the contact once its request is answered.      *)
PageMoves ==
  /\ stage = "accepting" /\ accepting = "done" /\ route' = "contact"
  /\ UNCHANGED <<pair, attempt, stage, cause, invites, shown, creating, handed,
                 accepting, contacts, rows, url>>

(* Mutant: the list is not looked at.                                      *)
HasRowAny == TRUE

(* At least one row of connections.                                        *)
HasRow == rows # {}

(* What the helper waits for, and the URL it returns.                      *)
ReadyToTake ==
  CASE Confirms.from = "body"     -> accepting = "done"
    [] Confirms.from = "location" ->
         accepting = "done" /\ route \in ContactAdapter(pair.receiver).specific
    [] Confirms.from = "token"    -> HasRow

Taken ==
  CASE Confirms.from = "body"     -> "contact"
    [] Confirms.from = "location" -> route
    [] Confirms.from = "token"    -> "domain"

TakeUrl ==
  /\ stage = "accepting"
  /\ \/ /\ Confirms.confirms = "answer" /\ accepting = "refused"
        /\ Fail("product")
        /\ UNCHANGED url
     \/ /\ ReadyToTake
        /\ url' = Taken
        /\ To("accepted")
  /\ UNCHANGED <<invites, shown, creating, handed, accepting, contacts, rows, route>>

(* assertAcceptedContactExists.                                            *)
Seen ==
  IF ContactAdapter(pair.receiver).asserts = "page"
  THEN url = "contact" /\ handed.id \in contacts
  ELSE HasRow

Verify ==
  /\ stage = "accepted" /\ Seen
  /\ To("verified")
  /\ UNCHANGED inviteVars

InviteTest   == Generate \/ Copy \/ FollowLink \/ ClickAccept \/ TakeUrl \/ Verify
InviteServer == ServerCreates \/ ListRefreshes \/ ServerAccepts \/ RowsRefresh
                \/ PageMoves

(* What a new run of the spec finds: requests in flight have been carried  *)
(* out or are lost, the pages are closed.                                  *)
InviteAgain ==
  /\ \/ UNCHANGED invites
     \/ creating = "sent" /\ invites' = <<attempt>> \o invites
  /\ \/ UNCHANGED contacts
     \/ accepting = "sent" /\ contacts' = contacts \cup {handed.id}
  /\ shown' = <<>> /\ creating' = "none" /\ handed' = Nothing
  /\ accepting' = "none" /\ rows' = {} /\ route' = "home" /\ url' = None

=============================================================================
