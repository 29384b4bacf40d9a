---------------------------- MODULE ScenarioFlow ----------------------------
(***************************************************************************)
(* One cell of a flow as Cypress runs it: the tests the flow defines       *)
(* (cypress/e2e/<flow>/steps.ts, cypress/support/shared/), the runner that *)
(* isolates tests and reloads the spec when a test first visits another    *)
(* origin, the cached identity provider sessions, and what one test hands  *)
(* to the next: a runtime file on disk, or a variable of the spec. An      *)
(* attempt is one run of the spec; a later one finds the file the earlier  *)
(* one left. What an adapter does on a server either works or fails here;  *)
(* ContactShare and WebappLaunch look inside.                              *)
(***************************************************************************)
EXTENDS Registry, Naturals, Sequences

CONSTANTS
  Cells,        \* the cells of the matrix: [flow, sender, receiver]
  Users,        \* user names an actor may have
  MaxAttempts   \* bound: runs of the spec on one stack

VARIABLES
  scenario,  \* the cell, the environment of the runner, the providers
  attempt,   \* which run of the spec
  run,       \* what became of it
  at,        \* the test and the step of it that is next
  failed,    \* why tests of this attempt have failed
  page,      \* the runner's origin, the test's origin, the account shown
  cookies,   \* who is signed in at each origin
  sessions,  \* the cache of cy.session: [key, user] records
  baseUrl,   \* Cypress.config("baseUrl"), as the party it belongs to
  runtime,   \* the runtime file: the attempt each key was written in
  loaded,    \* what the running test has read of it
  content,   \* the variable of the spec: the attempt its value is from
  compared   \* history: contents the receiver compared in this attempt

vars == <<scenario, attempt, run, at, failed, page, cookies, sessions,
          baseUrl, runtime, loaded, content, compared>>

-----------------------------------------------------------------------------
Parties == {"sender", "receiver"}
Idps    == {"idp1", "idp2"}
Origins == Parties \cup Idps
None    == "-"

Keys   == {"invite", "name", "contact", "content", "senderId"}
NoFile == [k \in Keys |-> 0]

ContactFlows == {"contact-token", "contact-wayf"}
StoppingFlows == ContactFlows \cup {"webapp-share"}

(* The flows that have a spec; no actor is named like an absent one.       *)
ASSUME ScenarioAssumption ==
  /\ MaxAttempts \in Nat \ {0}
  /\ \A c \in Cells : c.flow \in StoppingFlows \cup {"login", "share-with"}
  /\ None \notin Users

Ref(who) == IF who = "sender" THEN scenario.cell.sender
            ELSE scenario.cell.receiver

(* resolveActorCredentials: absent, or a user name.                        *)
UserOf(who) == scenario.user[who]

(* resolveCernboxIdpConfigFromExpose: the receiver's slot falls back to    *)
(* the sender's, that one to a default.                                    *)
IdpConfig(who) ==
  CASE scenario.exposed[who] # None -> scenario.exposed[who]
    [] who = "receiver" /\ scenario.exposed["receiver"] = None
         /\ scenario.exposed["sender"] # None -> scenario.exposed["sender"]
    [] OTHER -> "idp1"

(* Whom the provider of a party's application knows.                       *)
Account(who) ==
  IF Mechanism(Ref(who)) = "external-idp"
  THEN <<scenario.idp[who], UserOf(who)>> ELSE <<who, UserOf(who)>>

-----------------------------------------------------------------------------
(* The tests of each flow, as the steps they take.                         *)
Test(who, ops) == [who |-> who, ops |-> ops]

(* login of the adapters: a session first where the provider is external.  *)
Login(ref) ==
  IF Mechanism(ref) = "external-idp" THEN <<"idp", "app">> ELSE <<"app">>

(* Mutant: only the sender's session is made ahead.                        *)
PrewarmSender(c) ==
  IF Mechanism(c.sender) = "external-idp"
  THEN <<Test("sender", <<"idp">>)>> ELSE <<>>

(* defineIdpLoginPrewarm.                                                  *)
Prewarm(c) ==
  (IF Mechanism(c.sender) = "external-idp"
   THEN <<Test("sender", <<"idp">>)>> ELSE <<>>)
  \o (IF Mechanism(c.receiver) = "external-idp"
      THEN <<Test("receiver", <<"idp">>)>> ELSE <<>>)

(* defineLoginSteps.                                                       *)
LoginTests(c) ==
  IF Mechanism(c.sender) = "external-idp"
  THEN <<Test("sender", <<"idp">>), Test("sender", Login(c.sender))>>
  ELSE <<Test("sender", Login(c.sender))>>

(* defineContactTrustSetupSteps.                                           *)
TrustTests(c) ==
  <<Test("sender", <<"clear">> \o Login(c.sender)
                   \o <<"invite", "saveInvite">>),
    Test("receiver", <<"base">> \o Login(c.receiver)
                     \o <<"load", "accept", "saveContact">>)>>

(* The trust setup of contact-wayf, which follows the invite link as well. *)
WayfTests(c) ==
  <<Test("sender", <<"clear">> \o Login(c.sender)
                   \o <<"invite", "capture", "saveInvite">>),
    Test("receiver", <<"base">> \o Login(c.receiver)
                     \o <<"load", "accept", "saveContact">>)>>

(* The last two tests of contact-token and contact-wayf.                   *)
FileTests(c) ==
  <<Test("sender", <<"load", "needName", "recipient">> \o Login(c.sender)
                   \o <<"prepare", "saveContent", "send">>),
    Test("receiver", <<"base">> \o Login(c.receiver)
                     \o <<"load", "needName", "receive", "compare">>)>>

(* The last two tests of webapp-share.                                     *)
WebappTests(c) ==
  <<Test("sender", <<"load", "needName", "recipient">> \o Login(c.sender)
                   \o <<"prepare", "send", "saveSender">>),
    Test("receiver", <<"base">> \o Login(c.receiver)
         \o <<"load", "needName", "needSender", "receive", "launch", "prove">>)>>

(* defineShareWithScenarioCase.                                            *)
ShareWithTests(c) ==
  <<Test("sender", <<"recipient">> \o Login(c.sender)
                   \o <<"prepare", "keepContent", "send">>),
    Test("receiver", <<"base">> \o Login(c.receiver)
                     \o <<"receive", "compareKept">>)>>

TestsOf(c) ==
  CASE c.flow = "login" -> LoginTests(c)
    [] c.flow = "share-with" -> ShareWithTests(c)
    [] c.flow = "contact-token" -> Prewarm(c) \o TrustTests(c) \o FileTests(c)
    [] c.flow = "contact-wayf" -> WayfTests(c) \o FileTests(c)
    [] c.flow = "webapp-share" -> Prewarm(c) \o TrustTests(c) \o WebappTests(c)

Tests == TestsOf(scenario.cell)
Now   == Tests[at.test].ops[at.op]
Who   == Tests[at.test].who

Running(op) == run = "running" /\ Now = op

-----------------------------------------------------------------------------
NobodySignedIn == [o \in Origins |-> None]

FreshPage(top) == [top |-> top, origin |-> None, me |-> None]

Init ==
  /\ \E c \in Cells, user \in [Parties -> Users \cup {None}],
        exposed \in [Parties -> Idps \cup {None}], second \in Idps :
       /\ exposed["sender"] \in {"idp1", None}
       /\ exposed["receiver"] \in {second, None}
       /\ scenario = [cell |-> c, user |-> user, exposed |-> exposed,
                      idp |-> [sender |-> "idp1", receiver |-> second]]
       /\ \A who \in Parties :
            (c.flow # "login" \/ who = "sender") => Supports(c.flow, who, c[who])
  /\ attempt = 1 /\ run = "running" /\ at = [test |-> 1, op |-> 1]
  /\ failed = {} /\ page = FreshPage("sender")
  /\ cookies = NobodySignedIn /\ sessions = {}
  /\ baseUrl = "sender"
  /\ runtime = NoFile /\ loaded = NoFile
  /\ content = 0 /\ compared = {}

TypeOK ==
  /\ scenario.cell \in Cells
  /\ attempt \in 1..MaxAttempts
  /\ run \in {"running", "ended", "killed"}
  /\ run = "running" => at.test \in DOMAIN Tests /\ at.op \in DOMAIN Tests[at.test].ops
  /\ failed \subseteq {"product", "credentials", "account", "origin", "runtime"}
  /\ page.top \in Origins /\ page.origin \in Origins \cup {None}
  /\ cookies \in [Origins -> Users \cup {None}]
  /\ \A s \in sessions : s.key \in Idps \X Users /\ s.user \in Users
  /\ baseUrl \in Parties
  /\ runtime \in [Keys -> 0..MaxAttempts] /\ loaded \in [Keys -> 0..MaxAttempts]
  /\ content \in 0..MaxAttempts
  /\ compared \subseteq 1..MaxAttempts

-----------------------------------------------------------------------------
(* Mutant: a failed test does not stop the run.                            *)
StopsOnFailureNever(f) == FALSE

(* installHooks: the contact and webapp flows stop at the first failure.   *)
StopsOnFailure(f) == f \in StoppingFlows

(* Mutant: the configuration is emptied instead.                           *)
BaseUrlAfterTestUnset == None

(* afterEach.                                                              *)
BaseUrlAfterTest == "sender"

(* The runner goes on with the next test, on a page and a cookie jar of    *)
(* its own.                                                                *)
LeaveTest(stop) ==
  /\ IF stop \/ at.test = Len(Tests)
     THEN run' = "ended" /\ at' = at
     ELSE run' = run /\ at' = [test |-> at.test + 1, op |-> 1]
  /\ baseUrl' = BaseUrlAfterTest
  /\ page' = FreshPage(page.top)
  /\ cookies' = NobodySignedIn
  /\ loaded' = NoFile

(* A step that works, on the page and with the cookies it leaves: the next *)
(* step, or the end of the test.                                           *)
AdvanceOn(p, c) ==
  IF at.op < Len(Tests[at.test].ops)
  THEN /\ at' = [at EXCEPT !.op = @ + 1]
       /\ page' = p /\ cookies' = c
       /\ UNCHANGED <<run, baseUrl, loaded>>
  ELSE LeaveTest(FALSE)

Advance == AdvanceOn(page, cookies)

Fail(cause) ==
  /\ failed' = failed \cup {cause}
  /\ LeaveTest(StopsOnFailure(scenario.cell.flow))
  /\ UNCHANGED <<scenario, attempt, sessions, runtime, content, compared>>

(* Every command may fail: the product, its page or the machine.           *)
ProductFails == run = "running" /\ Fail("product")

(* The first visit of a test to another origin than the runner's reloads   *)
(* the spec there: its variables are new and the test starts over.         *)
Reload(o) ==
  /\ page.origin = None /\ page.top # o
  /\ page' = FreshPage(o)
  /\ at' = [at EXCEPT !.op = 1]
  /\ cookies' = NobodySignedIn
  /\ baseUrl' = "sender"
  /\ loaded' = NoFile
  /\ content' = 0
  /\ UNCHANGED <<scenario, attempt, run, failed, sessions, runtime, compared>>

MayVisit(o) == page.origin = o \/ (page.origin = None /\ page.top = o)

(* A test cannot use two origins.                                          *)
CannotVisit(o) == page.origin \notin {None, o}

-----------------------------------------------------------------------------
(* Mutant: the session is cached under the origin alone.                   *)
CachedByOrigin(key) == {s \in sessions : s.key[1] = key[1]}

(* The cached session of a key.                                            *)
Cached(key) == {s \in sessions : s.key = key}

(* establishIdpSession: cy.session restores the cookies of a cached        *)
(* session; without one it clears them and visits the provider.            *)
Idp ==
  /\ Running("idp")
  /\ LET o    == IdpConfig(Who)
         key  == <<o, UserOf(Who)>>
         only(user) == [NobodySignedIn EXCEPT ![o] = user]
     IN
     \/ UserOf(Who) = None /\ Fail("credentials")
     \/ /\ UserOf(Who) # None
        /\ \E s \in Cached(key) : AdvanceOn([page EXCEPT !.me = None], only(s.user))
        /\ UNCHANGED <<scenario, attempt, failed, sessions, runtime, content,
                       compared>>
     \/ /\ UserOf(Who) # None /\ Cached(key) = {}
        /\ IF CannotVisit(o) THEN Fail("origin")
           ELSE \/ Reload(o)
                \/ /\ MayVisit(o)
                   /\ sessions' = sessions \cup {[key |-> key, user |-> UserOf(Who)]}
                   /\ AdvanceOn([page EXCEPT !.origin = o, !.me = None],
                                only(UserOf(Who)))
                   /\ UNCHANGED <<scenario, attempt, failed, runtime, content,
                                  compared>>

(* The login form of a same-origin application, and the silent sign-in at  *)
(* the provider of the other ones (completeCernboxAppLogin).               *)
SignedIn(o) ==
  IF Mechanism(Ref(Who)) = "external-idp" THEN cookies[scenario.idp[o]]
  ELSE UserOf(Who)

AccountShown(o, user) ==
  IF Mechanism(Ref(Who)) = "external-idp" THEN <<scenario.idp[o], user>>
  ELSE <<o, user>>

LoggedIn(granted) ==
  /\ SignedIn(baseUrl) # None
  /\ PageAfter(Ref(Who), granted) \in LoggedInPages(Ref(Who))

App ==
  /\ Running("app")
  /\ LET o == baseUrl
         shown(granted) ==
           [page EXCEPT !.origin = o,
              !.me = IF granted THEN AccountShown(o, SignedIn(o)) ELSE None]
     IN
     \/ UserOf(Who) = None /\ Fail("credentials")
     \/ UserOf(Who) # None /\ CannotVisit(o) /\ Fail("origin")
     \/ UserOf(Who) # None /\ Reload(o)
     \/ /\ UserOf(Who) # None /\ MayVisit(o)
        /\ \E granted \in BOOLEAN :
             \/ SignedIn(o) = None /\ Fail("account")
             \/ SignedIn(o) # None /\ ~LoggedIn(granted) /\ Fail("product")
             \/ /\ LoggedIn(granted)
                /\ AdvanceOn(shown(granted), cookies)
                /\ UNCHANGED <<scenario, attempt, failed, sessions, runtime,
                               content, compared>>

-----------------------------------------------------------------------------
(* setBaseUrl, and buildFederatedRecipientId's and getBaseUrl's source.    *)
SetBaseUrl ==
  /\ Running("base")
  /\ baseUrl' = "receiver"
  /\ at' = [at EXCEPT !.op = @ + 1]
  /\ UNCHANGED <<scenario, attempt, run, failed, page, cookies, sessions,
                 runtime, loaded, content, compared>>

(* clearRuntime.                                                           *)
ClearRuntime ==
  /\ Running("clear")
  /\ runtime' = NoFile
  /\ Advance
  /\ UNCHANGED <<scenario, attempt, failed, sessions, content, compared>>

(* readRuntime waits for a file that has something in it.                  *)
ReadRuntime ==
  /\ Running("load")
  /\ IF runtime = NoFile THEN Fail("runtime")
     ELSE
        /\ loaded' = runtime
        /\ at' = [at EXCEPT !.op = @ + 1]
        /\ UNCHANGED <<scenario, attempt, run, failed, page, cookies, sessions,
                       baseUrl, runtime, content, compared>>

(* requireString.                                                          *)
Required == IF Now = "needName" THEN "name" ELSE "senderId"

RequireString ==
  /\ run = "running" /\ Now \in {"needName", "needSender"}
  /\ IF loaded[Required] = 0 THEN Fail("runtime")
     ELSE
        /\ Advance
        /\ UNCHANGED <<scenario, attempt, failed, sessions, runtime, content,
                       compared>>

(* The address of the recipient takes the accounts of both parties.        *)
ResolveRecipient ==
  /\ Running("recipient")
  /\ IF \E who \in Parties : UserOf(who) = None THEN Fail("credentials")
     ELSE
        /\ Advance
        /\ UNCHANGED <<scenario, attempt, failed, sessions, runtime, content,
                       compared>>

(* Mutant: the sender's test keeps the content in the spec alone.          *)
WrittenNoContent ==
  CASE Now = "saveInvite"  -> [NoFile EXCEPT !["invite"] = attempt, !["name"] = attempt]
    [] Now = "saveContact" -> [loaded EXCEPT !["contact"] = attempt]
    [] Now = "saveContent" -> loaded
    [] Now = "saveSender"  -> [loaded EXCEPT !["senderId"] = attempt]

(* What writeRuntime is given: the first test a new record, the others the *)
(* one they have read with a key more.                                     *)
Written ==
  CASE Now = "saveInvite"  -> [NoFile EXCEPT !["invite"] = attempt, !["name"] = attempt]
    [] Now = "saveContact" -> [loaded EXCEPT !["contact"] = attempt]
    [] Now = "saveContent" -> IF GivesContent(Ref("sender"))
                              THEN [loaded EXCEPT !["content"] = attempt]
                              ELSE runtime
    [] Now = "saveSender"  -> [loaded EXCEPT !["senderId"] = attempt]

WriteRuntime ==
  /\ run = "running"
  /\ Now \in {"saveInvite", "saveContact", "saveContent", "saveSender"}
  /\ runtime' = Written
  /\ Advance
  /\ UNCHANGED <<scenario, attempt, failed, sessions, content, compared>>

(* What an adapter does with the page of its party.                        *)
AppOps == {"invite", "capture", "accept", "prepare", "send", "receive",
           "compare", "compareKept", "launch", "prove"}

(* CROSS_ORIGIN_ALLOWED_SPECS; elsewhere cy.origin is overwritten to throw.*)
CrossOriginAllowed(f) == f \in {"contact-wayf", "webapp-share"}

Act ==
  /\ run = "running" /\ Now \in AppOps \ {"compare", "compareKept"}
  /\ LET elsewhere == Now \in {"capture", "prove"}
                       /\ ~CrossOriginAllowed(scenario.cell.flow)
         missing   == Now = "accept" /\ loaded["invite"] = 0
     IN
     IF elsewhere THEN Fail("origin")
     ELSE IF missing THEN Fail("runtime")
     ELSE
        /\ Advance
        /\ UNCHANGED <<scenario, attempt, failed, sessions, runtime, content,
                       compared>>

(* capturedExpectedContent of share-with.                                  *)
KeepContent ==
  /\ Running("keepContent")
  /\ content' = IF GivesContent(Ref("sender")) THEN attempt ELSE 0
  /\ Advance
  /\ UNCHANGED <<scenario, attempt, failed, sessions, runtime, compared>>

(* The receiver compares the content it was handed, if any.                *)
Handed == IF Now = "compare" THEN loaded["content"] ELSE content

Compare ==
  /\ run = "running" /\ Now \in {"compare", "compareKept"}
  /\ compared' = IF ChecksContent(Ref("receiver")) /\ Handed # 0
                 THEN compared \cup {Handed} ELSE compared
  /\ Advance
  /\ UNCHANGED <<scenario, attempt, failed, sessions, runtime, content>>

(* The run of the spec may be killed, and the spec run again: with a cache *)
(* of its own, or with the same one where Cypress was left open.           *)
Kill ==
  /\ run = "running"
  /\ run' = "killed"
  /\ UNCHANGED <<scenario, attempt, at, failed, page, cookies, sessions,
                 baseUrl, runtime, loaded, content, compared>>

Again ==
  /\ run # "running" /\ attempt < MaxAttempts
  /\ attempt' = attempt + 1
  /\ run' = "running" /\ at' = [test |-> 1, op |-> 1]
  /\ failed' = {} /\ page' = FreshPage("sender")
  /\ cookies' = NobodySignedIn
  /\ \/ sessions' = {}
     \/ sessions' = sessions
  /\ baseUrl' = "sender"
  /\ loaded' = NoFile /\ content' = 0 /\ compared' = {}
  /\ UNCHANGED <<scenario, runtime>>

Next ==
  \/ Idp \/ App \/ SetBaseUrl \/ ClearRuntime \/ ReadRuntime \/ RequireString
  \/ ResolveRecipient \/ WriteRuntime \/ Act \/ KeepContent \/ Compare
  \/ ProductFails \/ Kill \/ Again

Spec == Init /\ [][Next]_vars

-----------------------------------------------------------------------------
(* Whatever the providers, the cached sessions and the order of the tests: *)
(* an adapter works as the account of the party the test is about, on that *)
(* party's application.                                                    *)
ActsAsTheIntendedUser ==
  (run = "running" /\ Now \in AppOps) =>
    /\ page.me = Account(Who)
    /\ page.origin = Who

(* What a test takes from the runtime file was put there by this run of    *)
(* the spec, not by one before it.                                         *)
RuntimeIsThisAttempts ==
  \A k \in Keys : loaded[k] \in {0, attempt}

(* A contact flow that ends without a failure has compared the content its *)
(* own sender gave, where both adapters can, although the spec has been    *)
(* reloaded in between.                                                    *)
PassedMeansContentCompared ==
  (/\ run = "ended" /\ failed = {}
   /\ scenario.cell.flow \in ContactFlows
   /\ GivesContent(Ref("sender")) /\ ChecksContent(Ref("receiver")))
    => attempt \in compared

(* With users and providers configured, a flow does not trap itself: the   *)
(* origins and sessions its tests need are there unless a product failed.  *)
Configured ==
  /\ \A who \in Parties : UserOf(who) # None
  /\ \A who \in Parties : scenario.exposed[who] = scenario.idp[who]

FailsOnlyForTheProducts ==
  Configured /\ failed # {} => "product" \in failed

(* A receiver that can read the file compares its content with what the    *)
(* sender captured, in share-with as well.                                 *)
CapturedContentIsCompared ==
  (/\ run = "ended" /\ failed = {}
   /\ scenario.cell.flow = "share-with"
   /\ GivesContent(Ref("sender")) /\ ChecksContent(Ref("receiver")))
    => attempt \in compared

=============================================================================
