------------------------------ MODULE Registry ------------------------------
(***************************************************************************)
(* The adapters of the Cypress flows and who has one (cypress/support/     *)
(* adapters/registry.ts), as far as the flows tell them apart: which       *)
(* platform and version line each table has, how its login works and       *)
(* whether it can prove the content of a shared file.                      *)
(***************************************************************************)
EXTENDS FiniteSets

Nextcloud == {"v32", "v33", "v34", "v35"}

loginAdapters ==
  [nextcloud |-> Nextcloud, ocmgo |-> {"v1"}, ocis |-> {"v8"},
   opencloud |-> {"v6"}, cernbox |-> {"v11"}]

shareWithFlowSenderAdapters   == [nextcloud |-> Nextcloud, ocmgo |-> {"v1"}]
shareWithFlowReceiverAdapters == [nextcloud |-> Nextcloud, ocmgo |-> {"v1"}]

webappShareFlowSenderAdapters   == [nextcloud |-> {"v35"}]
webappShareFlowReceiverAdapters == [cernbox |-> {"v11"}, nextcloud |-> {"v35"}]

shareFileSenderAdapters ==
  [nextcloud |-> Nextcloud, ocmgo |-> {"v1"}, ocis |-> {"v8"},
   opencloud |-> {"v6"}, cernbox |-> {"v11"}]
shareFileReceiverAdapters ==
  [nextcloud |-> Nextcloud, ocmgo |-> {"v1"}, ocis |-> {"v8"},
   opencloud |-> {"v6"}, cernbox |-> {"v11"}]

contactTokenSenderAdapters ==
  [nextcloud |-> {"v34", "v35"}, ocis |-> {"v8"}, opencloud |-> {"v6"},
   cernbox |-> {"v11"}]
contactTokenReceiverAdapters ==
  [nextcloud |-> {"v34", "v35"}, ocis |-> {"v8"}, opencloud |-> {"v6"},
   cernbox |-> {"v11"}]

contactWayfSenderAdapters   == [nextcloud |-> {"v34", "v35"}]
contactWayfReceiverAdapters == [nextcloud |-> {"v34", "v35"}]

providerIdentityAdapters ==
  [nextcloud |-> {"v34", "v35"}, ocis |-> {"v8"}, opencloud |-> {"v6"},
   cernbox |-> {"v11"}]

(* extractTable: the keys of one table.                                    *)
Entries(table) ==
  UNION {{[platform |-> p, versionLine |-> v] : v \in table[p]} :
           p \in DOMAIN table}

(* resolveFromTable throws for any other reference.                        *)
Resolves(table, ref) ==
  /\ ref.platform \in DOMAIN table
  /\ ref.versionLine \in table[ref.platform]

-----------------------------------------------------------------------------
(* The tables each flow resolves for a party.                              *)
Needs(flow, who) ==
  CASE flow = "login" -> {loginAdapters}
    [] flow = "share-with" /\ who = "sender" ->
         {loginAdapters, shareWithFlowSenderAdapters}
    [] flow = "share-with" /\ who = "receiver" ->
         {loginAdapters, shareWithFlowReceiverAdapters}
    [] flow = "contact-token" /\ who = "sender" ->
         {loginAdapters, contactTokenSenderAdapters, shareFileSenderAdapters}
    [] flow = "contact-token" /\ who = "receiver" ->
         {loginAdapters, contactTokenReceiverAdapters,
          shareFileReceiverAdapters, providerIdentityAdapters}
    [] flow = "contact-wayf" /\ who = "sender" ->
         {loginAdapters, contactWayfSenderAdapters, shareFileSenderAdapters}
    [] flow = "contact-wayf" /\ who = "receiver" ->
         {loginAdapters, contactWayfReceiverAdapters,
          shareFileReceiverAdapters, providerIdentityAdapters}
    [] flow = "webapp-share" /\ who = "sender" ->
         {loginAdapters, contactTokenSenderAdapters,
          webappShareFlowSenderAdapters}
    [] flow = "webapp-share" /\ who = "receiver" ->
         {loginAdapters, contactTokenReceiverAdapters,
          webappShareFlowReceiverAdapters, providerIdentityAdapters}

Supports(flow, who, ref) == \A t \in Needs(flow, who) : Resolves(t, ref)

-----------------------------------------------------------------------------
(* The accounts of CERNBox live at a Keycloak of its own.                  *)
Mechanism(ref) ==
  IF ref.platform = "cernbox" THEN "external-idp" ELSE "same-origin"

(* prepareShareFile of OCM-Go answers without expectedContent.             *)
GivesContent(ref) == ref.platform # "ocmgo"

(* assertSharedFileContent is optional; OCM-Go has none.                   *)
ChecksContent(ref) == ref.platform # "ocmgo"

(* The page a product shows after the login form, by the answer.           *)
PageAfter(ref, granted) ==
  IF ~granted THEN "login"
  ELSE IF ref.platform = "nextcloud" THEN "dashboard"
  ELSE IF ref.platform = "ocmgo" THEN "inbox" ELSE "spaces"

(* The pages each assertLoggedIn is satisfied with.                        *)
nextcloudLoggedIn == {"dashboard", "inbox", "spaces"}
ocmgoLoggedIn     == {"inbox"}
ocisLoggedIn      == {"spaces"}
opencloudLoggedIn == {"spaces"}
cernboxLoggedIn   == {"spaces"}

LoggedInPages(ref) ==
  CASE ref.platform = "nextcloud" -> nextcloudLoggedIn
    [] ref.platform = "ocmgo"     -> ocmgoLoggedIn
    [] ref.platform = "ocis"      -> ocisLoggedIn
    [] ref.platform = "opencloud" -> opencloudLoggedIn
    [] ref.platform = "cernbox"   -> cernboxLoggedIn

=============================================================================
