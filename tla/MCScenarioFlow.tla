--------------------------- MODULE MCScenarioFlow ---------------------------
(***************************************************************************)
(* The cells of config/matrix, but for the login and share-with cells of   *)
(* the version lines that share their adapters with nextcloud v35.         *)
(***************************************************************************)
EXTENDS ScenarioFlow

At(p, v) == [platform |-> p, versionLine |-> v]

NC == At("nextcloud", "v35")
CB == At("cernbox", "v11")
OC == At("ocis", "v8")
OL == At("opencloud", "v6")
GO == At("ocmgo", "v1")

Cell(f, a, b) == [flow |-> f, sender |-> a, receiver |-> b]

MCCells ==
  {Cell("login", a, a) : a \in {NC, CB, OC, OL, GO}}
  \cup {Cell("share-with", a, b) : a \in {NC, GO}, b \in {NC, GO}}
  \cup {Cell("contact-token", a, b) : a \in {NC, CB, OC, OL}, b \in {NC, CB, OC, OL}}
  \cup {Cell("contact-wayf", NC, NC)}
  \cup {Cell("webapp-share", NC, b) : b \in {NC, CB}}

=============================================================================
