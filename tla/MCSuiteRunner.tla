----------------------------- MODULE MCSuiteRunner -----------------------------
(***************************************************************************)
(* Two parties with a login cell each, a share between them, a second flow *)
(* that needs the share as well as the logins, so that blocks propagate,   *)
(* and a cell whose sender and receiver are the same.                      *)
(***************************************************************************)
EXTENDS SuiteRunner

MCCellOf ==
  [loginA  |-> [flow |-> "login", sender |-> "A", receiver |-> "-"],
   loginB  |-> [flow |-> "login", sender |-> "B", receiver |-> "-"],
   shareAB |-> [flow |-> "share-with", sender |-> "A", receiver |-> "B"],
   webAA   |-> [flow |-> "webapp-share", sender |-> "A", receiver |-> "A"]]

MCCells  == DOMAIN MCCellOf
MCIdRank == [loginA |-> 3, loginB |-> 2, shareAB |-> 1, webAA |-> 4]
MCFlows  == {"login", "share-with", "webapp-share"}

MCRules ==
  {[capability |-> "login", required |-> {"share-with", "webapp-share"},
    roles |-> {"sender", "receiver"}],
   [capability |-> "share-with", required |-> {"webapp-share"},
    roles |-> {"sender"}]}

(* In the order of config/ci/workflows.nuon.                               *)
MCJobOrder == <<"login", "share-with", "webapp-share">>

=============================================================================
