----------------------------- MODULE MCCiPipeline -----------------------------
(***************************************************************************)
(* A login cell for each of two parties in one wave, a share between them  *)
(* in the next, and a cell that needs the share and a login in the last.   *)
(***************************************************************************)
EXTENDS CiPipeline

MCCellOf ==
  [loginA  |-> [flow |-> "login", sender |-> "A", receiver |-> "-"],
   loginB  |-> [flow |-> "login", sender |-> "B", receiver |-> "-"],
   shareAB |-> [flow |-> "share-with", sender |-> "A", receiver |-> "B"],
   webAA   |-> [flow |-> "webapp-share", sender |-> "A", receiver |-> "A"]]

MCCells  == DOMAIN MCCellOf
MCIdRank == [loginA |-> 1, loginB |-> 2, shareAB |-> 3, webAA |-> 4]
MCFlows  == {"login", "share-with", "webapp-share"}

MCRules ==
  {[capability |-> "login", required |-> {"share-with", "webapp-share"},
    roles |-> {"sender", "receiver"}],
   [capability |-> "share-with", required |-> {"webapp-share"},
    roles |-> {"sender"}]}

MCJobOrder == <<"login", "share-with", "webapp-share">>

=============================================================================
