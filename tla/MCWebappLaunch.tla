--------------------------- MODULE MCWebappLaunch ---------------------------
(***************************************************************************)
(* Both receivers of a webapp share, two runs of the spec.                 *)
(***************************************************************************)
EXTENDS WebappLaunch

NC == [platform |-> "nextcloud", versionLine |-> "v35"]
CB == [platform |-> "cernbox", versionLine |-> "v11"]

MCPairs == {[flow |-> "webapp-share", sender |-> NC, receiver |-> r] : r \in {NC, CB}}

ASSUME \A p \in MCPairs :
  Supports(p.flow, "sender", p.sender) /\ Supports(p.flow, "receiver", p.receiver)

=============================================================================
