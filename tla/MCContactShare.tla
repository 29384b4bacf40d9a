--------------------------- MODULE MCContactShare ---------------------------
(***************************************************************************)
(* Every pair of adapters the registry has for a flow with a file.         *)
(***************************************************************************)
EXTENDS ContactShare

At(p, v) == [platform |-> p, versionLine |-> v]

N4 == At("nextcloud", "v34")
N5 == At("nextcloud", "v35")
CB == At("cernbox", "v11")
OC == At("ocis", "v8")
OL == At("opencloud", "v6")
GO == At("ocmgo", "v1")

Platforms == {N4, N5, CB, OC, OL, GO}

MCPairs ==
  {p \in [flow : {"contact-token", "contact-wayf", "share-with"},
           sender : Platforms, receiver : Platforms] :
     /\ Supports(p.flow, "sender", p.sender)
     /\ Supports(p.flow, "receiver", p.receiver)}

=============================================================================
