----------------------------- MODULE MCAgentLink -----------------------------
(* One node, its agent and the hub.                                          *)
EXTENDS AgentLink, TLC

CONSTANTS n1

SingleHost  == n1 :> "h1"
SingleProto == n1 :> "vless"
=============================================================================
