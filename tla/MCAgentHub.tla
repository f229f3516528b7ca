----------------------------- MODULE MCAgentHub -----------------------------
(* Instances of AgentHub for TLC: two nodes of one machine, one agent        *)
(* process each or one for both, or a single node.                           *)
EXTENDS AgentHub, TLC

CONSTANTS n1, n2

OneHost      == n1 :> "h1" @@ n2 :> "h1"
TwoProtocols == n1 :> "vless" @@ n2 :> "ss"
SingleHost   == n1 :> "h1"
SingleProto  == n1 :> "vless"

\* The connections are interchangeable, and so are the twins: the hub only asks
\* whether hosts are equal and protocols different
Symmetry == Permutations(Conns) \cup Permutations(Nodes)
=============================================================================
