------------------------------- MODULE MCIpSwap -------------------------------
(* Instances for TLC of what happens to machines besides their configuration:  *)
(* IpSwap (a machine with a VLESS node, a Hysteria node and an IPv6            *)
(* Shadowsocks node; the agent runs as the VLESS node) and ContainerCore (a    *)
(* container with two connections of one user).  One of the two takes its      *)
(* course.                                                                     *)
EXTENDS IpSwap, TLC

CONSTANTS Parts, vless, hy2, ss, Users, Conns, MaxUnits, MaxRestarts, MaxChanges

VARIABLES
  part, allowed, changes, table, fetch, conn, pump, ctr, todo, hand, session, wire,
  recorded, lost, moved, restarts

coreVars == <<allowed, changes, table, fetch, conn, pump, ctr, todo, hand, session, wire,
              recorded, lost, moved, restarts>>
allVars  == <<part, vars, coreVars>>

C == INSTANCE ContainerCore

ASSUME CoreAssumption == C!CoreAssumption

AllInit ==
  /\ part \in Parts /\ Init /\ C!Init
  /\ part = "core" => attached = CHOOSE a \in Addrs : TRUE

AllNext ==
  \/ part = "swap" /\ Next /\ UNCHANGED <<part, coreVars>>
  \/ part = "core" /\ C!Next /\ UNCHANGED <<part, vars>>

\* The fairness of the part that takes its course
SwapFairness ==
  /\ \A s \in Swaps : WF_vars(part = "swap" /\ SwapStep(s))
  /\ WF_vars(part = "swap" /\ AutoCorrect(attached))
CoreFairness ==
  /\ WF_coreVars(part = "core" /\ C!Answer) /\ SF_coreVars(part = "core" /\ C!Sync)
  /\ \A c \in Conns, d \in {"up", "down"} :
       /\ WF_coreVars(part = "core" /\ C!CloseBoth(c, d))
       /\ WF_coreVars(part = "core" /\ (C!Copy(c, d, FALSE) \/ C!Copy(c, d, TRUE)))
       /\ WF_coreVars(part = "core" /\ conn[c].closed /\ C!ReadEnds(c, d))

AllSpec     == AllInit /\ [][AllNext]_allVars
AllFairSpec == AllSpec /\ SwapFairness /\ CoreFairness
----------------------------------------------------------------------------
\* Every unit of traffic of the container is in one place
TrafficIsConserved  == C!TrafficIsConserved
\* A frozen user is refused by the container in the end
FrozenIsShutOut     == C!FrozenIsShutOut
\* When one direction of a connection ends, the other one does
ConnectionEndsWhole == C!ConnectionEndsWhole
=============================================================================
