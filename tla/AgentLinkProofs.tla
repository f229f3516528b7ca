--------------------------- MODULE AgentLinkProofs ---------------------------
(***************************************************************************)
(* Proofs about the hub, the agent and the link between them, for any sets *)
(* of nodes, connections and commands.                                     *)
(*                                                                         *)
(* First the hub alone: the registry names only live, authenticated agents *)
(* and misses none (RegistryInv), every wait has exactly the timer that    *)
(* ends it, no late event of a replaced connection evicts an agent that    *)
(* answers or marks a connected node offline, and a node's command is lost *)
(* only with its carrier.                                                  *)
(*                                                                         *)
(* The agent program is one of the peers the hub was modelled for: every   *)
(* step of AgentLink is a step of AgentHub or leaves the hub alone, so     *)
(* what is proved of the hub holds with the real agent.                    *)
(*                                                                         *)
(* And sendCommand keeps the safety part of RemoteCall.  CallInv is what   *)
(* this rests on: a command is in one place at a time, on its way to the   *)
(* agent before it was executed and on its way back only after.            *)
(*                                                                         *)
(* A piece of traffic, too, is in one place at a time (FlowInv), so it is  *)
(* recorded at most once.                                                  *)
(*                                                                         *)
(* Finally, while outages are shorter than the watchdog's patience, an     *)
(* agent has one chain of reconnections (ChainInv): a connection that is   *)
(* not closed is the one its agent uses and leaves no timer armed.         *)
(***************************************************************************)
EXTENDS AgentLink, FiniteSetTheorems, TLAPS

----------------------------------------------------------------------------
(* The hub *)

\* All pong timers of a node captured the same connection: a ping round
\* starts only after those of the previous round have fired.
PongTimersUnique ==
  \A n \in Nodes, c, d \in Conns :
    <<n, c>> \in pongTimers /\ <<n, d>> \in pongTimers => c = d

\* Only the credentials of a node authenticate.
AuthenticatedHasNode == \A c \in Conns : authed[c] => ident[c] \in Nodes

\* The inductive invariant.  NoOrphanConnection alone is not inductive: a
\* pong timer deletes the entry of the node but terminates the connection it
\* captured, and only the last two conjuncts tell that they are the same.
RegistryInv ==
  /\ TypeOK
  /\ AuthenticatedHasNode
  /\ RegistryHoldsLiveAgents
  /\ NoOrphanConnection
  /\ UnauthenticatedHasDeadline
  /\ UnansweredPingHasDeadline
  /\ PongTimersUnique

USE NoneAssumption

\* A started panel knows no agent and has armed no timer.
LEMMA InitInv == Init => RegistryInv
BY DEF Init, RegistryInv, TypeOK, AuthenticatedHasNode, RegistryHoldsLiveAgents, NoOrphanConnection,
       UnauthenticatedHasDeadline, UnansweredPingHasDeadline, PongTimersUnique,
       SockStates, CmdStates

\* What close() and terminate() do to the sockets
LEMMA CloseSockType ==
  ASSUME NEW C, sock \in [Conns -> SockStates]
  PROVE  /\ CloseSock(C) \in [Conns -> SockStates]
         /\ \A c \in Conns : CloseSock(C)[c] = "open" <=> sock[c] = "open" /\ c \notin C
         /\ \A c \in Conns : CloseSock(C)[c] = "gone" <=> sock[c] = "gone"
BY DEF CloseSock, SockStates

\* Settling the commands of some nodes keeps the table of commands typed
LEMMA CleanupType ==
  ASSUME NEW N, CleanupPendingCommands(N), TypeOK
  PROVE  /\ cmd' \in [Cmds -> [st : CmdStates, node : Nodes \cup {None}, via : Conns \cup {None}]]
         /\ cmdTimers' \subseteq Cmds
<1> DEFINE lost == {k \in Cmds : Pending(k) /\ cmd[k].node \in N}
<1>1. cmd' = [k \in Cmds |-> IF k \in lost THEN [cmd[k] EXCEPT !.st = "lost"] ELSE cmd[k]]
  BY DEF CleanupPendingCommands
<1>2. cmdTimers' = cmdTimers \ lost
  BY DEF CleanupPendingCommands
<1>3. ASSUME NEW k \in Cmds
      PROVE  [cmd[k] EXCEPT !.st = "lost"] \in
               [st : CmdStates, node : Nodes \cup {None}, via : Conns \cup {None}]
  BY DEF TypeOK, CmdStates
<1> QED
  BY <1>1, <1>2, <1>3 DEF TypeOK

\* Marking nodes offline keeps the database columns typed
LEMMA MarkOfflineType ==
  ASSUME NEW M, NEW P, MarkOffline(M, P), TypeOK
  PROVE  /\ active' \in [Nodes -> BOOLEAN]
         /\ lastReport' \in [Nodes -> {"never", "fresh", "old"}]
<1>1. active' \in [Nodes -> BOOLEAN]
  BY Zenon DEF MarkOffline, TypeOK
<1>2. lastReport' \in [Nodes -> {"never", "fresh", "old"}]
  BY DEF MarkOffline, TypeOK
<1> QED BY <1>1, <1>2
\* Every step keeps the types.
LEMMA TypeStep ==
  ASSUME TypeOK, [Next]_vars
  PROVE  TypeOK'
<1> USE DEF TypeOK, connVars, hubVars, cmdVars, dbVars
<1>1. ASSUME NEW c \in Conns, NEW n \in Nodes \cup {None}, Connect(c, n) PROVE TypeOK'
  BY <1>1 DEF Connect, SockStates
<1>2. ASSUME NEW c \in Conns, HandleAuth(c) PROVE TypeOK'
  BY <1>2, CloseSockType DEF HandleAuth
<1>3. ASSUME NEW c \in Conns, RejectMessage(c) PROVE TypeOK'
  BY <1>3, CloseSockType DEF RejectMessage
<1>4. ASSUME NEW c \in Conns, AuthTimeout(c) PROVE TypeOK'
  BY <1>4, CloseSockType DEF AuthTimeout
<1>5. ASSUME NEW c \in Conns, Vanish(c) PROVE TypeOK'
  BY <1>5 DEF Vanish
<1>6. ASSUME NEW c \in Conns, SocketEnds(c) PROVE TypeOK'
  BY <1>6 DEF SocketEnds, SockStates
<1>7. ASSUME NEW c \in Conns, CloseEvent(c) PROVE TypeOK'
  <2>1. CASE authed[c] /\ agents[ident[c]] = c
    <3>1. CleanupPendingCommands({ident[c]})
      BY <1>7, <2>1 DEF CloseEvent
    <3>2. ident[c] \in Nodes \cup {None}
      OBVIOUS
    <3>3. graceTimers' \in [Nodes -> Nat]
      BY <1>7, <2>1 DEF CloseEvent
    <3> QED
      BY <1>7, <2>1, <3>1, <3>3, CleanupType DEF CloseEvent, SockStates
  <2>2. CASE ~(authed[c] /\ agents[ident[c]] = c)
    BY <1>7, <2>2 DEF CloseEvent, SockStates
  <2> QED BY <2>1, <2>2
<1>8. ASSUME NEW c \in Conns, HandlePong(c) PROVE TypeOK'
  BY <1>8 DEF HandlePong
<1>9. ASSUME NEW c \in Conns, HandleReport(c) PROVE TypeOK'
  <2>1. active' \in [Nodes -> BOOLEAN]
    BY <1>9, Zenon DEF HandleReport
  <2>2. lastReport' \in [Nodes -> {"never", "fresh", "old"}]
    BY <1>9 DEF HandleReport
  <2> QED
    BY <1>9, <2>1, <2>2 DEF HandleReport
<1>10. ASSUME NEW k \in Cmds, NEW n \in Nodes, SendCommand(k, n) PROVE TypeOK'
  <2>1. \A m \in Carriers(n) : agents[m] \in Conns
    BY DEF Carriers, OwnCarrier
  <2>2. cmd' \in [Cmds -> [st : CmdStates, node : Nodes \cup {None}, via : Conns \cup {None}]]
    BY <1>10, <2>1 DEF SendCommand, CmdStates
  <2>3. cmdTimers' \subseteq Cmds
    BY <1>10 DEF SendCommand
  <2> QED
    BY <1>10, <2>2, <2>3 DEF SendCommand
<1>11. ASSUME NEW k \in Cmds, NEW c \in Conns, HandleCmdResult(c, k) PROVE TypeOK'
  BY <1>11 DEF HandleCmdResult, CmdStates
<1>12. ASSUME NEW k \in Cmds, CmdTimeout(k) PROVE TypeOK'
  BY <1>12 DEF CmdTimeout, CmdStates
<1>13. ASSUME NEW n \in Nodes, GraceTimeout(n) PROVE TypeOK'
  <2>1. graceTimers' \in [Nodes -> Nat]
    BY <1>13 DEF GraceTimeout
  <2>2. CASE agents[n] = None /\ active[n]
    <3>1. MarkOffline({n}, Peers(n))
      BY <1>13, <2>2 DEF GraceTimeout
    <3> QED
      BY <1>13, <2>1, <3>1, MarkOfflineType DEF GraceTimeout
  <2>3. CASE ~(agents[n] = None /\ active[n])
    BY <1>13, <2>1, <2>3 DEF GraceTimeout
  <2> QED BY <2>2, <2>3
<1>14. ASSUME NEW n \in Nodes, NEW c \in Conns, PongTimeout(n, c) PROVE TypeOK'
  <2>1. CASE agents[n] # None /\ ~pongReceived[n]
    <3>1. CleanupPendingCommands({n})
      BY <1>14, <2>1 DEF PongTimeout
    <3>2. sock' \in [Conns -> SockStates]
      BY <1>14, <2>1, CloseSockType DEF PongTimeout
    <3>3. /\ cmd' \in [Cmds -> [st : CmdStates, node : Nodes \cup {None}, via : Conns \cup {None}]]
          /\ cmdTimers' \subseteq Cmds
      BY <3>1, CleanupType
    <3>4. agents' \in [Nodes -> Conns \cup {None}]
      BY <1>14, <2>1 DEF PongTimeout
    <3>5. pongReceived' \in [Nodes -> BOOLEAN]
      BY <1>14, <2>1 DEF PongTimeout
    <3> QED
      BY <1>14, <3>2, <3>3, <3>4, <3>5 DEF PongTimeout
  <2>2. CASE ~(agents[n] # None /\ ~pongReceived[n])
    BY <1>14, <2>2 DEF PongTimeout
  <2> QED BY <2>1, <2>2
<1>15. ASSUME NEW n \in Nodes, Age(n) PROVE TypeOK'
  BY <1>15 DEF Age
<1>16. ASSUME PingTick PROVE TypeOK'
  <2> DEFINE dropped == {n \in Nodes : agents[n] # None /\ sock[agents[n]] # "open"}
             pinged  == {n \in Nodes : agents[n] # None /\ sock[agents[n]] = "open"}
  <2>1. CleanupPendingCommands(dropped)
    BY <1>16 DEF PingTick
  <2>2. pongTimers' \subseteq Nodes \X Conns
    BY <1>16 DEF PingTick
  <2>3. pongReceived' \in [Nodes -> BOOLEAN]
    BY <1>16, Zenon DEF PingTick
  <2>4. agents' \in [Nodes -> Conns \cup {None}]
    BY <1>16 DEF PingTick
  <2> QED
    BY <1>16, <2>1, <2>2, <2>3, <2>4, CleanupType DEF PingTick
<1>17. ASSUME StaleCheck PROVE TypeOK'
  BY <1>17, MarkOfflineType DEF StaleCheck
<1>18. ASSUME Restart PROVE TypeOK'
  BY <1>18 DEF Restart, Pending, CmdStates, SockStates
<1>19. CASE UNCHANGED vars
  BY <1>19 DEF vars
<1> QED
  BY <1>1, <1>2, <1>3, <1>4, <1>5, <1>6, <1>7, <1>8, <1>9, <1>10, <1>11, <1>12,
     <1>13, <1>14, <1>15, <1>16, <1>17, <1>18, <1>19
  DEF Next, ConnStep, CmdStep, NodeStep
\* The part of the state the registry invariant is about
RegistryVars == <<sock, ident, authed, authTimer, agents, pongReceived, pongTimers>>

RegistryCore ==
  /\ AuthenticatedHasNode
  /\ RegistryHoldsLiveAgents
  /\ NoOrphanConnection
  /\ UnauthenticatedHasDeadline
  /\ UnansweredPingHasDeadline
  /\ PongTimersUnique

\* Commands, reports and the database cannot disturb the registry.
LEMMA RegistryUnchanged ==
  ASSUME RegistryCore, UNCHANGED RegistryVars
  PROVE  RegistryCore'
BY DEF RegistryCore, RegistryVars, AuthenticatedHasNode, RegistryHoldsLiveAgents, NoOrphanConnection,
       UnauthenticatedHasDeadline, UnansweredPingHasDeadline, PongTimersUnique

\* Sockets that close, with the maps left alone, cannot disturb it either, as
\* long as no 'close' event runs and no authentication timer of an open
\* connection is lost.
LEMMA SocketsClosing ==
  ASSUME RegistryCore, TypeOK,
         UNCHANGED <<ident, authed, agents, pongReceived, pongTimers>>,
         \A d \in Conns : /\ sock'[d] = "open" => sock[d] = "open"
                          /\ sock'[d] = "gone" => sock[d] = "gone"
                          /\ sock'[d] = "open" /\ ~authed[d] /\ d \in authTimer => d \in authTimer'
  PROVE  RegistryCore'
<1>1. RegistryHoldsLiveAgents'
  BY DEF RegistryCore, RegistryHoldsLiveAgents, TypeOK
<1>2. NoOrphanConnection'
  BY DEF RegistryCore, NoOrphanConnection
<1>3. UnauthenticatedHasDeadline'
  BY DEF RegistryCore, UnauthenticatedHasDeadline
<1>4. UnansweredPingHasDeadline' /\ PongTimersUnique' /\ AuthenticatedHasNode'
  BY DEF RegistryCore, UnansweredPingHasDeadline, PongTimersUnique, AuthenticatedHasNode
<1> QED
  BY <1>1, <1>2, <1>3, <1>4 DEF RegistryCore

\* Every step keeps the rest of the registry invariant.
LEMMA RegistryStep ==
  ASSUME TypeOK, RegistryCore, [Next]_vars
  PROVE  RegistryCore'
<1> USE DEF RegistryCore
<1>t. /\ sock \in [Conns -> SockStates]
      /\ ident \in [Conns -> Nodes \cup {None}]
      /\ authed \in [Conns -> BOOLEAN]
      /\ agents \in [Nodes -> Conns \cup {None}]
      /\ pongReceived \in [Nodes -> BOOLEAN]
      /\ pongTimers \subseteq Nodes \X Conns
  BY DEF TypeOK
<1>1. ASSUME NEW c \in Conns, NEW n \in Nodes \cup {None}, Connect(c, n) PROVE RegistryCore'
  <2>1. /\ sock[c] = "gone" /\ sock' = [sock EXCEPT ![c] = "open"]
        /\ ident' = [ident EXCEPT ![c] = n]
        /\ authed' = [authed EXCEPT ![c] = FALSE]
        /\ authTimer' = authTimer \cup {c}
        /\ UNCHANGED <<agents, pongReceived, pongTimers>>
    BY <1>1 DEF Connect, hubVars
  <2>2. RegistryHoldsLiveAgents'
    BY <1>t, <2>1 DEF RegistryHoldsLiveAgents
  <2>3. NoOrphanConnection'
    BY <1>t, <2>1 DEF NoOrphanConnection
  <2>4. UnauthenticatedHasDeadline'
    BY <1>t, <2>1 DEF UnauthenticatedHasDeadline
  <2>5. UnansweredPingHasDeadline' /\ PongTimersUnique'
    BY <2>1 DEF UnansweredPingHasDeadline, PongTimersUnique
  <2>6. AuthenticatedHasNode'
    BY <1>t, <2>1 DEF AuthenticatedHasNode
  <2> QED BY <2>2, <2>3, <2>4, <2>5, <2>6
<1>2. ASSUME NEW c \in Conns, HandleAuth(c) PROVE RegistryCore'
  <2> DEFINE n == ident[c]
             C == {agents[n]} \ {c}
  <2>1. /\ n \in Nodes /\ ~authed[c] /\ sock[c] # "gone"
        /\ sock' = CloseSock(C)
        /\ authTimer' = authTimer \ {c}
        /\ authed' = [authed EXCEPT ![c] = TRUE]
        /\ agents' = [agents EXCEPT ![n] = c]
        /\ pongReceived' = [pongReceived EXCEPT ![n] = TRUE]
        /\ UNCHANGED <<ident, pongTimers>>
    BY <1>2, <1>t DEF HandleAuth, Receives
  <2>2. /\ \A d \in Conns : sock'[d] = "open" <=> sock[d] = "open" /\ d \notin C
        /\ \A d \in Conns : sock'[d] = "gone" <=> sock[d] = "gone"
    BY <1>t, <2>1, CloseSockType
  <2>3. RegistryHoldsLiveAgents'
    <3> SUFFICES ASSUME NEW m \in Nodes, agents'[m] # None
                 PROVE  /\ sock'[agents'[m]] # "gone"
                        /\ authed'[agents'[m]]
                        /\ ident'[agents'[m]] = m
      BY DEF RegistryHoldsLiveAgents
    <3>1. CASE m = n
      BY <1>t, <2>1, <2>2, <3>1
    <3>2. CASE m # n
      <4>1. agents'[m] = agents[m] /\ agents[m] \in Conns
        BY <1>t, <2>1, <3>2
      <4>2. sock[agents[m]] # "gone" /\ authed[agents[m]] /\ ident[agents[m]] = m
        BY <4>1 DEF RegistryHoldsLiveAgents
      <4> QED
        BY <1>t, <2>1, <2>2, <4>1, <4>2
    <3> QED BY <3>1, <3>2
  <2>4. NoOrphanConnection'
    <3> SUFFICES ASSUME NEW d \in Conns, sock'[d] = "open", authed'[d]
                 PROVE  agents'[ident'[d]] = d
      BY DEF NoOrphanConnection
    <3>1. CASE d = c
      BY <1>t, <2>1, <3>1
    <3>2. CASE d # c
      <4>1. sock[d] = "open" /\ d \notin C /\ authed[d]
        BY <1>t, <2>1, <2>2, <3>2
      <4>2. agents[ident[d]] = d /\ ident[d] \in Nodes
        BY <4>1 DEF NoOrphanConnection, AuthenticatedHasNode
      <4>3. ident[d] # n
        BY <3>2, <4>1, <4>2
      <4> QED BY <1>t, <2>1, <4>2, <4>3
    <3> QED BY <3>1, <3>2
  <2>5. UnauthenticatedHasDeadline'
    BY <1>t, <2>1, <2>2 DEF UnauthenticatedHasDeadline
  <2>6. UnansweredPingHasDeadline' /\ PongTimersUnique'
    BY <1>t, <2>1 DEF UnansweredPingHasDeadline, PongTimersUnique
  <2>7. AuthenticatedHasNode'
    BY <1>t, <2>1 DEF AuthenticatedHasNode
  <2> QED BY <2>3, <2>4, <2>5, <2>6, <2>7
<1>3. ASSUME NEW c \in Conns, RejectMessage(c) PROVE RegistryCore'
  <2>1. \A d \in Conns : /\ sock'[d] = "open" => sock[d] = "open"
                         /\ sock'[d] = "gone" => sock[d] = "gone"
    BY <1>3, <1>t, CloseSockType DEF RejectMessage
  <2>2. UNCHANGED <<ident, authed, authTimer, agents, pongReceived, pongTimers>>
    BY <1>3 DEF RejectMessage, hubVars
  <2> QED
    BY <2>1, <2>2, SocketsClosing
<1>4. ASSUME NEW c \in Conns, AuthTimeout(c) PROVE RegistryCore'
  <2>1. \A d \in Conns : /\ sock'[d] = "open" => sock[d] = "open"
                         /\ sock'[d] = "gone" => sock[d] = "gone"
                         /\ sock'[d] = "open" /\ d = c => authed[c]
    BY <1>4, <1>t, CloseSockType DEF AuthTimeout
  <2>2. /\ UNCHANGED <<ident, authed, agents, pongReceived, pongTimers>>
        /\ authTimer' = authTimer \ {c}
    BY <1>4 DEF AuthTimeout, hubVars
  <2>3. \A d \in Conns :
          sock'[d] = "open" /\ ~authed[d] /\ d \in authTimer => d \in authTimer'
    BY <2>1, <2>2
  <2> QED
    BY <2>1, <2>2, <2>3, SocketsClosing
<1>5. ASSUME NEW c \in Conns, SocketEnds(c) PROVE RegistryCore'
  <2>1. \A d \in Conns : /\ sock'[d] = "open" => sock[d] = "open"
                         /\ sock'[d] = "gone" => sock[d] = "gone"
    BY <1>5, <1>t DEF SocketEnds
  <2>2. UNCHANGED <<ident, authed, authTimer, agents, pongReceived, pongTimers>>
    BY <1>5 DEF SocketEnds, hubVars
  <2> QED
    BY <2>1, <2>2, SocketsClosing
<1>6. ASSUME NEW c \in Conns, CloseEvent(c) PROVE RegistryCore'
  <2>1. /\ sock' = [sock EXCEPT ![c] = "gone"]
        /\ authTimer' = authTimer \ {c}
        /\ ident' = [ident EXCEPT ![c] = None]
        /\ authed' = [authed EXCEPT ![c] = FALSE]
        /\ UNCHANGED pongTimers
    BY <1>6 DEF CloseEvent
  <2>2. \A n \in Nodes : /\ agents'[n] = IF agents[n] = c THEN None ELSE agents[n]
                         /\ agents[n] # c => pongReceived'[n] = pongReceived[n]
    BY <1>6, <1>t DEF CloseEvent, RegistryHoldsLiveAgents
  <2>3. RegistryHoldsLiveAgents'
    BY <1>t, <2>1, <2>2 DEF RegistryHoldsLiveAgents
  <2>4. NoOrphanConnection'
    <3> SUFFICES ASSUME NEW d \in Conns, sock'[d] = "open", authed'[d]
                 PROVE  agents'[ident'[d]] = d
      BY DEF NoOrphanConnection
    <3>1. d # c /\ sock[d] = "open" /\ authed[d] /\ ident'[d] = ident[d]
      BY <1>t, <2>1
    <3>2. agents[ident[d]] = d /\ ident[d] \in Nodes
      BY <3>1 DEF NoOrphanConnection, AuthenticatedHasNode
    <3> QED
      BY <2>2, <3>1, <3>2
  <2>5. UnauthenticatedHasDeadline'
    BY <1>t, <2>1 DEF UnauthenticatedHasDeadline
  <2>6. UnansweredPingHasDeadline' /\ PongTimersUnique'
    BY <2>1, <2>2 DEF UnansweredPingHasDeadline, PongTimersUnique
  <2>7. AuthenticatedHasNode'
    BY <1>t, <2>1 DEF AuthenticatedHasNode
  <2> QED BY <2>3, <2>4, <2>5, <2>6, <2>7
<1>7. ASSUME NEW c \in Conns, HandlePong(c) PROVE RegistryCore'
  <2>1. /\ UNCHANGED <<sock, ident, authed, authTimer, agents, pongTimers>>
        /\ pongReceived' = [pongReceived EXCEPT ![ident[c]] = TRUE]
    BY <1>7 DEF HandlePong, connVars
  <2>2. RegistryHoldsLiveAgents' /\ NoOrphanConnection' /\ UnauthenticatedHasDeadline'
    BY <2>1 DEF RegistryHoldsLiveAgents, NoOrphanConnection, UnauthenticatedHasDeadline
  <2>3. UnansweredPingHasDeadline' /\ PongTimersUnique'
    BY <1>t, <2>1 DEF UnansweredPingHasDeadline, PongTimersUnique
  <2>4. AuthenticatedHasNode'
    BY <2>1 DEF AuthenticatedHasNode
  <2> QED BY <2>2, <2>3, <2>4
<1>8. ASSUME NEW n \in Nodes, NEW c \in Conns, PongTimeout(n, c) PROVE RegistryCore'
  <2>1. CASE agents[n] # None /\ ~pongReceived[n]
    <3>1. /\ <<n, c>> \in pongTimers
          /\ pongTimers' = pongTimers \ {<<n, c>>}
          /\ sock' = CloseSock({c})
          /\ agents' = [agents EXCEPT ![n] = None]
          /\ pongReceived' = [pongReceived EXCEPT ![n] = TRUE]
          /\ UNCHANGED <<ident, authed, authTimer>>
      BY <1>8, <2>1 DEF PongTimeout
    <3>2. agents[n] = c
      BY <1>t, <2>1, <3>1 DEF UnansweredPingHasDeadline, PongTimersUnique
    <3>3. /\ \A d \in Conns : sock'[d] = "open" <=> sock[d] = "open" /\ d # c
          /\ \A d \in Conns : sock'[d] = "gone" <=> sock[d] = "gone"
      BY <1>t, <3>1, CloseSockType
    <3>4. RegistryHoldsLiveAgents'
      <4> SUFFICES ASSUME NEW m \in Nodes, agents'[m] # None
                   PROVE  /\ sock'[agents'[m]] # "gone"
                          /\ authed'[agents'[m]]
                          /\ ident'[agents'[m]] = m
        BY DEF RegistryHoldsLiveAgents
      <4>1. m # n /\ agents'[m] = agents[m] /\ agents[m] \in Conns
        BY <1>t, <3>1
      <4>2. sock[agents[m]] # "gone" /\ authed[agents[m]] /\ ident[agents[m]] = m
        BY <4>1 DEF RegistryHoldsLiveAgents
      <4> QED
        BY <3>1, <3>3, <4>1, <4>2
    <3>5. NoOrphanConnection'
      <4> SUFFICES ASSUME NEW d \in Conns, sock'[d] = "open", authed'[d]
                   PROVE  agents'[ident'[d]] = d
        BY DEF NoOrphanConnection
      <4>1. d # c /\ sock[d] = "open" /\ authed[d] /\ ident'[d] = ident[d]
        BY <3>1, <3>3
      <4>2. agents[ident[d]] = d /\ ident[d] \in Nodes
        BY <4>1 DEF NoOrphanConnection, AuthenticatedHasNode
      <4>3. ident[d] # n
        BY <3>2, <4>1, <4>2
      <4> QED
        BY <1>t, <3>1, <4>1, <4>2, <4>3
    <3>6. UnauthenticatedHasDeadline'
      BY <3>1, <3>3 DEF UnauthenticatedHasDeadline
    <3>7. UnansweredPingHasDeadline' /\ PongTimersUnique'
      BY <1>t, <3>1 DEF UnansweredPingHasDeadline, PongTimersUnique
    <3>8. AuthenticatedHasNode'
      BY <3>1 DEF AuthenticatedHasNode
    <3> QED BY <3>4, <3>5, <3>6, <3>7, <3>8
  <2>2. CASE ~(agents[n] # None /\ ~pongReceived[n])
    <3>1. /\ pongTimers' = pongTimers \ {<<n, c>>}
          /\ UNCHANGED <<sock, ident, authed, authTimer, agents, pongReceived>>
      BY <1>8, <2>2 DEF PongTimeout
    <3>2. RegistryHoldsLiveAgents' /\ NoOrphanConnection' /\ UnauthenticatedHasDeadline'
      BY <3>1 DEF RegistryHoldsLiveAgents, NoOrphanConnection, UnauthenticatedHasDeadline
    <3>3. UnansweredPingHasDeadline' /\ PongTimersUnique'
      BY <2>2, <3>1 DEF UnansweredPingHasDeadline, PongTimersUnique
    <3>4. AuthenticatedHasNode'
      BY <3>1 DEF AuthenticatedHasNode
    <3> QED BY <3>2, <3>3, <3>4
  <2> QED BY <2>1, <2>2
<1>9. ASSUME PingTick PROVE RegistryCore'
  <2>1. \A n \in Nodes : agents'[n] = IF agents[n] # None /\ sock[agents[n]] # "open"
                                         THEN None ELSE agents[n]
    BY <1>9 DEF PingTick
  <2>2. \A n \in Nodes : ~pongReceived'[n] => agents[n] # None /\ sock[agents[n]] = "open"
    BY <1>9 DEF PingTick
  <2>3. pongTimers' = {<<n, agents[n]>> : n \in {m \in Nodes : agents[m] # None /\ sock[agents[m]] = "open"}}
    BY <1>9 DEF PingTick
  <2>4. UNCHANGED <<sock, authed, ident, authTimer>>
    BY <1>9 DEF PingTick, connVars
  <2>5. RegistryHoldsLiveAgents'
    BY <2>1, <2>4 DEF RegistryHoldsLiveAgents
  <2>6. NoOrphanConnection'
    <3> SUFFICES ASSUME NEW c \in Conns, sock[c] = "open", authed[c]
                 PROVE  agents'[ident[c]] = c
      BY <2>4 DEF NoOrphanConnection
    <3>1. agents[ident[c]] = c /\ ident[c] \in Nodes
      BY DEF NoOrphanConnection, AuthenticatedHasNode
    <3> QED
      BY <2>1, <3>1
  <2>7. UnauthenticatedHasDeadline'
    BY <2>4 DEF UnauthenticatedHasDeadline
  <2>8. UnansweredPingHasDeadline' /\ PongTimersUnique'
    BY <2>1, <2>2, <2>3 DEF UnansweredPingHasDeadline, PongTimersUnique
  <2>9. AuthenticatedHasNode'
    BY <2>4 DEF AuthenticatedHasNode
  <2> QED BY <2>5, <2>6, <2>7, <2>8, <2>9
<1>10. ASSUME Restart PROVE RegistryCore'
  BY <1>10 DEF Restart, AuthenticatedHasNode, RegistryHoldsLiveAgents, NoOrphanConnection,
               UnauthenticatedHasDeadline, UnansweredPingHasDeadline, PongTimersUnique
<1>11. CASE UNCHANGED RegistryVars
  BY <1>11, RegistryUnchanged
<1>12. ASSUME NEW c \in Conns, Vanish(c) \/ HandleReport(c) PROVE UNCHANGED RegistryVars
  BY <1>12 DEF Vanish, HandleReport, RegistryVars, connVars, hubVars
<1>13. ASSUME NEW k \in Cmds, CmdStep(k) PROVE UNCHANGED RegistryVars
  BY <1>13 DEF CmdStep, SendCommand, HandleCmdResult, CmdTimeout, RegistryVars, connVars, hubVars
<1>14. ASSUME NEW n \in Nodes, GraceTimeout(n) \/ Age(n) PROVE UNCHANGED RegistryVars
  BY <1>14 DEF GraceTimeout, Age, RegistryVars, connVars, hubVars
<1>15. ASSUME StaleCheck PROVE UNCHANGED RegistryVars
  BY <1>15 DEF StaleCheck, RegistryVars, connVars, hubVars
<1>16. CASE UNCHANGED vars
  BY <1>16, RegistryUnchanged DEF vars, connVars, hubVars, RegistryVars
<1> QED
  BY <1>1, <1>2, <1>3, <1>4, <1>5, <1>6, <1>7, <1>8, <1>9, <1>10, <1>11, <1>12,
     <1>13, <1>14, <1>15, <1>16
  DEF Next, ConnStep, NodeStep

\* The inductive invariant holds in every reachable state.
THEOREM RegistryInvariant == Spec => []RegistryInv
<1>1. RegistryInv /\ [Next]_vars => RegistryInv'
  BY TypeStep, RegistryStep DEF RegistryInv, RegistryCore
<1> QED
  BY <1>1, InitInv, PTL DEF Spec

\* agent-ws.js keeps its maps well typed, whatever the order of socket events,
\* messages and timers.
THEOREM TypeCorrect == Spec => []TypeOK
BY RegistryInvariant, PTL DEF RegistryInv

\* An entry of the registry is an authenticated connection of that node whose
\* close handler has still to run, and no agent is connected, authenticated and
\* ignored.
THEOREM RegistryCorrect == Spec => []RegistryMatchesConnections
BY RegistryInvariant, PTL DEF RegistryInv, RegistryMatchesConnections

\* Whoever takes a command out of the table clears its timer, and nobody else
\* does.
LEMMA CommandTimersStep ==
  ASSUME TypeOK, CommandTimersMatch, [Next]_vars
  PROVE  CommandTimersMatch'
<1>t. /\ cmd \in [Cmds -> [st : CmdStates, node : Nodes \cup {None}, via : Conns \cup {None}]]
      /\ \A k \in Cmds : k \in cmdTimers <=> cmd[k].st = "pending"
      /\ cmdTimers \subseteq Cmds
  BY DEF TypeOK, CommandTimersMatch, Pending
<1>0. CASE UNCHANGED cmdVars
  BY <1>0 DEF CommandTimersMatch, Pending, cmdVars
<1>1. ASSUME NEW N, CleanupPendingCommands(N) PROVE CommandTimersMatch'
  BY <1>1, <1>t DEF CleanupPendingCommands, CommandTimersMatch, Pending
<1>2. ASSUME NEW c \in Conns, ConnStep(c)
      PROVE  UNCHANGED cmdVars \/ \E N : CleanupPendingCommands(N)
  <2>1. CASE CloseEvent(c)
    BY <2>1 DEF CloseEvent, cmdVars
  <2>2. CASE ~CloseEvent(c)
    BY <1>2, <2>2 DEF ConnStep, Connect, HandleAuth, RejectMessage, AuthTimeout, Vanish,
                      SocketEnds, HandlePong, HandleReport
  <2> QED BY <2>1, <2>2
<1>3. ASSUME NEW k \in Cmds, NEW n \in Nodes, SendCommand(k, n) PROVE CommandTimersMatch'
  <2>1. CASE Online(n)
    <3>1. PICK m \in Carriers(n) :
            cmd' = [cmd EXCEPT ![k] = [st |-> "pending", node |-> n, via |-> agents[m]]]
      BY <1>3, <2>1 DEF SendCommand
    <3>2. cmdTimers' = cmdTimers \cup {k}
      BY <1>3, <2>1 DEF SendCommand
    <3> QED BY <1>t, <3>1, <3>2 DEF CommandTimersMatch, Pending
  <2>2. CASE ~Online(n)
    BY <1>3, <1>t, <2>2 DEF SendCommand, CommandTimersMatch, Pending
  <2> QED BY <2>1, <2>2
<1>4. ASSUME NEW k \in Cmds, NEW c \in Conns, HandleCmdResult(c, k) PROVE CommandTimersMatch'
  BY <1>4, <1>t DEF HandleCmdResult, CommandTimersMatch, Pending
<1>5. ASSUME NEW k \in Cmds, CmdTimeout(k) PROVE CommandTimersMatch'
  BY <1>5, <1>t DEF CmdTimeout, CommandTimersMatch, Pending
<1>6. ASSUME NEW n \in Nodes, NodeStep(n)
      PROVE  UNCHANGED cmdVars \/ \E N : CleanupPendingCommands(N)
  <2>1. ASSUME NEW c \in Conns, PongTimeout(n, c)
        PROVE  UNCHANGED cmdVars \/ \E N : CleanupPendingCommands(N)
    BY <2>1 DEF PongTimeout, cmdVars
  <2>2. CASE GraceTimeout(n) \/ Age(n)
    BY <2>2 DEF GraceTimeout, Age
  <2> QED BY <1>6, <2>1, <2>2 DEF NodeStep
<1>7. CASE PingTick
  BY <1>1, <1>7 DEF PingTick
<1>8. CASE StaleCheck
  BY <1>0, <1>8 DEF StaleCheck
<1>9. CASE Restart
  BY <1>9, <1>t DEF Restart, CommandTimersMatch, Pending
<1>10. CASE UNCHANGED vars
  BY <1>0, <1>10 DEF vars
<1> QED
  BY <1>0, <1>1, <1>2, <1>3, <1>4, <1>5, <1>6, <1>7, <1>8, <1>9, <1>10 DEF Next, CmdStep

\* Every unanswered ping and every unauthenticated connection has an armed
\* timer that will close the connection, every pending command one that will
\* settle it, and no other command has one.
THEOREM TimersCorrect == Spec => []TimersMatch
<1>1. Init => CommandTimersMatch
  BY DEF Init, CommandTimersMatch, Pending
<1>2. RegistryInv /\ CommandTimersMatch /\ [Next]_vars => CommandTimersMatch'
  BY CommandTimersStep DEF RegistryInv
<1>3. RegistryInv /\ CommandTimersMatch => TimersMatch
  BY DEF RegistryInv, TimersMatch
<1> QED
  BY <1>1, <1>2, <1>3, RegistryInvariant, PTL DEF Spec

\* What one step may do to the entry of a node.
EvictionStep ==
  \A n \in Nodes :
    (agents[n] # None /\ sock[agents[n]] = "open" /\ pongReceived[n])
      => \/ agents'[n] # None
         \/ sock'[agents[n]] = "gone"

\* No single step evicts an agent that answers.
LEMMA EvictionJustified ==
  ASSUME RegistryInv, [Next]_vars
  PROVE  EvictionStep
<1> SUFFICES ASSUME NEW n \in Nodes,
                    agents[n] # None, sock[agents[n]] = "open", pongReceived[n]
             PROVE  agents'[n] # None \/ sock'[agents[n]] = "gone"
  BY DEF EvictionStep
<1>t. /\ agents \in [Nodes -> Conns \cup {None}]
      /\ sock \in [Conns -> SockStates]
      /\ agents[n] \in Conns
  BY DEF RegistryInv, TypeOK
<1>1. ASSUME NEW c \in Conns, HandleAuth(c) PROVE agents'[n] # None
  BY <1>1, <1>t DEF HandleAuth
<1>2. ASSUME NEW c \in Conns, CloseEvent(c) PROVE agents'[n] # None
  <2>1. agents[n] # c
    BY <1>2 DEF CloseEvent
  <2>2. \/ agents' = agents
        \/ /\ agents' = [agents EXCEPT ![ident[c]] = None]
           /\ agents[ident[c]] = c
    <3>1. CASE authed[c] /\ agents[ident[c]] = c
      BY <1>2, <3>1 DEF CloseEvent
    <3>2. CASE ~(authed[c] /\ agents[ident[c]] = c)
      BY <1>2, <3>2 DEF CloseEvent
    <3> QED BY <3>1, <3>2
  <2> QED
    BY <1>t, <2>1, <2>2
<1>3. ASSUME NEW m \in Nodes, NEW c \in Conns, PongTimeout(m, c) PROVE agents'[n] # None
  BY <1>3, <1>t DEF PongTimeout
<1>4. ASSUME PingTick PROVE agents'[n] # None
  BY <1>4 DEF PingTick
<1>5. ASSUME Restart PROVE sock'[agents[n]] = "gone"
  BY <1>5, <1>t DEF Restart
<1>6. CASE UNCHANGED agents
  BY <1>6
<1>7. ASSUME NEW c \in Conns,
             \/ \E m \in Nodes \cup {None} : Connect(c, m)
             \/ RejectMessage(c) \/ AuthTimeout(c) \/ Vanish(c)
             \/ SocketEnds(c) \/ HandlePong(c) \/ HandleReport(c)
      PROVE  UNCHANGED agents
  BY <1>7 DEF Connect, RejectMessage, AuthTimeout, Vanish, SocketEnds, HandlePong,
              HandleReport, hubVars
<1>8. ASSUME NEW k \in Cmds, CmdStep(k) PROVE UNCHANGED agents
  BY <1>8 DEF CmdStep, SendCommand, HandleCmdResult, CmdTimeout, hubVars
<1>9. ASSUME NEW m \in Nodes, GraceTimeout(m) \/ Age(m) PROVE UNCHANGED agents
  BY <1>9 DEF GraceTimeout, Age, hubVars
<1>10. ASSUME StaleCheck \/ UNCHANGED vars PROVE UNCHANGED agents
  BY <1>10 DEF StaleCheck, vars, hubVars
<1> QED
  BY <1>1, <1>2, <1>3, <1>4, <1>5, <1>6, <1>7, <1>8, <1>9, <1>10
  DEF Next, ConnStep, NodeStep

\* An agent that answers its pings is evicted by nothing but a newer
\* connection of its node or the end of the panel process.
THEOREM AnsweringAgentStays == Spec => AnsweringAgentNotEvicted
<1>1. RegistryInv /\ [Next]_vars => [EvictionStep]_vars
  BY EvictionJustified
<1> QED
  BY <1>1, RegistryInvariant, PTL DEF Spec, AnsweringAgentNotEvicted, EvictionStep

----------------------------------------------------------------------------
\* The twins of a node have it as a twin.
LEMMA PeersSymmetric == \A n, m \in Nodes : n \in Peers(m) => m \in Peers(n)
BY DEF Peers

\* What one step may do to the status of a node.
OfflineStep ==
  \A n \in Nodes :
    (active[n] /\ ~active'[n])
      => \/ \E c \in Conns : HandleReport(c)
         \/ \E m \in {n} \cup Peers(n) : ~OwnCarrier(m)

\* Besides a report, only two steps mark nodes offline, for the absence of a
\* node that they know: the grace timer and the stale check.
LEMMA OfflineJustified == ASSUME TypeOK, [Next]_vars PROVE OfflineStep
<1> SUFFICES ASSUME NEW n \in Nodes, active[n], ~active'[n],
                    ~\E c \in Conns : HandleReport(c)
             PROVE  \E m \in {n} \cup Peers(n) : ~OwnCarrier(m)
  BY DEF OfflineStep
<1>1. ASSUME NEW g \in Nodes, ~OwnCarrier(g), n \in {g} \cup Peers(g)
      PROVE  \E m \in {n} \cup Peers(n) : ~OwnCarrier(m)
  BY <1>1, PeersSymmetric
<1>2. ASSUME NEW M, NEW P, MarkOffline(M, P) PROVE n \in M \cup P
  BY <1>2 DEF MarkOffline
<1>3. ASSUME NEW g \in Nodes, GraceTimeout(g)
      PROVE  \E m \in {n} \cup Peers(n) : ~OwnCarrier(m)
  <2>1. agents[g] = None /\ MarkOffline({g}, Peers(g))
    BY <1>3 DEF GraceTimeout, dbVars
  <2>2. n \in {g} \cup Peers(g)
    BY <1>2, <2>1
  <2> QED BY <1>1, <2>1, <2>2 DEF OwnCarrier
<1>4. CASE StaleCheck
  <2> DEFINE stale == {m \in Nodes : /\ active[m]
                                     /\ ~Online(m)
                                     /\ \A p \in Peers(m) : ~Online(p)
                                     /\ lastReport[m] = "old"}
  <2>1. MarkOffline(stale, UNION {Peers(m) : m \in stale})
    BY <1>4 DEF StaleCheck
  <2>2. PICK g \in stale : n \in {g} \cup Peers(g)
    BY <1>2, <2>1
  <2>3. ~OwnCarrier(g)
    BY <2>2 DEF Online, Carriers
  <2> QED BY <1>1, <2>2, <2>3
<1>5. ASSUME NEW c \in Conns, ConnStep(c) PROVE UNCHANGED active
  BY <1>5 DEF ConnStep, Connect, HandleAuth, RejectMessage, AuthTimeout, Vanish, SocketEnds,
              CloseEvent, HandlePong, dbVars
<1>6. ASSUME NEW k \in Cmds, CmdStep(k) PROVE UNCHANGED active
  BY <1>6 DEF CmdStep, SendCommand, HandleCmdResult, CmdTimeout, dbVars
<1>7. ASSUME NEW g \in Nodes, \/ Age(g) \/ \E c \in Conns : PongTimeout(g, c)
      PROVE  UNCHANGED active
  BY <1>7 DEF Age, PongTimeout, dbVars
<1>8. CASE PingTick \/ Restart \/ UNCHANGED vars
  BY <1>8 DEF PingTick, Restart, vars, dbVars
<1> QED BY <1>3, <1>4, <1>5, <1>6, <1>7, <1>8 DEF Next, NodeStep

\* No order of close events, reconnections and grace timers marks a node
\* offline while it and its twins are connected.
THEOREM OfflineForAbsence == Spec => OfflineOnlyWhenAbsent
<1>1. RegistryInv /\ [Next]_vars => [OfflineStep]_vars
  BY OfflineJustified DEF RegistryInv
<1> QED
  BY <1>1, RegistryInvariant, PTL DEF Spec, OfflineOnlyWhenAbsent, OfflineStep

----------------------------------------------------------------------------
\* A pending command was given to an authenticated connection, and the object
\* is not used again before the command is settled.
CarrierKnown ==
  \A k \in Cmds : Pending(k) =>
    /\ cmd[k].via \in Conns
    /\ sock[cmd[k].via] = "open" => authed[cmd[k].via]

\* A connection that is open after a step was open before it, or is new; and
\* an open one stays authenticated.
LEMMA OpenStays ==
  ASSUME TypeOK, [Next]_vars, NEW v \in Conns, sock'[v] = "open"
  PROVE  \/ \E n \in Nodes \cup {None} : Connect(v, n)
         \/ sock[v] = "open" /\ (authed[v] => authed'[v])
<1>t. sock \in [Conns -> SockStates] /\ authed \in [Conns -> BOOLEAN]
  BY DEF TypeOK
<1>s. \A C : CloseSock(C)[v] = "open" => sock[v] = "open"
  BY <1>t, CloseSockType
<1>1. ASSUME NEW c \in Conns, NEW n \in Nodes \cup {None}, Connect(c, n), c # v
      PROVE  sock[v] = "open" /\ (authed[v] => authed'[v])
  BY <1>1, <1>t DEF Connect
<1>2. ASSUME NEW c \in Conns, HandleAuth(c)
      PROVE  sock[v] = "open" /\ (authed[v] => authed'[v])
  BY <1>2, <1>t, <1>s DEF HandleAuth
<1>3. ASSUME NEW c \in Conns, RejectMessage(c) \/ AuthTimeout(c)
      PROVE  sock[v] = "open" /\ UNCHANGED authed
  BY <1>3, <1>t, <1>s DEF RejectMessage, AuthTimeout
<1>4. ASSUME NEW c \in Conns, SocketEnds(c) \/ CloseEvent(c)
      PROVE  sock[v] = "open" /\ (authed[v] => authed'[v])
  BY <1>4, <1>t DEF SocketEnds, CloseEvent
<1>5. ASSUME NEW n \in Nodes, NEW c \in Conns, PongTimeout(n, c)
      PROVE  sock[v] = "open" /\ UNCHANGED authed
  BY <1>5, <1>t, <1>s DEF PongTimeout
<1>6. ASSUME NEW c \in Conns, Vanish(c) \/ HandlePong(c) \/ HandleReport(c)
      PROVE  UNCHANGED <<sock, authed>>
  BY <1>6 DEF Vanish, HandlePong, HandleReport, connVars
<1>7. ASSUME NEW k \in Cmds, CmdStep(k) PROVE UNCHANGED <<sock, authed>>
  BY <1>7 DEF CmdStep, SendCommand, HandleCmdResult, CmdTimeout, connVars
<1>8. ASSUME NEW n \in Nodes, GraceTimeout(n) \/ Age(n) PROVE UNCHANGED <<sock, authed>>
  BY <1>8 DEF GraceTimeout, Age, connVars
<1>9. CASE PingTick \/ StaleCheck \/ UNCHANGED vars
  BY <1>9 DEF PingTick, StaleCheck, vars, connVars
<1>10. CASE Restart
  BY <1>10 DEF Restart
<1> QED
  BY <1>1, <1>2, <1>3, <1>4, <1>5, <1>6, <1>7, <1>8, <1>9, <1>10 DEF Next, ConnStep, NodeStep

\* A command becomes pending by sendCommand only, and stays with its carrier.
LEMMA PendingStep ==
  ASSUME TypeOK, [Next]_vars, NEW k \in Cmds, Pending(k)'
  PROVE  \/ Pending(k) /\ cmd'[k].via = cmd[k].via
         \/ \E n \in Nodes : SendCommand(k, n)
<1>t. cmd \in [Cmds -> [st : CmdStates, node : Nodes \cup {None}, via : Conns \cup {None}]]
  BY DEF TypeOK
<1> DEFINE Same == Pending(k) /\ cmd'[k].via = cmd[k].via
<1>p. cmd'[k].st = "pending"
  BY DEF Pending
<1>1. ASSUME UNCHANGED cmdVars PROVE Same
  BY <1>1, <1>p DEF Pending, cmdVars
<1>2. ASSUME NEW N, CleanupPendingCommands(N) PROVE Same
  BY <1>2, <1>p, <1>t DEF CleanupPendingCommands, Pending
<1>3. ASSUME NEW c \in Conns, ConnStep(c) PROVE UNCHANGED cmdVars \/ \E N : CleanupPendingCommands(N)
  <2>1. CASE CloseEvent(c)
    BY <2>1 DEF CloseEvent, cmdVars
  <2>2. CASE ~CloseEvent(c)
    BY <1>3, <2>2 DEF ConnStep, Connect, HandleAuth, RejectMessage, AuthTimeout, Vanish,
                      SocketEnds, HandlePong, HandleReport
  <2> QED BY <2>1, <2>2
<1>4. ASSUME NEW j \in Cmds, NEW n \in Nodes, SendCommand(j, n), j # k PROVE Same
  BY <1>4, <1>p, <1>t DEF SendCommand, Pending
<1>5. ASSUME NEW j \in Cmds, NEW c \in Conns, HandleCmdResult(c, j) PROVE Same
  BY <1>5, <1>p, <1>t DEF HandleCmdResult, Pending
<1>6. ASSUME NEW j \in Cmds, CmdTimeout(j) PROVE Same
  BY <1>6, <1>p, <1>t DEF CmdTimeout, Pending
<1>7. ASSUME NEW n \in Nodes, NEW c \in Conns, PongTimeout(n, c)
      PROVE  UNCHANGED cmdVars \/ \E N : CleanupPendingCommands(N)
  BY <1>7 DEF PongTimeout, cmdVars
<1>8. ASSUME NEW n \in Nodes, GraceTimeout(n) \/ Age(n) PROVE UNCHANGED cmdVars
  BY <1>8 DEF GraceTimeout, Age
<1>9. CASE StaleCheck \/ UNCHANGED vars
  BY <1>1, <1>9 DEF StaleCheck, vars
<1>10. CASE PingTick
  BY <1>2, <1>10 DEF PingTick
<1>11. CASE Restart
  BY <1>11, <1>p, <1>t DEF Restart, Pending
<1> QED
  BY <1>1, <1>2, <1>3, <1>4, <1>5, <1>6, <1>7, <1>8, <1>9, <1>10, <1>11
  DEF Next, CmdStep, NodeStep

LEMMA CarrierStep ==
  ASSUME RegistryInv, CarrierKnown, [Next]_vars PROVE CarrierKnown'
<1> SUFFICES ASSUME NEW k \in Cmds, Pending(k)'
             PROVE  /\ cmd'[k].via \in Conns
                    /\ sock'[cmd'[k].via] = "open" => authed'[cmd'[k].via]
  BY DEF CarrierKnown
<1>t. TypeOK
  BY DEF RegistryInv
<1>1. CASE Pending(k) /\ cmd'[k].via = cmd[k].via
  <2> DEFINE v == cmd[k].via
  <2>1. v \in Conns /\ (sock[v] = "open" => authed[v])
    BY <1>1 DEF CarrierKnown
  <2>2. ASSUME NEW n \in Nodes \cup {None}, Connect(v, n) PROVE FALSE
    BY <1>1, <2>2 DEF Connect
  <2>3. sock'[v] = "open" => sock[v] = "open" /\ (authed[v] => authed'[v])
    BY <1>t, <2>1, <2>2, OpenStays
  <2> QED BY <1>1, <2>1, <2>3
<1>2. ASSUME NEW n \in Nodes, SendCommand(k, n)
      PROVE  /\ cmd'[k].via \in Conns
             /\ sock'[cmd'[k].via] = "open" => authed'[cmd'[k].via]
  <2>c. cmd \in [Cmds -> [st : CmdStates, node : Nodes \cup {None}, via : Conns \cup {None}]]
    BY <1>t DEF TypeOK
  <2>1. CASE Online(n)
    <3>1. PICK m \in Carriers(n) :
            cmd' = [cmd EXCEPT ![k] = [st |-> "pending", node |-> n, via |-> agents[m]]]
      BY <1>2, <2>1 DEF SendCommand
    <3>2. m \in Nodes /\ OwnCarrier(m)
      BY <3>1 DEF Carriers
    <3>3. agents[m] \in Conns /\ authed[agents[m]]
      BY <3>2, <1>t DEF OwnCarrier, RegistryInv, RegistryHoldsLiveAgents, TypeOK
    <3>4. cmd'[k].via = agents[m] /\ authed' = authed
      BY <1>2, <2>c, <3>1 DEF SendCommand, connVars
    <3> QED BY <3>3, <3>4
  <2>2. CASE ~Online(n)
    <3>1. cmd' = [cmd EXCEPT ![k] = [st |-> "offline", node |-> n, via |-> None]]
      BY <1>2, <2>2 DEF SendCommand
    <3>2. cmd'[k].st = "offline"
      BY <2>c, <3>1
    <3> QED BY <3>2 DEF Pending
  <2> QED BY <2>1, <2>2
<1> QED BY <1>1, <1>2, <1>t, PendingStep

\* What one step may do to a command.
LossStep ==
  \A k \in Cmds :
    (Pending(k) /\ cmd'[k].st = "lost" /\ ident[cmd[k].via] = cmd[k].node)
      => sock'[cmd[k].via] # "open"

\* Commands are lost when the entry of their node is deleted, by the close
\* event, the ping round or the pong timer, and the deleted entry is the
\* carrier if that is open, because no open connection is unregistered.
LEMMA LossJustified == ASSUME RegistryInv, CarrierKnown, [Next]_vars PROVE LossStep
<1> SUFFICES ASSUME NEW k \in Cmds, Pending(k), cmd'[k].st = "lost",
                    ident[cmd[k].via] = cmd[k].node, sock'[cmd[k].via] = "open"
             PROVE  FALSE
  BY DEF LossStep
<1> DEFINE v == cmd[k].via
           n == cmd[k].node
<1>t. /\ TypeOK
      /\ cmd \in [Cmds -> [st : CmdStates, node : Nodes \cup {None}, via : Conns \cup {None}]]
      /\ sock \in [Conns -> SockStates]
      /\ agents \in [Nodes -> Conns \cup {None}]
      /\ cmd[k].st = "pending"
  BY DEF RegistryInv, TypeOK, Pending
<1>v. v \in Conns /\ (sock[v] = "open" => authed[v])
  BY DEF CarrierKnown
<1>a. sock[v] = "open" => n \in Nodes /\ agents[n] = v
  BY <1>v DEF RegistryInv, NoOrphanConnection, AuthenticatedHasNode
<1>o. sock[v] = "open"
  <2>1. ASSUME NEW m \in Nodes \cup {None}, Connect(v, m) PROVE FALSE
    BY <2>1 DEF Connect
  <2> QED BY <1>t, <1>v, <2>1, OpenStays
<1>n. n \in Nodes /\ agents[n] = v /\ agents[n] # None
  BY <1>a, <1>o, <1>v
<1>1. ASSUME UNCHANGED cmdVars PROVE FALSE
  BY <1>1, <1>t DEF cmdVars
<1>2. ASSUME NEW N, CleanupPendingCommands(N) PROVE n \in N
  BY <1>2, <1>t DEF CleanupPendingCommands, Pending
<1>3. ASSUME NEW c \in Conns, CloseEvent(c) PROVE FALSE
  <2>1. CASE authed[c] /\ agents[ident[c]] = c
    <3>1. n = ident[c]
      BY <1>2, <1>3, <2>1 DEF CloseEvent
    <3>2. c = v
      BY <1>n, <2>1, <3>1
    <3> QED BY <1>3, <1>o, <3>2 DEF CloseEvent
  <2>2. CASE ~(authed[c] /\ agents[ident[c]] = c)
    BY <1>1, <1>3, <2>2 DEF CloseEvent
  <2> QED BY <2>1, <2>2
<1>4. CASE PingTick
  <2>1. n \in {m \in Nodes : agents[m] # None /\ sock[agents[m]] # "open"}
    BY <1>2, <1>4 DEF PingTick
  <2> QED BY <1>n, <1>o, <2>1
<1>5. ASSUME NEW m \in Nodes, NEW c \in Conns, PongTimeout(m, c) PROVE FALSE
  <2>1. CASE agents[m] # None /\ ~pongReceived[m]
    <3>1. CleanupPendingCommands({m}) /\ sock' = CloseSock({c}) /\ <<m, c>> \in pongTimers
      BY <1>5, <2>1 DEF PongTimeout
    <3>2. n = m
      BY <1>2, <3>1
    <3>3. agents[m] \in Conns /\ <<m, agents[m]>> \in pongTimers
      BY <1>t, <2>1 DEF RegistryInv, UnansweredPingHasDeadline
    <3>4. c = v
      BY <1>n, <3>1, <3>2, <3>3 DEF RegistryInv, PongTimersUnique
    <3> QED BY <1>t, <1>v, <3>1, <3>4, CloseSockType
  <2>2. CASE ~(agents[m] # None /\ ~pongReceived[m])
    BY <1>1, <1>5, <2>2 DEF PongTimeout
  <2> QED BY <2>1, <2>2
<1>6. CASE Restart
  BY <1>6, <1>v DEF Restart
<1>7. ASSUME NEW c \in Conns, ConnStep(c), ~CloseEvent(c) PROVE UNCHANGED cmdVars
  BY <1>7 DEF ConnStep, Connect, HandleAuth, RejectMessage, AuthTimeout, Vanish,
              SocketEnds, HandlePong, HandleReport
<1>8. ASSUME NEW j \in Cmds, CmdStep(j) PROVE FALSE
  <2>1. ASSUME NEW m \in Nodes, SendCommand(j, m) PROVE FALSE
    BY <1>t, <2>1 DEF SendCommand
  <2>2. ASSUME NEW c \in Conns, HandleCmdResult(c, j) PROVE FALSE
    BY <1>t, <2>2 DEF HandleCmdResult
  <2>3. CASE CmdTimeout(j)
    BY <1>t, <2>3 DEF CmdTimeout
  <2> QED BY <1>8, <2>1, <2>2, <2>3 DEF CmdStep
<1>9. ASSUME NEW m \in Nodes, GraceTimeout(m) \/ Age(m) PROVE UNCHANGED cmdVars
  BY <1>9 DEF GraceTimeout, Age
<1>10. CASE StaleCheck \/ UNCHANGED vars
  BY <1>1, <1>10 DEF StaleCheck, vars
<1> QED
  BY <1>1, <1>3, <1>4, <1>5, <1>6, <1>7, <1>8, <1>9, <1>10 DEF Next, NodeStep

\* A command carried by its node's own connection is reported lost only when
\* that connection is not open any more.
THEOREM OwnCommandCarried == Spec => OwnCommandLostWithCarrier
<1>1. Init => CarrierKnown
  BY DEF Init, CarrierKnown, Pending
<1>2. RegistryInv /\ CarrierKnown /\ [Next]_vars => CarrierKnown'
  BY CarrierStep
<1>3. RegistryInv /\ CarrierKnown /\ [Next]_vars => [LossStep]_vars
  BY LossJustified
<1> QED
  BY <1>1, <1>2, <1>3, RegistryInvariant, PTL DEF Spec, OwnCommandLostWithCarrier, LossStep

----------------------------------------------------------------------------
(* The hub and the agent program *)

\* The program on the other end was dialled by an agent or by nobody.
DialerType == dialer \in [Conns -> Nodes \cup {None}]

----------------------------------------------------------------------------
\* The dialer of a connection is the node that dials.
LEMMA DialerStep == DialerType /\ [LinkNext]_linkVars => DialerType'
<1> SUFFICES ASSUME DialerType, [LinkNext]_linkVars PROVE DialerType'
  OBVIOUS
<1>1. ASSUME NEW n \in Nodes, AgentStep(n) PROVE DialerType'
  BY <1>1 DEF AgentStep, Reconnect, TwoMinutes, Watchdog, AgentRestart, Stopped, Use,
     Collect, SendReport, ReplyResult, Dial, DialerType, agentVars
<1>2. ASSUME NEW c \in Conns, ConnectionStep(c) PROVE DialerType'
  BY <1>2 DEF ConnectionStep, Accept, Opened, DialFails, HandshakeFails, AgentClose,
     AnswerPing, AuthArrives, PongArrives, ReportArrives, AuthDue, SocketFinishes, Cut,
     Execute, ResultArrives, CloseHandler, DialerType, agentVars
<1>3. CASE PanelStep
  BY <1>3 DEF PanelStep, Command, PongDue, Ping, HubAlone, Away, Back, PanelRestart,
     DialerType, agentVars
<1>4. CASE UNCHANGED linkVars
  BY <1>4 DEF linkVars, agentVars, DialerType
<1> QED BY <1>1, <1>2, <1>3, <1>4 DEF LinkNext

\* Every step of the composition is a step of the hub or leaves it alone.
LEMMA HubStep == ASSUME DialerType, [LinkNext]_linkVars PROVE [Next]_vars
<1>c. ASSUME NEW c \in Conns, ConnStep(c) PROVE Next
  BY <1>c DEF Next
<1>1. ASSUME NEW n \in Nodes, AgentStep(n) PROVE UNCHANGED vars
  BY <1>1 DEF AgentStep, Reconnect, TwoMinutes, Watchdog, AgentRestart, Use,
     Collect, SendReport, ReplyResult
<1>2. ASSUME NEW c \in Conns, ConnectionStep(c) PROVE [Next]_vars
  <2>1. CASE Accept(c)
    <3>1. Connect(c, dialer[c]) /\ dialer[c] \in Nodes \cup {None}
      BY <2>1 DEF Accept, DialerType
    <3> QED BY <1>c, <3>1 DEF ConnStep
  <2>2. CASE \/ Opened(c) \/ DialFails(c) \/ HandshakeFails(c) \/ AgentClose(c) \/ AnswerPing(c)
             \/ \E k \in Cmds : Execute(c, k)
    BY <2>2 DEF Opened, DialFails, HandshakeFails, AgentClose, AnswerPing, Execute
  <2>3. CASE AuthArrives(c)
    BY <1>c, <2>3 DEF AuthArrives, ConnStep
  <2>4. CASE PongArrives(c)
    BY <1>c, <2>4 DEF PongArrives, ConnStep
  <2>5. CASE ReportArrives(c)
    <3>1. HandleReport(c) \/ UNCHANGED vars
      BY <2>5 DEF ReportArrives
    <3> QED BY <1>c, <3>1 DEF ConnStep
  <2>6. CASE AuthDue(c)
    BY <1>c, <2>6 DEF AuthDue, ConnStep
  <2>7. CASE SocketFinishes(c)
    BY <1>c, <2>7 DEF SocketFinishes, ConnStep
  <2>8. CASE Cut(c)
    BY <1>c, <2>8 DEF Cut, ConnStep
  <2>9. ASSUME NEW k \in Cmds, ResultArrives(c, k) PROVE [Next]_vars
    <3>1. HandleCmdResult(c, k) \/ UNCHANGED vars
      BY <2>9 DEF ResultArrives
    <3> QED BY <3>1 DEF Next, CmdStep
  <2> QED BY <1>2, <2>1, <2>2, <2>3, <2>4, <2>5, <2>6, <2>7, <2>8, <2>9 DEF ConnectionStep
<1>3. CASE PanelStep
  <2>1. ASSUME NEW k \in Cmds, NEW n \in Nodes, Command(k, n) PROVE Next
    BY <2>1 DEF Command, Next, CmdStep
  <2>2. ASSUME NEW n \in Nodes, NEW c \in Conns, PongDue(n, c) PROVE Next
    BY <2>2 DEF PongDue, Next, NodeStep
  <2>3. CASE Ping \/ PanelRestart
    BY <2>3 DEF Ping, PanelRestart, Next
  <2>4. CASE HubAlone
    <3>1. \/ \E c \in Conns : CloseEvent(c)
          \/ \E k \in Cmds : CmdTimeout(k)
          \/ \E n \in Nodes : GraceTimeout(n) \/ Age(n)
          \/ StaleCheck
      BY <2>4 DEF HubAlone
    <3> QED BY <3>1 DEF Next, ConnStep, CmdStep, NodeStep
  <2>5. CASE Away \/ Back
    BY <2>5 DEF Away, Back
  <2> QED BY <1>3, <2>1, <2>2, <2>3, <2>4, <2>5 DEF PanelStep
<1>4. CASE UNCHANGED linkVars
  BY <1>4 DEF linkVars
<1> QED BY <1>1, <1>2, <1>3, <1>4 DEF LinkNext

\* The agent program is a peer as AgentHub allows it: the composition
\* implements the hub's specification.
THEOREM LinkImplementsHub == LinkSpec => Spec
<1>1. LinkInit => Init /\ DialerType
  BY DEF LinkInit, DialerType
<1> QED BY <1>1, DialerStep, HubStep, PTL DEF LinkSpec, Spec

----------------------------------------------------------------------------
\* What is under way between the panel and the agents has its types.
WorkTypes ==
  /\ toAgent \in [Conns -> SUBSET (Cmds \cup {"ping"})]
  /\ running \in [Nodes -> SUBSET Cmds]
  /\ execs \in [Cmds -> {0, 1}]
  /\ DOMAIN toHub = Conns

\* A command is on its way to at most one agent process, and only before it
\* was executed; it runs, or its result is on its way, only afterwards.
OneCall(k) ==
  /\ cmd[k].st = "new" => execs[k] = 0 /\ \A c \in Conns : k \notin toAgent[c]
  /\ \A c, d \in Conns : k \in toAgent[c] /\ k \in toAgent[d] => c = d
  /\ \A c \in Conns : k \in toAgent[c] => execs[k] = 0
  /\ \A n \in Nodes : k \in running[n] => execs[k] = 1
  /\ \A c \in Conns : Result(k) \in toHub[c] => execs[k] = 1

CallInv == WorkTypes /\ \A k \in Cmds : OneCall(k)

\* Steps that neither hand out a command nor execute one: frames are lost or
\* read, handlers end, and a result is the result of what was running.
Harmless ==
  /\ UNCHANGED execs
  /\ toAgent' \in [Conns -> SUBSET (Cmds \cup {"ping"})]
  /\ \A c \in Conns : toAgent'[c] \cap Cmds \subseteq toAgent[c]
  /\ running' \in [Nodes -> SUBSET Cmds]
  /\ \A n \in Nodes : running'[n] \subseteq running[n]
  /\ DOMAIN toHub' = Conns
  /\ \A c \in Conns, k \in Cmds :
       Result(k) \in toHub'[c] => Result(k) \in toHub[c] \/ \E n \in Nodes : k \in running[n]

LEMMA HarmlessKeeps ==
  ASSUME CallInv, Harmless, \A k \in Cmds : cmd'[k].st = "new" => cmd[k].st = "new"
  PROVE  CallInv'
<1>1. WorkTypes'
  BY DEF CallInv, WorkTypes, Harmless
<1>2. ASSUME NEW k \in Cmds PROVE OneCall(k)'
  <2>1. OneCall(k)
    BY DEF CallInv
  <2>2. \A c \in Conns : k \in toAgent'[c] => k \in toAgent[c]
    BY DEF Harmless
  <2>3. \A n \in Nodes : k \in running'[n] => k \in running[n]
    BY DEF Harmless
  <2>4. \A c \in Conns : Result(k) \in toHub'[c] => execs[k] = 1
    BY <2>1 DEF Harmless, OneCall
  <2>5. UNCHANGED execs
    BY DEF Harmless
  <2> QED BY <2>1, <2>2, <2>3, <2>4, <2>5 DEF OneCall
<1> QED BY <1>1, <1>2 DEF CallInv

\* What sendMsg puts on the connection
LEMMA SentFrames ==
  ASSUME DOMAIN toHub = Conns, NEW n, NEW m, SendMsg(n, m)
  PROVE  DOMAIN toHub' = Conns /\ \A c \in Conns : toHub'[c] \subseteq toHub[c] \cup {m}
  BY DEF SendMsg

\* No other frame is a result.
LEMMA ResultFrames ==
  /\ \A j, k : Result(j) = Result(k) => j = k
  /\ \A k : Result(k) # Auth /\ Result(k) # Pong
  /\ \A k, U : Result(k) # Report(U)
<1>1. \A k : Result(k).type = "cmd_result" /\ Result(k).id = k
  BY DEF Result
<1>2. Auth.type = "auth" /\ Pong.type = "pong" /\ \A U : Report(U).type = "report"
  BY DEF Auth, Pong, Report
<1>3. \A j, k : Result(j) = Result(k) => j = k
  <2> SUFFICES ASSUME NEW j, NEW k, Result(j) = Result(k) PROVE j = k
    OBVIOUS
  <2>1. Result(j).id = j /\ Result(k).id = k
    BY <1>1
  <2> QED BY <2>1
<1> QED BY <1>1, <1>2, <1>3

LEMMA AgentHarmless ==
  ASSUME CallInv, NEW n \in Nodes, AgentStep(n) PROVE Harmless
<1>t. WorkTypes
  BY DEF CallInv
<1>1. CASE UNCHANGED <<toHub, running, execs>> /\ \E c, D : Dial(n, c, D)
  <2>1. /\ toAgent' \in [Conns -> SUBSET (Cmds \cup {"ping"})]
        /\ \A c \in Conns : toAgent'[c] \cap Cmds \subseteq toAgent[c]
    BY <1>t, <1>1 DEF Dial, WorkTypes
  <2> QED BY <1>t, <1>1, <2>1 DEF Harmless, WorkTypes
<1>2. CASE UNCHANGED workVars
  BY <1>t, <1>2 DEF workVars, Harmless, WorkTypes
<1>3. CASE Reconnect(n) \/ Watchdog(n)
  BY <1>1, <1>3 DEF Reconnect, Watchdog
<1>4. CASE TwoMinutes(n) \/ Collect(n) \/ \E u \in Units : Use(n, u)
  BY <1>2, <1>4 DEF TwoMinutes, Collect, Use
<1>5. CASE AgentRestart(n)
  <2>1. /\ toAgent' \in [Conns -> SUBSET (Cmds \cup {"ping"})]
        /\ \A c \in Conns : toAgent'[c] \cap Cmds \subseteq toAgent[c]
    BY <1>t, <1>5 DEF AgentRestart, Stopped, WorkTypes
  <2>2. /\ running' \in [Nodes -> SUBSET Cmds]
        /\ \A m \in Nodes : running'[m] \subseteq running[m]
    BY <1>t, <1>5 DEF AgentRestart, Stopped, WorkTypes
  <2>3. UNCHANGED <<execs, toHub>>
    BY <1>5 DEF AgentRestart, Stopped
  <2> QED BY <1>t, <2>1, <2>2, <2>3 DEF Harmless, WorkTypes
<1>6. CASE SendReport(n)
  <2>1. SendMsg(n, Report(collected[n])) /\ UNCHANGED <<toAgent, running, execs>>
    BY <1>6 DEF SendReport
  <2>2. /\ DOMAIN toHub' = Conns
        /\ \A c \in Conns : toHub'[c] \subseteq toHub[c] \cup {Report(collected[n])}
    BY <1>t, <2>1, SentFrames DEF WorkTypes
  <2> QED BY <1>t, <2>1, <2>2, ResultFrames DEF Harmless, WorkTypes
<1>7. ASSUME NEW k \in Cmds, ReplyResult(n, k) PROVE Harmless
  <2>1. /\ SendMsg(n, Result(k)) /\ UNCHANGED <<toAgent, execs>> /\ k \in running[n]
        /\ running' = [running EXCEPT ![n] = @ \ {k}]
    BY <1>7 DEF ReplyResult
  <2>2. DOMAIN toHub' = Conns /\ \A c \in Conns : toHub'[c] \subseteq toHub[c] \cup {Result(k)}
    BY <1>t, <2>1, SentFrames DEF WorkTypes
  <2>3. \A c \in Conns, j \in Cmds :
          Result(j) \in toHub'[c] => Result(j) \in toHub[c] \/ \E m \in Nodes : j \in running[m]
    BY <2>1, <2>2, ResultFrames
  <2>4. /\ running' \in [Nodes -> SUBSET Cmds]
        /\ \A m \in Nodes : running'[m] \subseteq running[m]
    BY <1>t, <2>1 DEF WorkTypes
  <2> QED BY <1>t, <2>1, <2>2, <2>3, <2>4 DEF Harmless, WorkTypes
<1> QED BY <1>3, <1>4, <1>5, <1>6, <1>7 DEF AgentStep

LEMMA ConnectionHarmless ==
  ASSUME CallInv, NEW c \in Conns, ConnectionStep(c), \A k \in Cmds : ~Execute(c, k)
  PROVE  Harmless
<1>t. WorkTypes
  BY DEF CallInv
<1>1. CASE UNCHANGED workVars
  BY <1>t, <1>1 DEF workVars, Harmless, WorkTypes
<1>2. ASSUME UNCHANGED <<running, execs, toHub>>, CloseHandler(c) PROVE Harmless
  BY <1>t, <1>2 DEF CloseHandler, Harmless, WorkTypes
<1>3. ASSUME UNCHANGED <<running, execs, toAgent>>, DOMAIN toHub' = Conns,
             \A d \in Conns : toHub'[d] \subseteq toHub[d]
      PROVE  Harmless
  BY <1>t, <1>3 DEF Harmless, WorkTypes
<1>4. CASE Accept(c) \/ HandshakeFails(c) \/ AuthDue(c)
  BY <1>1, <1>4 DEF Accept, HandshakeFails, AuthDue
<1>5. CASE DialFails(c) \/ AgentClose(c)
  BY <1>2, <1>5 DEF DialFails, AgentClose
<1>6. CASE Opened(c)
  <2>1. /\ DOMAIN toHub' = Conns
        /\ \A d \in Conns : toHub'[d] \subseteq toHub[d] \cup {Auth}
    BY <1>t, <1>6 DEF Opened, WorkTypes
  <2> QED BY <1>t, <1>6, <2>1, ResultFrames DEF Opened, Harmless, WorkTypes
<1>7. CASE AnswerPing(c)
  <2>1. SendMsg(dialer[c], Pong) /\ UNCHANGED <<running, execs>>
    BY <1>7 DEF AnswerPing
  <2>2. DOMAIN toHub' = Conns /\ \A d \in Conns : toHub'[d] \subseteq toHub[d] \cup {Pong}
    BY <1>t, <2>1, SentFrames DEF WorkTypes
  <2>3. /\ toAgent' \in [Conns -> SUBSET (Cmds \cup {"ping"})]
        /\ \A d \in Conns : toAgent'[d] \cap Cmds \subseteq toAgent[d]
    BY <1>t, <1>7 DEF AnswerPing, WorkTypes
  <2> QED BY <1>t, <2>1, <2>2, <2>3, ResultFrames DEF Harmless, WorkTypes
<1>8. ASSUME NEW m, Reads(c, m), UNCHANGED <<running, execs, toAgent>> PROVE Harmless
  <2>1. DOMAIN toHub' = Conns /\ \A d \in Conns : toHub'[d] \subseteq toHub[d]
    BY <1>t, <1>8 DEF Reads, WorkTypes
  <2> QED BY <1>3, <1>8, <2>1
<1>9. CASE AuthArrives(c) \/ PongArrives(c)
  BY <1>8, <1>9 DEF AuthArrives, PongArrives
<1>10. CASE ReportArrives(c)
  BY <1>8, <1>10 DEF ReportArrives
<1>11. ASSUME NEW k \in Cmds, ResultArrives(c, k) PROVE Harmless
  BY <1>8, <1>11 DEF ResultArrives
<1>12. CASE SocketFinishes(c) \/ Cut(c)
  BY <1>t, <1>3, <1>12 DEF SocketFinishes, Cut, WorkTypes
<1> QED BY <1>4, <1>5, <1>6, <1>7, <1>9, <1>10, <1>11, <1>12 DEF ConnectionStep

LEMMA PanelHarmless ==
  ASSUME CallInv, PanelStep, \A k \in Cmds, n \in Nodes : ~Command(k, n)
  PROVE  Harmless
<1>t. WorkTypes
  BY DEF CallInv
<1>1. CASE UNCHANGED workVars
  BY <1>t, <1>1 DEF workVars, Harmless, WorkTypes
<1>2. CASE HubAlone \/ Away \/ Back \/ \E n \in Nodes, c \in Conns : PongDue(n, c)
  BY <1>1, <1>2 DEF HubAlone, Away, Back, PongDue
<1>3. CASE Ping
  <2>1. UNCHANGED <<running, execs, toHub>>
    BY <1>3 DEF Ping
  <2>2. /\ toAgent' \in [Conns -> SUBSET (Cmds \cup {"ping"})]
        /\ \A d \in Conns : toAgent'[d] \cap Cmds \subseteq toAgent[d]
    BY <1>t, <1>3, PingAssumption DEF Ping, WorkTypes
  <2> QED BY <1>t, <2>1, <2>2 DEF Harmless, WorkTypes
<1>4. CASE PanelRestart
  <2>1. UNCHANGED <<running, execs, toAgent>> /\ toHub' = [c \in Conns |-> {}]
    BY <1>4 DEF PanelRestart
  <2> QED BY <1>t, <2>1 DEF Harmless, WorkTypes
<1> QED BY <1>2, <1>3, <1>4 DEF PanelStep

\* A command is executed where its frame is taken, and there is no other frame.
LEMMA ExecuteKeeps ==
  ASSUME CallInv, NEW c \in Conns, NEW k \in Cmds, Execute(c, k)
  PROVE  CallInv'
<1>t. WorkTypes /\ OneCall(k)
  BY DEF CallInv
<1>u. UNCHANGED <<cmd, toHub>> /\ k \in toAgent[c]
  BY DEF Execute, vars, cmdVars
<1>1. execs[k] = 0 /\ cmd[k].st # "new" /\ \A d \in Conns \ {c} : k \notin toAgent[d]
  BY <1>t, <1>u DEF OneCall
<1>2. execs' \in [Cmds -> {0, 1}] /\ execs'[k] = 1 /\ \A j \in Cmds \ {k} : execs'[j] = execs[j]
  BY <1>t, <1>1 DEF Execute, WorkTypes
<1>3. /\ toAgent' \in [Conns -> SUBSET (Cmds \cup {"ping"})]
      /\ toAgent'[c] = toAgent[c] \ {k}
      /\ \A d \in Conns \ {c} : toAgent'[d] = toAgent[d]
  BY <1>t DEF Execute, WorkTypes
<1>4. /\ running' \in [Nodes -> SUBSET Cmds]
      /\ \A n \in Nodes : running'[n] \subseteq running[n] \cup {k}
  BY <1>t DEF Execute, WorkTypes
<1>5. WorkTypes'
  BY <1>t, <1>u, <1>2, <1>3, <1>4 DEF WorkTypes
<1>6. OneCall(k)'
  BY <1>u, <1>1, <1>2, <1>3, <1>4 DEF OneCall
<1>7. ASSUME NEW j \in Cmds \ {k} PROVE OneCall(j)'
  <2>1. OneCall(j)
    BY DEF CallInv
  <2>2. \A d \in Conns : j \in toAgent'[d] <=> j \in toAgent[d]
    BY <1>3
  <2>3. \A n \in Nodes : j \in running'[n] => j \in running[n]
    BY <1>4
  <2> QED BY <1>u, <1>2, <2>1, <2>2, <2>3 DEF OneCall
<1> QED BY <1>5, <1>6, <1>7 DEF CallInv

\* A command is handed out once, to its carrier.
LEMMA CommandKeeps ==
  ASSUME TypeOK, CallInv, NEW k \in Cmds, NEW n \in Nodes, Command(k, n)
  PROVE  CallInv' /\ cmd[k].st = "new" /\ cmd'[k].st \in {"pending", "offline"}
                  /\ \A j \in Cmds \ {k} : cmd'[j] = cmd[j]
<1>t. WorkTypes /\ OneCall(k)
  BY DEF CallInv
<1>u. UNCHANGED <<running, execs, toHub>> /\ SendCommand(k, n)
  BY DEF Command
<1>1. /\ cmd[k].st = "new" /\ cmd'[k].st \in {"pending", "offline"}
      /\ \A j \in Cmds \ {k} : cmd'[j] = cmd[j]
  <2>1. \/ \E via : cmd' = [cmd EXCEPT ![k] = [st |-> "pending", node |-> n, via |-> via]]
        \/ cmd' = [cmd EXCEPT ![k] = [st |-> "offline", node |-> n, via |-> None]]
    BY <1>u DEF SendCommand
  <2> QED BY <1>u, <2>1 DEF SendCommand, TypeOK
<1>2. toAgent' = [c \in Conns |-> IF Pending(k)' /\ cmd'[k].via = c
                                    THEN toAgent[c] \cup {k} ELSE toAgent[c]]
  BY DEF Command
<1>3. WorkTypes'
  BY <1>t, <1>u, <1>2 DEF WorkTypes
<1>4. OneCall(k)'
  <2>1. execs[k] = 0 /\ \A c \in Conns : k \notin toAgent[c]
    BY <1>t, <1>1 DEF OneCall
  <2>2. \A c \in Conns : k \in toAgent'[c] => cmd'[k].via = c
    BY <1>2, <2>1
  <2> QED BY <1>t, <1>u, <1>1, <2>1, <2>2 DEF OneCall
<1>5. ASSUME NEW j \in Cmds \ {k} PROVE OneCall(j)'
  <2>1. OneCall(j)
    BY DEF CallInv
  <2>2. \A c \in Conns : j \in toAgent'[c] <=> j \in toAgent[c]
    BY <1>2
  <2> QED BY <1>u, <1>1, <2>1, <2>2 DEF OneCall
<1> QED BY <1>1, <1>3, <1>4, <1>5 DEF CallInv

----------------------------------------------------------------------------
\* Apart from sendCommand and its answers, the hub only makes calls under way
\* fail.
Settles ==
  \A k \in Cmds : \/ cmd'[k].st = cmd[k].st
                  \/ cmd[k].st = "pending" /\ cmd'[k].st \in {"lost", "timeout"}

LEMMA HubSettles ==
  ASSUME TypeOK, CommandTimersMatch,
         \/ HubAlone \/ Ping \/ Restart \/ UNCHANGED vars
         \/ \E n \in Nodes, c \in Conns : PongDue(n, c)
         \/ \E c \in Conns : ConnStep(c)
  PROVE  Settles
<1>t. cmd \in [Cmds -> [st : CmdStates, node : Nodes \cup {None}, via : Conns \cup {None}]]
  BY DEF TypeOK
<1>0. UNCHANGED cmdVars => Settles
  BY DEF cmdVars, Settles
<1>1. ASSUME NEW N, CleanupPendingCommands(N) PROVE Settles
  BY <1>1, <1>t DEF CleanupPendingCommands, Settles, Pending
<1>2. ASSUME NEW c \in Conns, ConnStep(c) PROVE Settles
  <2>1. CASE CloseEvent(c)
    <3>1. UNCHANGED cmdVars \/ CleanupPendingCommands({ident[c]})
      BY <2>1 DEF CloseEvent, cmdVars
    <3> QED BY <1>0, <1>1, <3>1
  <2>2. CASE ~CloseEvent(c)
    <3>1. UNCHANGED cmdVars
      BY <1>2, <2>2 DEF ConnStep, Connect, HandleAuth, RejectMessage, AuthTimeout, Vanish,
                        SocketEnds, HandlePong, HandleReport
    <3> QED BY <1>0, <3>1
  <2> QED BY <2>1, <2>2
<1>3. ASSUME NEW k \in Cmds, CmdTimeout(k) PROVE Settles
  <2>1. cmd[k].st = "pending"
    BY <1>3 DEF CmdTimeout, CommandTimersMatch, Pending
  <2>2. cmd' = [cmd EXCEPT ![k].st = "timeout"]
    BY <1>3 DEF CmdTimeout
  <2> QED BY <1>t, <2>1, <2>2 DEF Settles
<1>4. CASE HubAlone
  <2>1. \/ \E c \in Conns : CloseEvent(c)
        \/ \E k \in Cmds : CmdTimeout(k)
        \/ \E n \in Nodes : GraceTimeout(n) \/ Age(n)
        \/ StaleCheck
    BY <1>4 DEF HubAlone
  <2>2. (\E n \in Nodes : GraceTimeout(n) \/ Age(n)) \/ StaleCheck => UNCHANGED cmdVars
    BY DEF GraceTimeout, Age, StaleCheck
  <2> QED BY <1>0, <1>2, <1>3, <2>1, <2>2 DEF ConnStep
<1>5. CASE Ping
  BY <1>1, <1>5 DEF Ping, PingTick
<1>6. CASE Restart
  BY <1>t, <1>6 DEF Restart, Settles, Pending
<1>7. ASSUME NEW n \in Nodes, NEW c \in Conns, PongDue(n, c) PROVE Settles
  <2>1. UNCHANGED cmdVars \/ CleanupPendingCommands({n})
    BY <1>7 DEF PongDue, PongTimeout, cmdVars
  <2> QED BY <1>0, <1>1, <2>1
<1>8. CASE UNCHANGED vars
  BY <1>0, <1>8 DEF vars
<1> QED BY <1>2, <1>4, <1>5, <1>6, <1>7, <1>8

\* Each step of the composition falls into one of five classes.
LEMMA Classes ==
  ASSUME TypeOK, CommandTimersMatch, CallInv, [LinkNext]_linkVars
  PROVE  \/ Harmless /\ Settles
         \/ \E k \in Cmds, n \in Nodes : Command(k, n)
         \/ \E c \in Conns, k \in Cmds : Execute(c, k)
         \/ \E c \in Conns, k \in Cmds : Harmless /\ Result(k) \in toHub[c] /\ HandleCmdResult(c, k)
<1>1. ASSUME NEW n \in Nodes, AgentStep(n) PROVE Harmless /\ Settles
  <2>1. UNCHANGED vars
    BY <1>1 DEF AgentStep, Reconnect, TwoMinutes, Watchdog, AgentRestart, Use,
       Collect, SendReport, ReplyResult
  <2> QED BY <1>1, <2>1, AgentHarmless, HubSettles
<1>2. ASSUME NEW c \in Conns, ConnectionStep(c), \A k \in Cmds : ~Execute(c, k)
      PROVE  /\ Harmless
             /\ Settles \/ \E k \in Cmds : Result(k) \in toHub[c] /\ HandleCmdResult(c, k)
  <2>1. Harmless
    BY <1>2, ConnectionHarmless
  <2>2. CASE \E k \in Cmds : ResultArrives(c, k)
    <3>1. PICK k \in Cmds : ResultArrives(c, k)
      BY <2>2
    <3>2. Result(k) \in toHub[c] /\ (HandleCmdResult(c, k) \/ UNCHANGED vars)
      BY <3>1 DEF ResultArrives, Reads
    <3> QED BY <2>1, <3>2, HubSettles
  <2>3. CASE ~\E k \in Cmds : ResultArrives(c, k)
    <3>1. CASE Accept(c)
      <4>1. Connect(c, dialer[c])
        BY <3>1 DEF Accept
      <4>2. UNCHANGED cmdVars
        BY <4>1 DEF Connect
      <4> QED BY <2>1, <4>2 DEF Settles, cmdVars
    <3>2. CASE ~Accept(c)
      <4>1. UNCHANGED vars \/ ConnStep(c)
        BY <1>2, <2>3, <3>2 DEF ConnectionStep, Opened, DialFails, HandshakeFails, AgentClose,
           AnswerPing, AuthArrives, PongArrives, ReportArrives, AuthDue, SocketFinishes, Cut, ConnStep
      <4>2. UNCHANGED vars => Settles
        BY HubSettles
      <4>3. ConnStep(c) => Settles
        BY HubSettles
      <4> QED BY <2>1, <4>1, <4>2, <4>3
    <3> QED BY <3>1, <3>2
  <2> QED BY <2>2, <2>3
<1>3. ASSUME PanelStep, \A k \in Cmds, n \in Nodes : ~Command(k, n) PROVE Harmless /\ Settles
  <2>1. \/ \E n \in Nodes, c \in Conns : PongDue(n, c)
        \/ Ping \/ HubAlone \/ Restart \/ UNCHANGED vars
    BY <1>3 DEF PanelStep, Away, Back, PanelRestart
  <2> QED BY <1>3, <2>1, PanelHarmless, HubSettles
<1>4. CASE UNCHANGED linkVars
  <2>1. UNCHANGED vars /\ UNCHANGED workVars
    BY <1>4 DEF linkVars
  <2>2. WorkTypes
    BY DEF CallInv
  <2> QED BY <2>1, <2>2, HubSettles DEF workVars, Harmless, WorkTypes
<1> QED BY <1>1, <1>2, <1>3, <1>4 DEF LinkNext

\* No step makes a command new again, and CallInv is kept.
LEMMA CallStep ==
  TypeOK /\ CommandTimersMatch /\ CallInv /\ [LinkNext]_linkVars => CallInv'
<1> SUFFICES ASSUME TypeOK, CommandTimersMatch, CallInv, [LinkNext]_linkVars PROVE CallInv'
  OBVIOUS
<1>1. CASE Harmless /\ Settles
  BY <1>1, HarmlessKeeps DEF Settles
<1>2. ASSUME NEW k \in Cmds, NEW n \in Nodes, Command(k, n) PROVE CallInv'
  BY <1>2, CommandKeeps
<1>3. ASSUME NEW c \in Conns, NEW k \in Cmds, Execute(c, k) PROVE CallInv'
  BY <1>3, ExecuteKeeps
<1>4. ASSUME NEW c \in Conns, NEW k \in Cmds, Harmless, HandleCmdResult(c, k) PROVE CallInv'
  <2>1. \A j \in Cmds : cmd'[j].st = "new" => cmd[j].st = "new"
    BY <1>4 DEF HandleCmdResult, TypeOK
  <2> QED BY <1>4, <2>1, HarmlessKeeps
<1> QED BY <1>1, <1>2, <1>3, <1>4, Classes

\* How RemoteCall sees a step of each class.
LEMMA CallRefined ==
  ASSUME TypeOK, CommandTimersMatch, CallInv, [LinkNext]_linkVars
  PROVE  [Call!Next]_(Call!vars)
<1>t. /\ cmd \in [Cmds -> [st : CmdStates, node : Nodes \cup {None}, via : Conns \cup {None}]]
      /\ execs \in [Cmds -> {0, 1}]
  BY DEF TypeOK, CallInv, WorkTypes
<1>1. CASE Harmless /\ Settles
  <2>1. UNCHANGED execs
    BY <1>1 DEF Harmless
  <2> DEFINE F == {k \in Cmds : cmd[k].st = "pending" /\ cmd'[k].st # "pending"}
  <2>2. CASE F = {}
    <3>1. \A k \in Cmds : CallState(k)' = CallState(k)
      BY <1>1, <2>2 DEF Settles, CallState
    <3> QED BY <2>1, <3>1 DEF Call!vars
  <2>3. CASE F # {}
    <3>1. \A k \in F : CallState(k) = "asked" /\ CallState(k)' = "failed"
      BY <1>1 DEF Settles, CallState
    <3>2. \A k \in Cmds \ F : CallState(k)' = CallState(k)
      BY <1>1 DEF Settles, CallState
    <3>3. Call!Fail
      BY <2>1, <2>3, <3>1, <3>2 DEF Call!Fail
    <3> QED BY <3>3 DEF Call!Next
  <2> QED BY <2>2, <2>3
<1>2. ASSUME NEW k \in Cmds, NEW n \in Nodes, Command(k, n) PROVE Call!Next
  <2>1. /\ cmd[k].st = "new" /\ cmd'[k].st \in {"pending", "offline"}
        /\ \A j \in Cmds \ {k} : cmd'[j] = cmd[j]
    BY <1>2, CommandKeeps
  <2>2. UNCHANGED execs
    BY <1>2 DEF Command
  <2>3. Call!Ask(k)
    BY <2>1, <2>2 DEF Call!Ask, CallState
  <2> QED BY <2>3 DEF Call!Next
<1>3. ASSUME NEW c \in Conns, NEW k \in Cmds, Execute(c, k) PROVE Call!Next
  <2>1. k \in toAgent[c] /\ UNCHANGED cmd /\ execs' = [execs EXCEPT ![k] = @ + 1]
    BY <1>3 DEF Execute, vars, cmdVars
  <2>2. execs[k] = 0 /\ cmd[k].st # "new"
    BY <2>1 DEF CallInv, OneCall
  <2>3. Call!Run(k)
    BY <1>t, <2>1, <2>2 DEF Call!Run, CallState
  <2> QED BY <2>3 DEF Call!Next
<1>4. ASSUME NEW c \in Conns, NEW k \in Cmds, Harmless, Result(k) \in toHub[c],
             HandleCmdResult(c, k)
      PROVE  Call!Next
  <2>1. execs[k] = 1 /\ UNCHANGED execs
    BY <1>4 DEF CallInv, OneCall, Harmless
  <2>2. cmd[k].st = "pending" /\ cmd' = [cmd EXCEPT ![k].st = "result"]
    BY <1>4 DEF HandleCmdResult, Pending
  <2>3. cmd'[k].st = "result" /\ \A j \in Cmds \ {k} : cmd'[j] = cmd[j]
    BY <1>t, <2>2
  <2>4. Call!Answer(k)
    BY <2>1, <2>2, <2>3 DEF Call!Answer, CallState
  <2> QED BY <2>4 DEF Call!Next
<1> QED BY <1>1, <1>2, <1>3, <1>4, Classes

\* Whatever happens to connections, agents and the panel, a call of sendCommand
\* is answered at most once, only after the node ran the command, and the node
\* runs it at most once: the safety part of RemoteCall.
THEOREM CallImplemented == LinkSpec => Call!Init /\ [][Call!Next]_(Call!vars)
<1>1. LinkInit => Call!Init /\ CallInv
  <2> SUFFICES ASSUME LinkInit PROVE Call!Init /\ CallInv
    OBVIOUS
  <2>1. \A k \in Cmds : cmd[k].st = "new" /\ execs[k] = 0
    BY DEF LinkInit, Init
  <2>2. Call!Init
    BY <2>1 DEF Call!Init, CallState, LinkInit
  <2>3. CallInv
    BY <2>1 DEF LinkInit, CallInv, WorkTypes, OneCall
  <2> QED BY <2>2, <2>3
<1>2. LinkSpec => [](TypeOK /\ CommandTimersMatch)
  <2>1. TimersMatch => CommandTimersMatch
    BY DEF TimersMatch
  <2> QED BY <2>1, LinkImplementsHub, TypeCorrect, TimersCorrect, PTL
<1> QED BY <1>1, <1>2, CallStep, CallRefined, PTL DEF LinkSpec

----------------------------------------------------------------------------
\* Where a piece of traffic can be
FlowTypes ==
  /\ counter \in [Nodes -> SUBSET Units]
  /\ collected \in [Nodes -> SUBSET Units]
  /\ recorded \in [Units -> {0, 1}]
  /\ DOMAIN toHub = Conns

Carries(m, u) == m.type = "report" /\ u \in m.units
WithAgent(n, u) == u \in counter[n] \/ u \in collected[n]

\* A piece of traffic is in one place: the counters of a node, what its agent
\* has read, a report, or the database.
OnePlace(u) ==
  /\ \A n \in Nodes : WithAgent(n, u) =>
       recorded[u] = 0 /\ \A c \in Conns : \A m \in toHub[c] : ~Carries(m, u)
  /\ \A n, p \in Nodes : WithAgent(n, u) /\ WithAgent(p, u) => n = p
  /\ \A n \in Nodes : u \in counter[n] => u \notin collected[n]
  /\ \A c, d \in Conns : \A m \in toHub[c], x \in toHub[d] :
       Carries(m, u) /\ Carries(x, u) => c = d /\ m = x
  /\ \A c \in Conns : \A m \in toHub[c] : Carries(m, u) => recorded[u] = 0

FlowInv == FlowTypes /\ \A u \in Units : OnePlace(u)

\* Steps that bring no traffic forward: it stays or is lost, and no report is
\* sent.
Lossy ==
  /\ FlowTypes'
  /\ UNCHANGED recorded
  /\ \A n \in Nodes : counter'[n] \subseteq counter[n] /\ collected'[n] \subseteq collected[n]
  /\ \A c \in Conns : \A m \in toHub'[c] : m \in toHub[c] \/ m.type # "report"

LEMMA LossyKeeps == ASSUME FlowInv, Lossy PROVE FlowInv'
<1>1. ASSUME NEW u \in Units PROVE OnePlace(u)'
  <2>1. OnePlace(u)
    BY DEF FlowInv
  <2>2. \A n \in Nodes : /\ u \in counter'[n] => u \in counter[n]
                         /\ u \in collected'[n] => u \in collected[n]
    BY DEF Lossy
  <2>3. \A c \in Conns : \A m \in toHub'[c] : Carries(m, u) => m \in toHub[c]
    BY DEF Lossy, Carries
  <2>4. recorded' = recorded
    BY DEF Lossy
  <2> QED BY <2>1, <2>2, <2>3, <2>4 DEF OnePlace, WithAgent
<1> QED BY <1>1 DEF FlowInv, Lossy

\* Only a report is a report.
LEMMA ReportFrames ==
  /\ Auth.type # "report" /\ Pong.type # "report" /\ \A k : Result(k).type # "report"
  /\ \A U : Report(U).type = "report" /\ Report(U).units = U
BY DEF Auth, Pong, Result, Report

\* No step of a connection but the arrival of a report touches traffic.
LEMMA ConnectionLossy ==
  ASSUME FlowInv, NEW c \in Conns, ConnectionStep(c), ~ReportArrives(c) PROVE Lossy
<1>t. FlowTypes
  BY DEF FlowInv
<1>1. ASSUME UNCHANGED flowVars, UNCHANGED toHub PROVE Lossy
  BY <1>t, <1>1 DEF flowVars, Lossy, FlowTypes
<1>2. ASSUME UNCHANGED flowVars, DOMAIN toHub' = Conns, NEW m, m.type # "report",
             \A d \in Conns : toHub'[d] \subseteq toHub[d] \cup {m}
      PROVE  Lossy
  BY <1>t, <1>2 DEF flowVars, Lossy, FlowTypes
<1>3. ASSUME NEW m, Reads(c, m), UNCHANGED flowVars PROVE Lossy
  <2>1. DOMAIN toHub' = Conns /\ \A d \in Conns : toHub'[d] \subseteq toHub[d]
    BY <1>t, <1>3 DEF Reads, FlowTypes
  <2> QED BY <1>3, <1>2, <2>1, ReportFrames
<1>4. CASE Accept(c) \/ HandshakeFails(c) \/ AuthDue(c) \/ DialFails(c) \/ AgentClose(c)
           \/ \E k \in Cmds : Execute(c, k)
  BY <1>1, <1>4 DEF Accept, HandshakeFails, AuthDue, DialFails, AgentClose, Execute, workVars
<1>5. CASE Opened(c)
  <2>1. DOMAIN toHub' = Conns /\ \A d \in Conns : toHub'[d] \subseteq toHub[d] \cup {Auth}
    BY <1>t, <1>5 DEF Opened, FlowTypes
  <2>2. UNCHANGED flowVars
    BY <1>5 DEF Opened
  <2> QED BY <1>2, <2>1, <2>2, ReportFrames
<1>6. CASE AnswerPing(c)
  <2>1. SendMsg(dialer[c], Pong) /\ UNCHANGED flowVars
    BY <1>6 DEF AnswerPing
  <2>2. DOMAIN toHub' = Conns /\ \A d \in Conns : toHub'[d] \subseteq toHub[d] \cup {Pong}
    BY <1>t, <2>1, SentFrames DEF FlowTypes
  <2> QED BY <1>2, <2>1, <2>2, ReportFrames
<1>7. CASE AuthArrives(c) \/ PongArrives(c) \/ \E k \in Cmds : ResultArrives(c, k)
  BY <1>3, <1>7 DEF AuthArrives, PongArrives, ResultArrives
<1>8. CASE SocketFinishes(c) \/ Cut(c)
  <2>1. toHub' = [toHub EXCEPT ![c] = {}] /\ UNCHANGED flowVars
    BY <1>8 DEF SocketFinishes, Cut
  <2>2. DOMAIN toHub' = Conns /\ \A d \in Conns : toHub'[d] \subseteq toHub[d]
    BY <1>t, <2>1 DEF FlowTypes
  <2> QED BY <1>2, <2>1, <2>2, ReportFrames
<1> QED BY <1>4, <1>5, <1>6, <1>7, <1>8 DEF ConnectionStep

\* Nor does the panel by itself.
LEMMA PanelLossy == ASSUME FlowInv, PanelStep PROVE Lossy
<1>t. FlowTypes
  BY DEF FlowInv
<1>1. ASSUME UNCHANGED flowVars, UNCHANGED toHub PROVE Lossy
  BY <1>t, <1>1 DEF flowVars, Lossy, FlowTypes
<1>2. CASE HubAlone \/ Away \/ Back \/ Ping \/ \E n \in Nodes, c \in Conns : PongDue(n, c)
  BY <1>1, <1>2 DEF HubAlone, Away, Back, Ping, PongDue, workVars
<1>3. CASE \E k \in Cmds, n \in Nodes : Command(k, n)
  BY <1>1, <1>3 DEF Command
<1>4. CASE PanelRestart
  BY <1>t, <1>4 DEF PanelRestart, flowVars, Lossy, FlowTypes
<1> QED BY <1>2, <1>3, <1>4 DEF PanelStep

\* A report is recorded once: taking the frame leaves no other with the same
\* traffic.
LEMMA ArrivalKeeps == ASSUME FlowInv, NEW c \in Conns, ReportArrives(c) PROVE FlowInv'
<1>t. FlowTypes
  BY DEF FlowInv
<1>1. PICK m \in toHub[c] :
        /\ m.type = "report"
        /\ toHub' = [toHub EXCEPT ![c] = @ \ {m}]
        /\ UNCHANGED <<counter, collected>>
        /\ \/ UNCHANGED recorded
           \/ recorded' = [u \in Units |-> IF u \in m.units THEN recorded[u] + 1 ELSE recorded[u]]
  BY DEF ReportArrives, Reads
<1>2. /\ DOMAIN toHub' = Conns
      /\ toHub'[c] = toHub[c] \ {m}
      /\ \A d \in Conns \ {c} : toHub'[d] = toHub[d]
  BY <1>t, <1>1 DEF FlowTypes
<1>3. CASE UNCHANGED recorded
  BY <1>t, <1>1, <1>2, <1>3, LossyKeeps DEF Lossy, FlowTypes
<1>4. CASE recorded' = [u \in Units |-> IF u \in m.units THEN recorded[u] + 1 ELSE recorded[u]]
  <2>1. ASSUME NEW u \in Units, u \notin m.units
        PROVE  OnePlace(u)' /\ recorded'[u] \in {0, 1}
    <3>1. OnePlace(u) /\ recorded'[u] = recorded[u]
      BY <1>4, <2>1 DEF FlowInv
    <3>2. \A d \in Conns : \A x \in toHub'[d] : x \in toHub[d]
      BY <1>2
    <3>3. recorded'[u] \in {0, 1}
      BY <1>t, <3>1 DEF FlowTypes
    <3> QED BY <1>1, <3>1, <3>2, <3>3 DEF OnePlace, WithAgent
  <2>2. ASSUME NEW u \in Units, u \in m.units
        PROVE  OnePlace(u)' /\ recorded'[u] \in {0, 1}
    <3>1. OnePlace(u) /\ Carries(m, u)
      BY <1>1, <2>2 DEF FlowInv, Carries
    <3>2. recorded[u] = 0 /\ \A n \in Nodes : ~WithAgent(n, u)
      BY <3>1 DEF OnePlace
    <3>3. \A d \in Conns : \A x \in toHub'[d] : ~Carries(x, u)
      BY <1>2, <3>1 DEF OnePlace
    <3>4. \A n \in Nodes : ~WithAgent(n, u)'
      BY <1>1, <3>2 DEF WithAgent
    <3>5. recorded'[u] = 1
      BY <1>4, <2>2, <3>2
    <3> QED BY <3>3, <3>4, <3>5 DEF OnePlace, WithAgent
  <2>3. recorded' \in [Units -> {0, 1}]
    BY <1>4, <2>1, <2>2
  <2> QED BY <1>t, <1>1, <1>2, <2>1, <2>2, <2>3 DEF FlowInv, FlowTypes
<1> QED BY <1>1, <1>3, <1>4

\* A report takes what was read with it.
LEMMA SendKeeps == ASSUME FlowInv, NEW n \in Nodes, SendReport(n) PROVE FlowInv'
<1> DEFINE m == Report(collected[n])
<1>t. FlowTypes
  BY DEF FlowInv
<1>1. /\ UNCHANGED <<counter, recorded>>
      /\ collected' = [collected EXCEPT ![n] = {}]
      /\ SendMsg(n, m)
  BY DEF SendReport
<1>2. /\ DOMAIN toHub' = Conns
      /\ \/ \A d \in Conns : toHub'[d] = toHub[d]
         \/ \E w \in Conns : /\ toHub'[w] = toHub[w] \cup {m}
                             /\ \A d \in Conns \ {w} : toHub'[d] = toHub[d]
  <2>1. \/ toHub' = toHub \/ toHub' = [toHub EXCEPT ![ws[n]] = @ \cup {m}]
    BY <1>1 DEF SendMsg
  <2>2. CASE ws[n] \in Conns
    BY <1>t, <2>1, <2>2 DEF FlowTypes
  <2>3. CASE ws[n] \notin Conns
    BY <1>t, <2>1, <2>3 DEF FlowTypes
  <2> QED BY <2>2, <2>3
<1>3. collected' \in [Nodes -> SUBSET Units] /\ collected'[n] = {}
      /\ \A p \in Nodes \ {n} : collected'[p] = collected[p]
  BY <1>t, <1>1 DEF FlowTypes
<1>4. ASSUME NEW u \in Units PROVE OnePlace(u)'
  <2>o. OnePlace(u)
    BY DEF FlowInv
  <2>1. CASE u \in collected[n]
    <3>1. /\ recorded'[u] = 0 /\ \A p \in Nodes : ~WithAgent(p, u)'
          /\ \A c \in Conns : \A x \in toHub[c] : ~Carries(x, u)
      BY <1>1, <1>3, <2>o, <2>1 DEF OnePlace, WithAgent
    <3>2. \A c, d \in Conns : \A x \in toHub'[c], y \in toHub'[d] :
            Carries(x, u) /\ Carries(y, u) => c = d /\ x = m /\ y = m
      BY <1>2, <3>1
    <3> QED BY <3>1, <3>2 DEF OnePlace, WithAgent
  <2>2. CASE u \notin collected[n]
    <3>1. ~Carries(m, u)
      BY <2>2, ReportFrames DEF Carries
    <3>2. \A c \in Conns : \A x \in toHub'[c] : Carries(x, u) => x \in toHub[c]
      BY <1>2, <3>1
    <3>3. \A p \in Nodes : u \in collected'[p] => u \in collected[p]
      BY <1>3
    <3> QED BY <1>1, <2>o, <3>2, <3>3 DEF OnePlace, WithAgent
  <2> QED BY <2>1, <2>2
<1> QED BY <1>t, <1>1, <1>2, <1>3, <1>4 DEF FlowInv, FlowTypes

LEMMA AgentKeepsFlow == ASSUME FlowInv, NEW n \in Nodes, AgentStep(n) PROVE FlowInv'
<1>t. FlowTypes
  BY DEF FlowInv
<1>1. ASSUME UNCHANGED flowVars, UNCHANGED toHub PROVE FlowInv'
  BY <1>t, <1>1, LossyKeeps DEF flowVars, Lossy, FlowTypes
<1>2. CASE Reconnect(n) \/ TwoMinutes(n) \/ Watchdog(n)
  BY <1>1, <1>2 DEF Reconnect, TwoMinutes, Watchdog, workVars
<1>3. CASE AgentRestart(n)
  BY <1>t, <1>3, LossyKeeps DEF AgentRestart, Stopped, Lossy, FlowTypes
<1>4. ASSUME NEW u \in Units, Use(n, u) PROVE FlowInv'
  <2>1. /\ recorded[u] = 0 /\ \A p \in Nodes : ~WithAgent(p, u)
        /\ \A c \in Conns : \A m \in toHub[c] : ~Carries(m, u)
    BY <1>4 DEF Use, WithAgent, Traffic, Carries
  <2>2. UNCHANGED <<collected, recorded, toHub>> /\ counter' = [counter EXCEPT ![n] = @ \cup {u}]
    BY <1>4 DEF Use, workVars
  <2>3. /\ counter' \in [Nodes -> SUBSET Units]
        /\ \A p \in Nodes, v \in Units : v \in counter'[p] <=> v \in counter[p] \/ (p = n /\ v = u)
    BY <1>t, <2>2 DEF FlowTypes
  <2>4. ASSUME NEW v \in Units PROVE OnePlace(v)'
    <3>1. OnePlace(v)
      BY DEF FlowInv
    <3>2. CASE v = u
      BY <2>1, <2>2, <2>3, <3>2 DEF OnePlace, WithAgent
    <3>3. CASE v # u
      BY <2>2, <2>3, <3>1, <3>3 DEF OnePlace, WithAgent
    <3> QED BY <3>2, <3>3
  <2> QED BY <1>t, <2>2, <2>3, <2>4 DEF FlowInv, FlowTypes
<1>5. CASE Collect(n)
  <2>1. PICK read \in SUBSET counter[n] :
          /\ UNCHANGED <<recorded, toHub>>
          /\ counter' = [counter EXCEPT ![n] = {}]
          /\ collected' = [collected EXCEPT ![n] = @ \cup read]
    BY <1>5 DEF Collect, workVars
  <2>2. /\ counter' \in [Nodes -> SUBSET Units] /\ collected' \in [Nodes -> SUBSET Units]
        /\ counter'[n] = {} /\ collected'[n] = collected[n] \cup read
        /\ \A p \in Nodes \ {n} : counter'[p] = counter[p] /\ collected'[p] = collected[p]
    BY <1>t, <2>1 DEF FlowTypes
  <2>3. ASSUME NEW v \in Units PROVE OnePlace(v)'
    <3>1. OnePlace(v)
      BY DEF FlowInv
    <3>2. \A p \in Nodes : /\ WithAgent(p, v)' => WithAgent(p, v)
                           /\ v \in counter'[p] => v \notin collected'[p]
      BY <2>2, <3>1 DEF OnePlace, WithAgent
    <3> QED BY <2>1, <3>1, <3>2 DEF OnePlace, WithAgent
  <2> QED BY <1>t, <2>1, <2>2, <2>3 DEF FlowInv, FlowTypes
<1>6. CASE SendReport(n)
  BY <1>6, SendKeeps
<1>7. ASSUME NEW k \in Cmds, ReplyResult(n, k) PROVE FlowInv'
  <2>1. SendMsg(n, Result(k)) /\ UNCHANGED flowVars
    BY <1>7 DEF ReplyResult
  <2>2. DOMAIN toHub' = Conns /\ \A c \in Conns : toHub'[c] \subseteq toHub[c] \cup {Result(k)}
    BY <1>t, <2>1, SentFrames DEF FlowTypes
  <2> QED BY <1>t, <2>1, <2>2, ReportFrames, LossyKeeps DEF flowVars, Lossy, FlowTypes
<1> QED BY <1>2, <1>3, <1>4, <1>5, <1>6, <1>7 DEF AgentStep

\* No piece of traffic is recorded twice, whatever connections replace each
\* other while reports are on their way.
THEOREM TrafficOnce == LinkSpec => []TrafficRecordedOnce
<1>1. LinkInit => FlowInv
  BY DEF LinkInit, FlowInv, FlowTypes, OnePlace, WithAgent
<1>2. FlowInv /\ [LinkNext]_linkVars => FlowInv'
  <2> SUFFICES ASSUME FlowInv, [LinkNext]_linkVars PROVE FlowInv'
    OBVIOUS
  <2>1. CASE UNCHANGED linkVars
    BY <2>1 DEF linkVars, workVars, flowVars, FlowInv, FlowTypes, OnePlace, WithAgent
  <2>2. ASSUME NEW c \in Conns, ConnectionStep(c) PROVE FlowInv'
    BY <2>2, ArrivalKeeps, ConnectionLossy, LossyKeeps
  <2> QED BY <2>1, <2>2, AgentKeepsFlow, PanelLossy, LossyKeeps DEF LinkNext
<1>3. FlowInv => TrafficRecordedOnce
  BY DEF FlowInv, FlowTypes, TrafficRecordedOnce
<1> QED BY <1>1, <1>2, <1>3, PTL DEF LinkSpec

----------------------------------------------------------------------------
\* The chain of an agent: it has one connection, which is its ws, or one timer
\* that will make one, or neither; its watchdog dials only in the last case.
ChainTypes ==
  /\ em \in [Conns -> {"dialing", "accepted", "open", "closed"}]
  /\ DialerType
  /\ ws \in [Nodes -> Conns \cup {None}]
  /\ retries \in [Nodes -> {0, 1}]
  /\ quiet \in [Nodes -> BOOLEAN]

Chained(c) == em[c] # "closed" =>
  /\ dialer[c] \in Nodes
  /\ ws[dialer[c]] = c
  /\ retries[dialer[c]] = 0

Given(n) == quiet[n] =>
  /\ retries[n] = 0
  /\ \A c \in Conns : dialer[c] = n => em[c] = "closed"

ChainInv ==
  /\ ChainTypes
  /\ \A c \in Conns : Chained(c)
  /\ \A n \in Nodes : Given(n)

\* An agent dials when it has neither a connection nor a timer left.
LEMMA DialKeeps ==
  ASSUME ChainInv, NEW n \in Nodes, NEW c \in Conns, NEW dropped, Dial(n, c, dropped),
         \A x \in Conns : dialer[x] = n => em[x] = "closed",
         retries' \in [Nodes -> {0, 1}], retries'[n] = 0,
         \A m \in Nodes \ {n} : retries'[m] = retries[m],
         quiet' \in [Nodes -> BOOLEAN], ~quiet'[n],
         \A m \in Nodes \ {n} : quiet'[m] = quiet[m]
  PROVE  ChainInv'
<1>t. ChainTypes /\ (\A x \in Conns : Chained(x)) /\ (\A m \in Nodes : Given(m))
  BY DEF ChainInv
<1>1. /\ em' \in [Conns -> {"dialing", "accepted", "open", "closed"}]
      /\ dialer' \in [Conns -> Nodes \cup {None}]
      /\ ws' \in [Nodes -> Conns \cup {None}]
  BY <1>t DEF ChainTypes, DialerType, Dial
<1>2. /\ dialer'[c] = n /\ ws'[n] = c
      /\ \A x \in Conns \ {c} : dialer'[x] = dialer[x]
      /\ \A m \in Nodes \ {n} : ws'[m] = ws[m]
      /\ \A x \in Conns \ {c} : em'[x] # "closed" => em[x] # "closed"
  BY <1>t DEF ChainTypes, DialerType, Dial
<1>3. \A x \in Conns : Chained(x)'
  <2> SUFFICES ASSUME NEW x \in Conns, em'[x] # "closed"
               PROVE  /\ dialer'[x] \in Nodes
                      /\ ws'[dialer'[x]] = x
                      /\ retries'[dialer'[x]] = 0
    BY DEF Chained
  <2>1. CASE x = c
    BY <1>2, <2>1
  <2>2. CASE x # c
    <3>1. em[x] # "closed" /\ dialer'[x] = dialer[x]
      BY <1>2, <2>2
    <3>2. dialer[x] \in Nodes \ {n} /\ ws[dialer[x]] = x /\ retries[dialer[x]] = 0
      BY <1>t, <3>1 DEF Chained
    <3> QED BY <1>2, <3>1, <3>2
  <2> QED BY <2>1, <2>2
<1>4. ASSUME NEW m \in Nodes PROVE Given(m)'
  <2> SUFFICES ASSUME quiet'[m]
               PROVE  retries'[m] = 0 /\ \A x \in Conns : dialer'[x] = m => em'[x] = "closed"
    BY DEF Given
  <2>1. m # n /\ quiet[m]
    OBVIOUS
  <2>2. retries[m] = 0 /\ \A x \in Conns : dialer[x] = m => em[x] = "closed"
    BY <1>t, <2>1 DEF Given
  <2> QED BY <1>2, <2>1, <2>2
<1> QED BY <1>1, <1>3, <1>4 DEF ChainInv, ChainTypes, DialerType

\* A connection that closes leaves its agent a timer and no connection.
LEMMA CloseKeeps ==
  ASSUME ChainInv, NEW c \in Conns, em[c] # "closed", CloseHandler(c)
  PROVE  ChainInv'
<1>t. ChainTypes /\ (\A x \in Conns : Chained(x)) /\ (\A m \in Nodes : Given(m))
  BY DEF ChainInv
<1> DEFINE n == dialer[c]
<1>1. n \in Nodes /\ ws[n] = c /\ retries[n] = 0 /\ ~quiet[n]
  BY <1>t DEF Chained, Given
<1>2. /\ em' = [em EXCEPT ![c] = "closed"]
      /\ ws' = [ws EXCEPT ![n] = None]
      /\ retries' = [retries EXCEPT ![n] = @ + 1]
      /\ dialer' = dialer /\ quiet' = quiet
  BY DEF CloseHandler
<1> HIDE DEF n
<1>3. ChainTypes'
  <2>1. retries' \in [Nodes -> {0, 1}]
    BY <1>t, <1>1, <1>2 DEF ChainTypes
  <2> QED BY <1>t, <1>1, <1>2, <2>1 DEF ChainTypes, DialerType
<1>4. ASSUME NEW x \in Conns PROVE Chained(x)'
  <2> SUFFICES ASSUME em'[x] # "closed"
               PROVE  /\ dialer'[x] \in Nodes
                      /\ ws'[dialer'[x]] = x
                      /\ retries'[dialer'[x]] = 0
    BY DEF Chained
  <2>1. x # c /\ em[x] # "closed"
    BY <1>t, <1>2 DEF ChainTypes
  <2>2. dialer[x] \in Nodes /\ ws[dialer[x]] = x /\ retries[dialer[x]] = 0
    BY <1>t, <2>1 DEF Chained
  <2>3. dialer[x] # n
    BY <1>1, <2>1, <2>2
  <2> QED BY <1>t, <1>2, <2>2, <2>3 DEF ChainTypes
<1>5. ASSUME NEW m \in Nodes PROVE Given(m)'
  BY <1>t, <1>1, <1>2 DEF Given, ChainTypes
<1> QED BY <1>3, <1>4, <1>5 DEF ChainInv

LEMMA AgentKeepsChain ==
  ASSUME ~LongOutages, ChainInv, NEW n \in Nodes, AgentStep(n) PROVE ChainInv'
<1>t. ChainTypes /\ (\A x \in Conns : Chained(x)) /\ (\A m \in Nodes : Given(m))
  BY DEF ChainInv
<1>1. CASE Reconnect(n)
  <2>1. PICK c \in Conns : Dial(n, c, {})
    BY <1>1 DEF Reconnect
  <2>2. retries[n] = 1 /\ retries' = [retries EXCEPT ![n] = @ - 1] /\ quiet' = quiet
    BY <1>t, <1>1 DEF Reconnect, ChainTypes
  <2>3. ~quiet[n]
    BY <1>t, <2>2 DEF Given
  <2>4. \A x \in Conns : dialer[x] = n => em[x] = "closed"
    BY <1>t, <2>2 DEF Chained
  <2>5. /\ retries' \in [Nodes -> {0, 1}] /\ retries'[n] = 0
        /\ \A m \in Nodes \ {n} : retries'[m] = retries[m]
    BY <1>t, <2>2 DEF ChainTypes
  <2>6. quiet' \in [Nodes -> BOOLEAN]
    BY <1>t, <2>2 DEF ChainTypes
  <2> QED BY <2>1, <2>2, <2>3, <2>4, <2>5, <2>6, DialKeeps
<1>2. CASE TwoMinutes(n)
  <2>1. /\ retries[n] = 0 /\ (ws[n] = None \/ em[ws[n]] = "closed")
        /\ quiet' = [quiet EXCEPT ![n] = TRUE]
        /\ UNCHANGED <<em, dialer, ws, retries>>
    BY <1>2 DEF TwoMinutes
  <2>2. \A x \in Conns : dialer[x] = n => em[x] = "closed"
    BY <1>t, <2>1, NoneAssumption DEF Chained
  <2> QED BY <1>t, <2>1, <2>2 DEF ChainInv, ChainTypes, DialerType, Chained, Given
<1>3. CASE Watchdog(n)
  <2>1. PICK c \in Conns : Dial(n, c, {ws[n]})
    BY <1>3 DEF Watchdog
  <2>2. quiet[n] /\ quiet' = [quiet EXCEPT ![n] = FALSE] /\ retries' = retries
    BY <1>3 DEF Watchdog
  <2>3. retries[n] = 0 /\ \A x \in Conns : dialer[x] = n => em[x] = "closed"
    BY <1>t, <2>2 DEF Given
  <2>4. /\ retries' \in [Nodes -> {0, 1}] /\ retries'[n] = 0
        /\ \A m \in Nodes \ {n} : retries'[m] = retries[m]
    BY <1>t, <2>2, <2>3 DEF ChainTypes
  <2>5. /\ quiet' \in [Nodes -> BOOLEAN] /\ ~quiet'[n]
        /\ \A m \in Nodes \ {n} : quiet'[m] = quiet[m]
    BY <1>t, <2>2 DEF ChainTypes
  <2> QED BY <2>1, <2>3, <2>4, <2>5, DialKeeps
<1>4. CASE AgentRestart(n)
  <2>1. /\ em' = [c \in Conns |-> IF dialer[c] = n THEN "closed" ELSE em[c]]
        /\ ws' = [ws EXCEPT ![n] = None]
        /\ quiet' = [quiet EXCEPT ![n] = FALSE]
        /\ retries' = [retries EXCEPT ![n] = 1]
        /\ dialer' = dialer
    BY <1>4 DEF AgentRestart, Stopped
  <2>2. ChainTypes'
    BY <1>t, <2>1 DEF ChainTypes, DialerType
  <2>3. ASSUME NEW x \in Conns PROVE Chained(x)'
    BY <1>t, <2>1 DEF Chained, ChainTypes
  <2>4. ASSUME NEW m \in Nodes PROVE Given(m)'
    BY <1>t, <2>1 DEF Given, ChainTypes
  <2> QED BY <2>2, <2>3, <2>4 DEF ChainInv
<1>5. CASE \/ \E u \in Units : Use(n, u)
           \/ Collect(n) \/ SendReport(n)
           \/ \E k \in Cmds : ReplyResult(n, k)
  <2>1. UNCHANGED agentVars
    BY <1>5 DEF Use, Collect, SendReport, ReplyResult
  <2> QED BY <1>t, <2>1 DEF agentVars, ChainInv, ChainTypes, DialerType, Chained, Given
<1> QED BY <1>1, <1>2, <1>3, <1>4, <1>5 DEF AgentStep

LEMMA ConnectionKeepsChain ==
  ASSUME ChainInv, NEW c \in Conns, ConnectionStep(c) PROVE ChainInv'
<1>t. ChainTypes /\ (\A x \in Conns : Chained(x)) /\ (\A m \in Nodes : Given(m))
  BY DEF ChainInv
<1>1. CASE Accept(c)
  <2>1. /\ em[c] = "dialing" /\ em' = [em EXCEPT ![c] = "accepted"]
        /\ UNCHANGED <<dialer, ws, retries, quiet>>
    BY <1>1 DEF Accept
  <2> QED BY <1>t, <2>1 DEF ChainInv, ChainTypes, DialerType, Chained, Given
<1>2. CASE Opened(c)
  <2>1. /\ em[c] = "accepted" /\ em' = [em EXCEPT ![c] = "open"]
        /\ quiet' = [quiet EXCEPT ![dialer[c]] = FALSE]
        /\ UNCHANGED <<dialer, ws, retries>>
    BY <1>2 DEF Opened
  <2>2. dialer[c] \in Nodes
    BY <1>t, <2>1 DEF Chained
  <2>3. ChainTypes'
    BY <1>t, <2>1 DEF ChainTypes, DialerType
  <2>4. ASSUME NEW x \in Conns PROVE Chained(x)'
    BY <1>t, <2>1 DEF Chained, ChainTypes
  <2>5. ASSUME NEW m \in Nodes PROVE Given(m)'
    BY <1>t, <2>1, <2>2 DEF Given, ChainTypes
  <2> QED BY <2>3, <2>4, <2>5 DEF ChainInv
<1>3. CASE DialFails(c) \/ AgentClose(c)
  BY <1>3, CloseKeeps DEF DialFails, AgentClose
<1>4. CASE HandshakeFails(c)
  <2>1. em' = [em EXCEPT ![c] = "closed"] /\ UNCHANGED <<dialer, ws, retries, quiet>>
    BY <1>4 DEF HandshakeFails
  <2> QED BY <1>t, <2>1 DEF ChainInv, ChainTypes, DialerType, Chained, Given
<1>5. CASE ~(Accept(c) \/ Opened(c) \/ DialFails(c) \/ AgentClose(c) \/ HandshakeFails(c))
  <2>1. UNCHANGED agentVars
    BY <1>5 DEF ConnectionStep, AnswerPing, AuthArrives, PongArrives, ReportArrives, AuthDue,
       SocketFinishes, Cut, Execute, ResultArrives
  <2> QED BY <1>t, <2>1 DEF agentVars, ChainInv, ChainTypes, DialerType, Chained, Given
<1> QED BY <1>1, <1>2, <1>3, <1>4, <1>5

LEMMA ChainStep ==
  ASSUME ~LongOutages, ChainInv, [LinkNext]_linkVars PROVE ChainInv'
<1>1. CASE PanelStep \/ UNCHANGED linkVars
  <2>1. UNCHANGED agentVars
    BY <1>1 DEF linkVars, PanelStep, Command, PongDue, Ping, HubAlone, Away, Back, PanelRestart
  <2> QED BY <2>1 DEF agentVars, ChainInv, ChainTypes, DialerType, Chained, Given
<1> QED BY <1>1, AgentKeepsChain, ConnectionKeepsChain DEF LinkNext

LEMMA ChainIsOne == ASSUME ChainInv PROVE OneChain
<1> SUFFICES ASSUME NEW n \in Nodes
             PROVE  LET mine == {c \in Conns : dialer[c] = n /\ em[c] # "closed"}
                    IN  /\ Cardinality(mine) + retries[n] <= 1
                        /\ \A c \in mine : ws[n] = c
  BY DEF OneChain
<1> DEFINE mine == {c \in Conns : dialer[c] = n /\ em[c] # "closed"}
<1>1. \A c \in mine : ws[n] = c /\ retries[n] = 0
  BY DEF ChainInv, Chained
<1>2. retries[n] \in {0, 1}
  BY DEF ChainInv, ChainTypes
<1>3. CASE mine = {}
  <2>1. Cardinality(mine) = 0
    BY <1>3, FS_EmptySet
  <2> QED BY <1>1, <1>2, <2>1
<1>4. CASE mine # {}
  <2>1. PICK c \in mine : TRUE
    BY <1>4
  <2>2. mine = {c} /\ retries[n] = 0
    BY <1>1, <2>1
  <2>3. Cardinality(mine) = 1
    BY <2>2, FS_Singleton
  <2> QED BY <1>1, <2>2, <2>3
<1> QED BY <1>3, <1>4

LEMMA InitChain == LinkInit => ChainInv /\ CallInv /\ FlowInv
<1> SUFFICES ASSUME LinkInit PROVE ChainInv /\ CallInv /\ FlowInv
  OBVIOUS
<1>1. ChainInv
  BY DEF LinkInit, ChainInv, ChainTypes, DialerType, Chained, Given
<1>2. CallInv
  <2>1. \A k \in Cmds : cmd[k].st = "new" /\ execs[k] = 0
    BY DEF LinkInit, Init
  <2> QED BY <2>1 DEF LinkInit, CallInv, WorkTypes, OneCall
<1>3. FlowInv
  BY DEF LinkInit, FlowInv, FlowTypes, OnePlace, WithAgent
<1> QED BY <1>1, <1>2, <1>3

LEMMA FlowStep == FlowInv /\ [LinkNext]_linkVars => FlowInv'
<1> SUFFICES ASSUME FlowInv, [LinkNext]_linkVars PROVE FlowInv'
  OBVIOUS
<1>1. CASE UNCHANGED linkVars
  BY <1>1 DEF linkVars, workVars, flowVars, FlowInv, FlowTypes, OnePlace, WithAgent
<1>2. ASSUME NEW c \in Conns, ConnectionStep(c) PROVE FlowInv'
  BY <1>2, ArrivalKeeps, ConnectionLossy, LossyKeeps
<1> QED BY <1>1, <1>2, AgentKeepsFlow, PanelLossy, LossyKeeps DEF LinkNext

\* The outages and the bound on them
OutageTypes == reach \in BOOLEAN /\ faults \in Nat

LEMMA OutageStep == OutageTypes /\ [LinkNext]_linkVars => OutageTypes'
<1> SUFFICES ASSUME OutageTypes, [LinkNext]_linkVars PROVE OutageTypes'
  OBVIOUS
<1>1. ASSUME NEW n \in Nodes, AgentStep(n) PROVE OutageTypes'
  BY <1>1 DEF OutageTypes, AgentStep, Reconnect, TwoMinutes, Watchdog, AgentRestart, Use,
     Collect, SendReport, ReplyResult, envVars
<1>2. ASSUME NEW c \in Conns, ConnectionStep(c) PROVE OutageTypes'
  BY <1>2 DEF OutageTypes, ConnectionStep, Accept, Opened, DialFails, HandshakeFails, AgentClose,
     AnswerPing, AuthArrives, PongArrives, ReportArrives, AuthDue, SocketFinishes, Cut,
     Execute, ResultArrives, envVars
<1>3. CASE PanelStep \/ UNCHANGED linkVars
  <2>1. CASE Away \/ Back
    <3>1. faults \in Nat /\ (faults' = faults + 1 \/ faults' = faults)
      BY <2>1 DEF OutageTypes, Away, Back
    <3>2. faults' \in Nat
      BY <3>1
    <3>3. reach' \in BOOLEAN
      BY <2>1 DEF Away, Back
    <3> QED BY <3>2, <3>3 DEF OutageTypes
  <2>2. CASE ~(Away \/ Back)
    <3>1. UNCHANGED envVars
      BY <1>3, <2>2 DEF PanelStep, Command, PongDue, Ping, HubAlone, PanelRestart, linkVars
    <3> QED BY <3>1 DEF OutageTypes, envVars
  <2> QED BY <2>1, <2>2
<1> QED BY <1>1, <1>2, <1>3 DEF LinkNext

\* While no outage outlasts the agent's two minutes, an agent never runs two
\* chains: close events, failed handshakes, watchdog and restarts leave one
\* connection, the one it sends through, or one timer.
THEOREM OneChainPerAgent == ASSUME ~LongOutages PROVE LinkSpec => []LinkInv
<1>1. LinkInit => ChainInv /\ CallInv /\ FlowInv /\ OutageTypes
  <2>1. LinkInit => OutageTypes
    BY DEF LinkInit, OutageTypes
  <2> QED BY <2>1, InitChain
<1>2. LinkSpec => [](TypeOK /\ CommandTimersMatch)
  <2>1. TimersMatch => CommandTimersMatch
    BY DEF TimersMatch
  <2> QED BY <2>1, LinkImplementsHub, TypeCorrect, TimersCorrect, PTL
<1>3. ChainInv /\ [LinkNext]_linkVars => ChainInv'
  BY ChainStep
<1>4. TypeOK /\ ChainInv /\ CallInv /\ FlowInv /\ OutageTypes => LinkInv
  <2> SUFFICES ASSUME TypeOK, ChainInv, CallInv, FlowInv, OutageTypes PROVE LinkInv
    OBVIOUS
  <2>1. /\ retries \in [Nodes -> Nat]
        /\ execs \in [Cmds -> Nat]
        /\ recorded \in [Units -> Nat]
    BY DEF ChainInv, ChainTypes, CallInv, WorkTypes, FlowInv, FlowTypes
  <2>2. LinkTypeOK
    BY <2>1 DEF LinkTypeOK, ChainInv, ChainTypes, DialerType, CallInv, WorkTypes, FlowInv,
       FlowTypes, OutageTypes
  <2> QED BY <2>2, ChainIsOne DEF LinkInv
<1> QED BY <1>1, <1>2, <1>3, <1>4, CallStep, FlowStep, OutageStep, PTL DEF LinkSpec

----------------------------------------------------------------------------
\* The connection of an agent presents that agent's credentials.
OwnCredentials == \A c \in Conns : sock[c] = "gone" \/ ident[c] = dialer[c]

LEMMA CredentialsStep ==
  ASSUME TypeOK, DialerType, OwnCredentials, [LinkNext]_linkVars PROVE OwnCredentials'
<1>1. ASSUME NEW n \in Nodes, NEW c \in Conns, NEW dropped, Dial(n, c, dropped), UNCHANGED vars
      PROVE  OwnCredentials'
  BY <1>1 DEF Dial, Fresh, OwnCredentials, DialerType, vars, connVars
<1>2. ASSUME NEW n \in Nodes, AgentStep(n) PROVE OwnCredentials'
  <2>1. UNCHANGED <<vars, dialer>> \/ \E c \in Conns : \E dropped : Dial(n, c, dropped) /\ UNCHANGED vars
    BY <1>2 DEF AgentStep, Reconnect, TwoMinutes, Watchdog, AgentRestart, Stopped, Use,
       Collect, SendReport, ReplyResult, agentVars
  <2> QED BY <1>1, <2>1 DEF OwnCredentials, vars, connVars
<1>3. ASSUME NEW c \in Conns, Accept(c) PROVE OwnCredentials'
  BY <1>3 DEF Accept, Connect, OwnCredentials, TypeOK
<1>4. ASSUME NEW c \in Conns, ConnectionStep(c), ~Accept(c) PROVE OwnCredentials'
  <2>1. dialer' = dialer
    BY <1>4 DEF ConnectionStep, Opened, DialFails, HandshakeFails, AgentClose, CloseHandler,
       AnswerPing, AuthArrives, PongArrives, ReportArrives, AuthDue, SocketFinishes, Cut,
       Execute, ResultArrives, agentVars
  <2>2. ident' = ident
    BY <1>4 DEF ConnectionStep, Opened, DialFails, HandshakeFails, AgentClose,
       AnswerPing, AuthArrives, PongArrives, ReportArrives, AuthDue, SocketFinishes, Cut,
       Execute, ResultArrives, HandleAuth, HandlePong, HandleReport, AuthTimeout, SocketEnds,
       Vanish, HandleCmdResult, vars, connVars
  <2>3. \A x \in Conns : sock[x] = "gone" => sock'[x] = "gone"
    BY <1>4 DEF TypeOK, ConnectionStep, Opened, DialFails, HandshakeFails, AgentClose,
       AnswerPing, AuthArrives, PongArrives, ReportArrives, AuthDue, SocketFinishes, Cut,
       Execute, ResultArrives, HandleAuth, HandlePong, HandleReport, AuthTimeout, SocketEnds,
       Vanish, HandleCmdResult, vars, connVars, CloseSock, Receives
  <2> QED BY <2>1, <2>2, <2>3 DEF OwnCredentials
<1>5. CASE PanelStep \/ UNCHANGED linkVars
  <2>1. dialer' = dialer
    BY <1>5 DEF linkVars, agentVars, PanelStep, Command, PongDue, Ping, HubAlone, Away, Back,
       PanelRestart
  <2>2. ASSUME NEW c \in Conns, CloseEvent(c) PROVE OwnCredentials'
    BY <2>1, <2>2 DEF CloseEvent, OwnCredentials, TypeOK
  <2>3. CASE Restart
    BY <2>3 DEF Restart, OwnCredentials
  <2>4. CASE /\ ident' = ident
             /\ \A x \in Conns : sock[x] = "gone" => sock'[x] = "gone"
    BY <2>1, <2>4 DEF OwnCredentials
  <2>5. ASSUME NEW n \in Nodes, NEW c \in Conns, PongTimeout(n, c)
        PROVE  ident' = ident /\ \A x \in Conns : sock[x] = "gone" => sock'[x] = "gone"
    BY <2>5 DEF PongTimeout, CloseSock
  <2> QED BY <1>5, <2>2, <2>3, <2>4, <2>5 DEF PanelStep, Command, PongDue, Ping, HubAlone,
       Away, Back, PanelRestart, SendCommand, PingTick, CmdTimeout, GraceTimeout, Age,
       StaleCheck, linkVars, vars, connVars
<1> QED BY <1>2, <1>3, <1>4, <1>5 DEF LinkNext

\* The agent throws away what it has read only when its process ends.
OnlineStep ==
  \A n \in Nodes :
    LET c == agents[n] IN
    (/\ c # None /\ sock[c] = "open" /\ alive[c]
     /\ em[c] = "open" /\ em'[c] = "open"
     /\ collected'[n] = {})
      => collected[n] \subseteq Traffic(toHub'[c])

LEMMA ReportsArrive ==
  ASSUME ChainInv, FlowInv, TypeOK, RegistryMatchesConnections, OwnCredentials,
         [LinkNext]_linkVars
  PROVE  OnlineStep
<1> SUFFICES ASSUME NEW n \in Nodes, agents[n] # None, sock[agents[n]] = "open",
                    em[agents[n]] = "open", em'[agents[n]] = "open", collected'[n] = {},
                    collected[n] # {}
             PROVE  collected[n] \subseteq Traffic(toHub'[agents[n]])
  BY DEF OnlineStep
<1> DEFINE c == agents[n]
<1>1. c \in Conns /\ ident[c] = n
  BY DEF TypeOK, RegistryMatchesConnections, RegistryHoldsLiveAgents
<1>2. dialer[c] = n
  BY <1>1 DEF OwnCredentials
<1>3. ws[n] = c
  BY <1>1, <1>2 DEF ChainInv, Chained
<1>t. collected \in [Nodes -> SUBSET Units] /\ DOMAIN toHub = Conns
  BY DEF FlowInv, FlowTypes
<1>4. ASSUME NEW m \in Nodes, AgentStep(m) PROVE collected[n] \subseteq Traffic(toHub'[c])
  <2>1. CASE SendReport(m)
    <3>1. m = n
      BY <1>t, <2>1 DEF SendReport
    <3>2. SendMsg(n, Report(collected[n]))
      BY <2>1, <3>1 DEF SendReport
    <3>3. WsOpen(n)
      BY <1>1, <1>3, NoneAssumption DEF WsOpen
    <3>4. Report(collected[n]) \in toHub'[c]
      BY <1>t, <1>1, <1>3, <3>2, <3>3 DEF SendMsg
    <3>5. Report(collected[n]).type = "report" /\ Report(collected[n]).units = collected[n]
      BY DEF Report
    <3> QED BY <3>4, <3>5 DEF Traffic
  <2>2. CASE AgentRestart(m)
    <3>1. m = n
      BY <1>t, <2>2 DEF AgentRestart, Stopped
    <3>2. em'[c] = "closed"
      BY <1>1, <1>2, <2>2, <3>1 DEF AgentRestart, Stopped
    <3> QED BY <3>2
  <2>3. CASE Collect(m)
    BY <1>t, <2>3 DEF Collect
  <2>4. CASE ~(SendReport(m) \/ AgentRestart(m) \/ Collect(m))
    <3>1. collected' = collected
      BY <1>4, <2>4 DEF AgentStep, Reconnect, TwoMinutes, Watchdog, Use, ReplyResult, flowVars
    <3> QED BY <3>1
  <2> QED BY <2>1, <2>2, <2>3, <2>4
<1>5. ASSUME NEW d \in Conns, ConnectionStep(d) PROVE collected' = collected
  BY <1>5 DEF ConnectionStep, Accept, Opened, DialFails, HandshakeFails, AgentClose,
     AnswerPing, AuthArrives, PongArrives, ReportArrives, AuthDue, SocketFinishes, Cut,
     Execute, ResultArrives, flowVars
<1>6. CASE PanelStep \/ UNCHANGED linkVars
  <2>1. collected' = collected
    BY <1>6 DEF PanelStep, Command, PongDue, Ping, HubAlone, Away, Back, PanelRestart,
       flowVars, linkVars
  <2> QED BY <2>1
<1> QED BY <1>4, <1>5, <1>6 DEF LinkNext

\* While the panel shows a node's agent online, the agent's traffic reaches the
\* panel's connection: with one chain, the connection registered there is the
\* one the agent sends through.
THEOREM OnlineReports == ASSUME ~LongOutages PROVE LinkSpec => OnlineAgentReports
<1>1. LinkInit => ChainInv /\ FlowInv /\ OwnCredentials /\ DialerType
  <2>1. LinkInit => OwnCredentials /\ DialerType
    BY DEF LinkInit, Init, OwnCredentials, DialerType
  <2> QED BY <2>1, InitChain
<1>2. ChainInv /\ [LinkNext]_linkVars => ChainInv'
  BY ChainStep
<1>3. LinkSpec => [](TypeOK /\ RegistryMatchesConnections)
  BY LinkImplementsHub, TypeCorrect, RegistryCorrect, PTL
<1>4. TypeOK /\ DialerType /\ OwnCredentials /\ [LinkNext]_linkVars => OwnCredentials'
  BY CredentialsStep
<1>5. ChainInv /\ FlowInv /\ TypeOK /\ RegistryMatchesConnections /\ OwnCredentials
        /\ [LinkNext]_linkVars => OnlineStep
  BY ReportsArrive
<1>6. OnlineAgentReports <=> [][OnlineStep]_linkVars
  BY DEF OnlineAgentReports, OnlineStep
<1> QED BY <1>1, <1>2, <1>3, <1>4, <1>5, <1>6, DialerStep, FlowStep, PTL DEF LinkSpec
=============================================================================
