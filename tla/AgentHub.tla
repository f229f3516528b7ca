------------------------------ MODULE AgentHub ------------------------------
(***************************************************************************)
(* The panel's registry of node agents, src/src/services/agent-ws.js: the  *)
(* map `agents`, the map `pendingCommands`, and every timer that touches   *)
(* them.  An agent process dials the panel over a WebSocket, presents a    *)
(* node id and the node's token, then reports every two seconds, answers   *)
(* pings and executes commands.                                            *)
(*                                                                         *)
(* One handler of the JavaScript program is one action: the event loop     *)
(* runs it to completion.  What interleaves is the order in which socket   *)
(* events, messages and timers reach the loop.                             *)
(*                                                                         *)
(* Time is abstracted: an armed timer may fire at any moment, except that  *)
(* a ping round starts only when no pong timer is armed.  PING_INTERVAL    *)
(* is 30 s, PONG_TIMEOUT 10 s, and Node.js runs due timers in the order of *)
(* their deadlines, so every pong timer of a round fires before the next.  *)
(***************************************************************************)
EXTENDS Integers, FiniteSets

CONSTANTS
  Nodes,       \* node rows of the database
  Conns,       \* WebSocket objects; one is used again after its close event
  Cmds,        \* command ids (uuidv4, each is used once)
  None,        \* no connection, no node
  Host,        \* Host[n]: ssh_host || host of node n
  Protocol,    \* Protocol[n]: 'vless', 'ss' or 'hy2'
  MaxFlaps     \* bound: an agent does not dial while this many grace timers
               \* of its node are armed

ASSUME NoneAssumption == None \notin Nodes \cup Conns
ASSUME HostAssumption == DOMAIN Host = Nodes /\ DOMAIN Protocol = Nodes
ASSUME MaxFlapsAssumption == MaxFlaps \in Nat \ {0}

VARIABLES
  sock,        \* "open": readyState 1.  "closing": the panel called close()
               \* or terminate(), data of the peer may still be delivered.
               \* "ended": the socket is finished, its 'close' event is queued.
               \* "gone": the 'close' event ran (or the object is unused).
  alive,       \* the far end of the connection still sends and answers
  ident,       \* the node whose credentials the far end presents, None if bad
  authed,      \* ws._agentState.authenticated
  authTimer,   \* connections whose ws._authTimer is armed
  agents,      \* nodeId |-> ws of the registered entry, or None
  pongReceived,\* nodeId |-> _pongReceived of the registered entry (TRUE
               \* when there is none)
  pongTimers,  \* armed pong timers <<nodeId, captured ws>>
  graceTimers, \* nodeId |-> number of armed 30 s offline timers
  cmd,         \* command id |-> its state, target node and carrier
  cmdTimers,   \* commands whose 30 s timer is armed
  active,      \* nodes.is_active
  lastReport   \* nodes.agent_last_report: "never" (NULL), "fresh", or "old",
               \* that is STALE_AGENT_THRESHOLD_MS or more ago

connVars == <<sock, alive, ident, authed, authTimer>>
hubVars  == <<agents, pongReceived, pongTimers, graceTimers>>
cmdVars  == <<cmd, cmdTimers>>
dbVars   == <<active, lastReport>>
vars     == <<connVars, hubVars, cmdVars, dbVars>>

----------------------------------------------------------------------------
\* healthService.getPeerNodes: same host, another protocol
Peers(n) == {m \in Nodes : m # n /\ Host[m] = Host[n] /\ Protocol[m] # Protocol[n]}

\* resolveAgentForNode: the node's own connection when it is open, else the
\* open connection of any node of the same host
OwnCarrier(n) == agents[n] # None /\ sock[agents[n]] = "open"
Carriers(n) ==
  IF OwnCarrier(n) THEN {n}
  ELSE {m \in Nodes : m # n /\ Host[m] = Host[n] /\ OwnCarrier(m)}
Online(n) == Carriers(n) # {}

Pending(k) == cmd[k].st = "pending"

\* ws.close() and ws.terminate(): no effect on a connection that is not open
CloseSock(C) == [c \in Conns |-> IF c \in C /\ sock[c] = "open" THEN "closing" ELSE sock[c]]

\* Variant: the commands of every node fail
CleanupEverything(N) ==
  LET lost == {k \in Cmds : N # {} /\ Pending(k)}
  IN  /\ cmd' = [k \in Cmds |-> IF k \in lost THEN [cmd[k] EXCEPT !.st = "lost"] ELSE cmd[k]]
      /\ cmdTimers' = cmdTimers \ lost

\* cleanupPendingCommands for every node of N: by the node a command was
\* addressed to, whichever connection carries it
CleanupPendingCommands(N) ==
  LET lost == {k \in Cmds : Pending(k) /\ cmd[k].node \in N}
  IN  /\ cmd' = [k \in Cmds |-> IF k \in lost THEN [cmd[k] EXCEPT !.st = "lost"] ELSE cmd[k]]
      /\ cmdTimers' = cmdTimers \ lost

\* healthService.mirrorPeerState(peers, 0, ...): the peers get the offline
\* mark and a new agent_last_report
MarkOffline(marked, mirrored) ==
  /\ active' = [n \in Nodes |-> active[n] /\ n \notin marked \cup mirrored]
  /\ lastReport' = [n \in Nodes |-> IF n \in mirrored THEN "fresh" ELSE lastReport[n]]

----------------------------------------------------------------------------
\* The panel starts: the maps are empty, the database has whatever an earlier
\* run or a deployment left in it.
Init ==
  /\ sock = [c \in Conns |-> "gone"]
  /\ alive = [c \in Conns |-> FALSE]
  /\ ident = [c \in Conns |-> None]
  /\ authed = [c \in Conns |-> FALSE]
  /\ authTimer = {}
  /\ agents = [n \in Nodes |-> None]
  /\ pongReceived = [n \in Nodes |-> TRUE]
  /\ pongTimers = {}
  /\ graceTimers = [n \in Nodes |-> 0]
  /\ cmd = [k \in Cmds |-> [st |-> "new", node |-> None, via |-> None]]
  /\ cmdTimers = {}
  /\ active \in [Nodes -> BOOLEAN]
  /\ lastReport \in [Nodes -> {"never", "old"}]

\* wss.on('connection'): the far end is an agent of node n, or somebody with
\* bad credentials (n = None).  c stands for a new object, so no timer and no
\* command may still refer to it.
Connect(c, n) ==
  /\ sock[c] = "gone"
  /\ \A m \in Nodes : <<m, c>> \notin pongTimers
  /\ \A k \in Cmds : Pending(k) => cmd[k].via # c
  /\ n # None => graceTimers[n] < MaxFlaps
  /\ sock' = [sock EXCEPT ![c] = "open"]
  /\ alive' = [alive EXCEPT ![c] = TRUE]
  /\ ident' = [ident EXCEPT ![c] = n]
  /\ authed' = [authed EXCEPT ![c] = FALSE]
  /\ authTimer' = authTimer \cup {c}
  /\ UNCHANGED <<hubVars, cmdVars, dbVars>>

\* A message of the far end can reach the handler: the ws library delivers
\* messages on a connection the panel is closing, too.
Receives(c) == alive[c] /\ sock[c] \in {"open", "closing"}

\* Two variants: the replaced connection is left open; the mark of the last
\* pong is inherited from the replaced entry
AuthKeepsOld(c) ==
  LET n == ident[c] IN
  /\ Receives(c) /\ ~authed[c] /\ n # None
  /\ authTimer' = authTimer \ {c}
  /\ authed' = [authed EXCEPT ![c] = TRUE]
  /\ agents' = [agents EXCEPT ![n] = c]
  /\ pongReceived' = [pongReceived EXCEPT ![n] = TRUE]
  /\ UNCHANGED <<sock, alive, ident, pongTimers, graceTimers, cmdVars, dbVars>>
AuthKeepsPong(c) ==
  LET n == ident[c] IN
  /\ Receives(c) /\ ~authed[c] /\ n # None
  /\ sock' = CloseSock({agents[n]} \ {c})
  /\ authTimer' = authTimer \ {c}
  /\ authed' = [authed EXCEPT ![c] = TRUE]
  /\ agents' = [agents EXCEPT ![n] = c]
  /\ UNCHANGED <<alive, ident, pongReceived, pongTimers, graceTimers, cmdVars, dbVars>>

\* handleAuth and handleNormalAuth with valid credentials
HandleAuth(c) ==
  LET n == ident[c] IN
  /\ Receives(c)
  /\ ~authed[c]
  /\ n # None
  /\ sock' = CloseSock({agents[n]} \ {c})
  /\ authTimer' = authTimer \ {c}
  /\ authed' = [authed EXCEPT ![c] = TRUE]
  /\ agents' = [agents EXCEPT ![n] = c]
  /\ pongReceived' = [pongReceived EXCEPT ![n] = TRUE]
  /\ UNCHANGED <<alive, ident, pongTimers, graceTimers, cmdVars, dbVars>>

\* Every path on which the panel closes a connection because of a message:
\* bad credentials (4004-4006), invalid JSON, message before auth, rate limit
RejectMessage(c) ==
  /\ Receives(c)
  /\ sock[c] = "open"
  /\ sock' = CloseSock({c})
  /\ UNCHANGED <<alive, ident, authed, authTimer, hubVars, cmdVars, dbVars>>

\* ws._authTimer
AuthTimeout(c) ==
  /\ c \in authTimer
  /\ authTimer' = authTimer \ {c}
  /\ sock' = IF authed[c] THEN sock ELSE CloseSock({c})
  /\ UNCHANGED <<alive, ident, authed, hubVars, cmdVars, dbVars>>

\* The far end falls silent: its host is cut off, no FIN ever arrives
Vanish(c) ==
  /\ Receives(c)
  /\ alive' = [alive EXCEPT ![c] = FALSE]
  /\ UNCHANGED <<sock, ident, authed, authTimer, hubVars, cmdVars, dbVars>>

\* The socket finishes: the peer closed it or answered the close frame, the
\* network reset it, or ws gave up 30 s after close()
SocketEnds(c) ==
  /\ \/ sock[c] = "open" /\ alive[c]
     \/ sock[c] = "closing"
  /\ sock' = [sock EXCEPT ![c] = "ended"]
  /\ alive' = [alive EXCEPT ![c] = FALSE]
  /\ UNCHANGED <<ident, authed, authTimer, hubVars, cmdVars, dbVars>>

\* Variant: the handler does not look whose entry it deletes
CloseWithoutIdentity(c) ==
  LET n == ident[c] IN
  /\ sock[c] = "ended"
  /\ sock' = [sock EXCEPT ![c] = "gone"]
  /\ authTimer' = authTimer \ {c}
  /\ ident' = [ident EXCEPT ![c] = None]
  /\ authed' = [authed EXCEPT ![c] = FALSE]
  /\ IF authed[c]
       THEN /\ agents' = [agents EXCEPT ![n] = None]
            /\ pongReceived' = [pongReceived EXCEPT ![n] = TRUE]
            /\ graceTimers' = [graceTimers EXCEPT ![n] = @ + 1]
            /\ CleanupPendingCommands({n})
       ELSE UNCHANGED <<agents, pongReceived, graceTimers, cmdVars>>
  /\ UNCHANGED <<alive, pongTimers, dbVars>>

\* ws.on('close')
CloseEvent(c) ==
  LET n == ident[c] IN
  /\ sock[c] = "ended"
  /\ sock' = [sock EXCEPT ![c] = "gone"]
  /\ authTimer' = authTimer \ {c}
  /\ ident' = [ident EXCEPT ![c] = None]
  /\ authed' = [authed EXCEPT ![c] = FALSE]
  /\ IF authed[c] /\ agents[n] = c
       THEN /\ agents' = [agents EXCEPT ![n] = None]
            /\ pongReceived' = [pongReceived EXCEPT ![n] = TRUE]
            /\ graceTimers' = [graceTimers EXCEPT ![n] = @ + 1]
            /\ CleanupPendingCommands({n})
       ELSE UNCHANGED <<agents, pongReceived, graceTimers, cmdVars>>
  /\ UNCHANGED <<alive, pongTimers, dbVars>>

\* Variant: the offline mark ignores a reconnection
GraceWithoutRecheck(n) ==
  /\ graceTimers[n] > 0
  /\ graceTimers' = [graceTimers EXCEPT ![n] = @ - 1]
  /\ MarkOffline({n}, Peers(n))
  /\ UNCHANGED <<connVars, agents, pongReceived, pongTimers, cmdVars>>

\* The timer the close handler armed, 30 s later
GraceTimeout(n) ==
  /\ graceTimers[n] > 0
  /\ graceTimers' = [graceTimers EXCEPT ![n] = @ - 1]
  /\ IF agents[n] = None /\ active[n]
       THEN MarkOffline({n}, Peers(n))
       ELSE UNCHANGED dbVars
  /\ UNCHANGED <<connVars, agents, pongReceived, pongTimers, cmdVars>>

\* Variant: a ping round without pong timers
PingWithoutDeadline ==
  LET dropped == {n \in Nodes : agents[n] # None /\ sock[agents[n]] # "open"}
  IN  /\ agents' = [n \in Nodes |-> IF n \in dropped THEN None ELSE agents[n]]
      /\ pongReceived' = [n \in Nodes |-> agents'[n] = None]
      /\ CleanupPendingCommands(dropped)
      /\ UNCHANGED <<connVars, graceTimers, pongTimers, dbVars>>

\* The ping interval: entries whose socket is not open are dropped, the others
\* are pinged and get a pong timer
PingTick ==
  LET dropped == {n \in Nodes : agents[n] # None /\ sock[agents[n]] # "open"}
      pinged  == {n \in Nodes : agents[n] # None /\ sock[agents[n]] = "open"}
  IN  /\ pongTimers = {}
      /\ agents' = [n \in Nodes |-> IF n \in dropped THEN None ELSE agents[n]]
      /\ CleanupPendingCommands(dropped)
      /\ pongReceived' = [n \in Nodes |-> n \notin pinged]
      /\ pongTimers' = {<<n, agents[n]>> : n \in pinged}
      /\ UNCHANGED <<connVars, graceTimers, dbVars>>

\* A pong timer: looks at the entry registered now, terminates the connection
\* captured when the ping was sent
PongTimeout(n, c) ==
  /\ <<n, c>> \in pongTimers
  /\ pongTimers' = pongTimers \ {<<n, c>>}
  /\ IF agents[n] # None /\ ~pongReceived[n]
       THEN /\ sock' = CloseSock({c})
            /\ agents' = [agents EXCEPT ![n] = None]
            /\ pongReceived' = [pongReceived EXCEPT ![n] = TRUE]
            /\ CleanupPendingCommands({n})
       ELSE UNCHANGED <<sock, agents, pongReceived, cmdVars>>
  /\ UNCHANGED <<alive, ident, authed, authTimer, graceTimers, dbVars>>

\* handlePong: credits whatever entry the node has now
HandlePong(c) ==
  LET n == ident[c] IN
  /\ Receives(c)
  /\ authed[c]
  /\ agents[n] # None
  /\ pongReceived' = [pongReceived EXCEPT ![n] = TRUE]
  /\ UNCHANGED <<connVars, agents, pongTimers, graceTimers, cmdVars, dbVars>>

\* handleReport and updateFromAgentReport: the health module decides whether
\* the report changes is_active (new) or not (keep); it always refreshes
\* agent_last_report of the node and of its peers
HandleReport(c) ==
  LET n == ident[c] IN
  /\ Receives(c)
  /\ authed[c]
  /\ agents[n] # None
  /\ \/ active' = active
     \/ \E up \in BOOLEAN :
          active' = [m \in Nodes |-> IF m \in {n} \cup Peers(n) THEN up ELSE active[m]]
  /\ lastReport' = [m \in Nodes |-> IF m \in {n} \cup Peers(n) THEN "fresh" ELSE lastReport[m]]
  /\ UNCHANGED <<connVars, hubVars, cmdVars>>

\* sendCommand
SendCommand(k, n) ==
  /\ cmd[k].st = "new"
  /\ IF Online(n)
       THEN /\ \E m \in Carriers(n) :
                 cmd' = [cmd EXCEPT ![k] = [st |-> "pending", node |-> n, via |-> agents[m]]]
            /\ cmdTimers' = cmdTimers \cup {k}
       ELSE /\ cmd' = [cmd EXCEPT ![k] = [st |-> "offline", node |-> n, via |-> None]]
            /\ UNCHANGED cmdTimers
  /\ UNCHANGED <<connVars, hubVars, dbVars>>

\* handleCmdResult: the agent answers on whatever connection it has by then;
\* an id that is no longer pending is ignored
HandleCmdResult(c, k) ==
  /\ Receives(c)
  /\ authed[c]
  /\ Pending(k)
  /\ Host[ident[c]] = Host[cmd[k].node]
  /\ cmd' = [cmd EXCEPT ![k].st = "result"]
  /\ cmdTimers' = cmdTimers \ {k}
  /\ UNCHANGED <<connVars, hubVars, dbVars>>

\* The 30 s timer of a command
CmdTimeout(k) ==
  /\ k \in cmdTimers
  /\ cmd' = [cmd EXCEPT ![k].st = "timeout"]
  /\ cmdTimers' = cmdTimers \ {k}
  /\ UNCHANGED <<connVars, hubVars, dbVars>>

\* STALE_AGENT_THRESHOLD_MS pass without a report
Age(n) ==
  /\ lastReport[n] = "fresh"
  /\ lastReport' = [lastReport EXCEPT ![n] = "old"]
  /\ UNCHANGED <<connVars, hubVars, cmdVars, active>>

\* checkStaleAgents, every 60 s
StaleCheck ==
  LET stale == {n \in Nodes : /\ active[n]
                              /\ ~Online(n)
                              /\ \A p \in Peers(n) : ~Online(p)
                              /\ lastReport[n] = "old"}
  IN  /\ MarkOffline(stale, UNION {Peers(n) : n \in stale})
      /\ UNCHANGED <<connVars, hubVars, cmdVars>>

\* The panel process stops (shutdown or crash) and starts again: its memory,
\* timers and sockets are gone, the database stays
Restart ==
  /\ sock' = [c \in Conns |-> "gone"]
  /\ alive' = [c \in Conns |-> FALSE]
  /\ ident' = [c \in Conns |-> None]
  /\ authed' = [c \in Conns |-> FALSE]
  /\ authTimer' = {}
  /\ agents' = [n \in Nodes |-> None]
  /\ pongReceived' = [n \in Nodes |-> TRUE]
  /\ pongTimers' = {}
  /\ graceTimers' = [n \in Nodes |-> 0]
  /\ cmd' = [k \in Cmds |-> IF Pending(k) THEN [cmd[k] EXCEPT !.st = "lost"] ELSE cmd[k]]
  /\ cmdTimers' = {}
  /\ UNCHANGED dbVars

----------------------------------------------------------------------------
ConnStep(c) ==
  \/ \E n \in Nodes \cup {None} : Connect(c, n)
  \/ HandleAuth(c)
  \/ RejectMessage(c)
  \/ AuthTimeout(c)
  \/ Vanish(c)
  \/ SocketEnds(c)
  \/ CloseEvent(c)
  \/ HandlePong(c)
  \/ HandleReport(c)

CmdStep(k) ==
  \/ \E n \in Nodes : SendCommand(k, n)
  \/ \E c \in Conns : HandleCmdResult(c, k)
  \/ CmdTimeout(k)

NodeStep(n) ==
  \/ GraceTimeout(n)
  \/ \E c \in Conns : PongTimeout(n, c)
  \/ Age(n)

Next ==
  \/ \E c \in Conns : ConnStep(c)
  \/ \E k \in Cmds : CmdStep(k)
  \/ \E n \in Nodes : NodeStep(n)
  \/ PingTick
  \/ StaleCheck
  \/ Restart

Spec == Init /\ [][Next]_vars

\* Node.js runs every due timer and every queued event; the ws library gives
\* up on a closing handshake after 30 s.  Nothing is assumed of the agents.
TimerFairness ==
  /\ \A c \in Conns : WF_vars(AuthTimeout(c)) /\ WF_vars(sock[c] = "closing" /\ SocketEnds(c))
                      /\ WF_vars(CloseEvent(c))
  /\ \A n \in Nodes, c \in Conns : WF_vars(PongTimeout(n, c))
  /\ \A n \in Nodes : WF_vars(GraceTimeout(n)) /\ WF_vars(Age(n))
  /\ \A k \in Cmds : WF_vars(CmdTimeout(k))
  /\ WF_vars(PingTick)
  /\ WF_vars(StaleCheck)

FairSpec == Spec /\ TimerFairness
----------------------------------------------------------------------------
SockStates == {"open", "closing", "ended", "gone"}
CmdStates  == {"new", "pending", "result", "timeout", "lost", "offline"}

\* The variables have their types; only a connection whose socket still
\* carries data has a far end.
TypeOK ==
  /\ sock \in [Conns -> SockStates]
  /\ alive \in [Conns -> BOOLEAN]
  /\ ident \in [Conns -> Nodes \cup {None}]
  /\ authed \in [Conns -> BOOLEAN]
  /\ authTimer \subseteq Conns
  /\ agents \in [Nodes -> Conns \cup {None}]
  /\ pongReceived \in [Nodes -> BOOLEAN]
  /\ pongTimers \subseteq Nodes \X Conns
  /\ graceTimers \in [Nodes -> Nat]
  /\ cmd \in [Cmds -> [st : CmdStates, node : Nodes \cup {None}, via : Conns \cup {None}]]
  /\ cmdTimers \subseteq Cmds
  /\ active \in [Nodes -> BOOLEAN]
  /\ lastReport \in [Nodes -> {"never", "fresh", "old"}]

\* An entry of `agents` names a connection that proved to be that node's
\* agent and whose 'close' event is still to come: nothing stays registered
\* after its last event, so no node is shown online for ever.
RegistryHoldsLiveAgents ==
  \A n \in Nodes : agents[n] # None =>
    /\ sock[agents[n]] # "gone"
    /\ authed[agents[n]]
    /\ ident[agents[n]] = n

\* Every authenticated connection that is open is the registered one of its
\* node: no agent believes it is connected while the panel ignores its
\* reports (handleReport returns when there is no entry) and never pings it.
\* It also means at most one open authenticated connection per node.
NoOrphanConnection ==
  \A c \in Conns : sock[c] = "open" /\ authed[c] => agents[ident[c]] = c

\* A registered agent with an unanswered ping has a pong timer that captured
\* this very connection: the timer of a replaced connection never stands in
\* for it, and a silent connection always has a deadline.
UnansweredPingHasDeadline ==
  \A n \in Nodes : agents[n] # None /\ ~pongReceived[n] => <<n, agents[n]>> \in pongTimers

\* An open connection that has not authenticated has a deadline, too.
UnauthenticatedHasDeadline ==
  \A c \in Conns : sock[c] = "open" /\ ~authed[c] => c \in authTimer

\* pendingCommands and the armed command timers agree, whichever of result,
\* timeout, disconnection or restart took a command out.
CommandTimersMatch == cmdTimers = {k \in Cmds : Pending(k)}

\* An agent whose connection is open and who answered the last ping leaves the
\* registry only when a newer connection of the same node replaces it (or the
\* panel stops): the late 'close' event or pong timer of an older connection
\* never evicts it.
AnsweringAgentNotEvicted ==
  [][\A n \in Nodes :
       (agents[n] # None /\ sock[agents[n]] = "open" /\ pongReceived[n])
         => \/ agents'[n] # None
            \/ sock'[agents[n]] = "gone"]_vars

\* A command carried by its node's own connection is reported lost only when
\* that connection is not open any more; while it is open the agent may still
\* answer.
OwnCommandLostWithCarrier ==
  [][\A k \in Cmds :
       (Pending(k) /\ cmd'[k].st = "lost" /\ ident[cmd[k].via] = cmd[k].node)
         => sock'[cmd[k].via] # "open"]_vars

\* The hub marks a node offline only while the node or one of its protocol
\* twins has no open registered connection: a reconnection within the grace period
\* disarms the timer of the old disconnection.
OfflineOnlyWhenAbsent ==
  [][\A n \in Nodes :
       (active[n] /\ ~active'[n])
         => \/ \E c \in Conns : HandleReport(c)
            \/ \E m \in {n} \cup Peers(n) : ~OwnCarrier(m)]_vars

\* A connection whose far end has vanished without closing it does not stay,
\* authenticated or not: it is gone in the end, since only a new connection is
\* alive again.
SilentConnectionsDropped == \A c \in Conns : []<>(alive[c] \/ sock[c] = "gone")

HostSilent(n) ==
  \A c \in Conns : ident[c] # None /\ Host[ident[c]] = Host[n] => ~alive[c]

\* A node whose agents have all fallen silent for good ends up marked offline,
\* whichever path noticed the loss: close event, ping round, pong timer or
\* restart of the panel.  A node that never reported is left as it is.
SilentNodesGoOffline ==
  \A n \in Nodes : <>[]HostSilent(n) => <>[](~active[n] \/ lastReport[n] = "never")

\* The registry and the connections agree: whoever is registered is a live agent
\* (agent-ws.js:106, 167), and no live agent is unregistered (agent-ws.js:91).
RegistryMatchesConnections == RegistryHoldsLiveAgents /\ NoOrphanConnection

\* An agent that owes a pong and a connection that owes its authentication have
\* a timer (agent-ws.js:224, :140); a command has one exactly while it is pending
\* (:513).
TimersMatch == UnansweredPingHasDeadline /\ UnauthenticatedHasDeadline /\ CommandTimersMatch

\* Silence is noticed in the end: the connection is dropped, the node shown
\* offline (agent-ws.js:206, health.js:1117).
SilenceIsNoticed == SilentConnectionsDropped /\ SilentNodesGoOffline
=============================================================================
