------------------------------ MODULE AgentLink ------------------------------
(***************************************************************************)
(* The node agent, src/node-agent/agent.js, at the other end of the hub's  *)
(* connections (AgentHub, whose actions are taken as they are).  What the  *)
(* hub sees as a peer that may do anything is here the program: it dials,  *)
(* authenticates, reads and resets the traffic counters of the proxy,      *)
(* reports them, executes commands, and dials again when a connection      *)
(* closes or when its watchdog misses one for two minutes.                 *)
(*                                                                         *)
(* The program keeps ONE variable `ws`.  Every handler sends through it,   *)
(* whichever connection the handler was registered on.                     *)
(***************************************************************************)
EXTENDS AgentHub

CONSTANTS
  Units,        \* pieces of user traffic
  LongOutages,  \* whether the panel may stay away for more than two minutes
                \* while the agent keeps trying
  MaxFaults     \* bound: outages of the panel or of the network, and stops
                \* of an agent process

ASSUME LongOutagesAssumption == LongOutages \in BOOLEAN
ASSUME FaultsAssumption == MaxFaults \in Nat
ASSUME PingAssumption == "ping" \notin Cmds  \* command ids are UUIDs

VARIABLES
  em,        \* the emitter of createRawWs: "dialing" and "accepted" are
             \* readyState 0 before and after the panel took the connection,
             \* "open" is 1, "closed" is 3 (or unused)
  dialer,    \* the node whose agent dialled a connection
  ws,        \* the variable ws of the agent of each node
  retries,   \* number of armed scheduleReconnect timers
  quiet,     \* lastActivity is more than 120 s old
  running,   \* commands whose handler is awaiting its shell command
  execs,     \* how often a command was executed
  toAgent,   \* frames on their way to the agent: commands and "ping"
  toHub,     \* frames on their way to the panel
  counter,   \* traffic in the counters of Xray and Hysteria
  collected, \* traffic read from them by a report that is not sent yet
  recorded,  \* how often the panel recorded a piece of traffic
  reach,     \* the panel runs and can be reached
  faults

agentVars == <<em, dialer, ws, retries, quiet>>
workVars  == <<running, execs, toAgent, toHub>>
flowVars  == <<counter, collected, recorded>>
envVars   == <<reach, faults>>
linkVars  == <<vars, agentVars, workVars, flowVars, envVars>>

----------------------------------------------------------------------------
Auth      == [type |-> "auth"]
Pong      == [type |-> "pong"]
Report(U) == [type |-> "report", units |-> U]
Result(k) == [type |-> "cmd_result", id |-> k]

Traffic(S) == UNION {m.units : m \in {x \in S : x.type = "report"}}

\* ws?.readyState === 1
WsOpen(n) == ws[n] # None /\ em[ws[n]] = "open"

\* sendMsg: through the variable ws, or nowhere
SendMsg(n, m) ==
  toHub' = IF WsOpen(n) THEN [toHub EXCEPT ![ws[n]] = @ \cup {m}] ELSE toHub

\* An unused connection object
Fresh(c) == em[c] = "closed" /\ sock[c] = "gone" /\ \A n \in Nodes : ws[n] # c

\* connect(): a new emitter becomes ws; those of `dropped` are destroyed
\* without a 'close' event
Dial(n, c, dropped) ==
  /\ Fresh(c)
  /\ em' = [x \in Conns |-> IF x = c THEN "dialing" ELSE IF x \in dropped THEN "closed" ELSE em[x]]
  /\ dialer' = [dialer EXCEPT ![c] = n]
  /\ ws' = [ws EXCEPT ![n] = c]
  /\ toAgent' = [x \in Conns |-> IF x \in dropped THEN {} ELSE toAgent[x]]

\* Variant: both the close frame and the end of the socket emit 'close'
CloseHandlerTwice(c) ==
  LET n == dialer[c] IN
  /\ em' = [em EXCEPT ![c] = "closed"]
  /\ ws' = [ws EXCEPT ![n] = None]
  /\ retries' = [retries EXCEPT ![n] = @ + 2]
  /\ toAgent' = [toAgent EXCEPT ![c] = {}]
  /\ UNCHANGED <<dialer, quiet>>

\* ws.on('close') of any emitter: cleanup() empties ws, whatever it holds,
\* and scheduleReconnect() arms a timer
CloseHandler(c) ==
  LET n == dialer[c] IN
  /\ em' = [em EXCEPT ![c] = "closed"]
  /\ ws' = [ws EXCEPT ![n] = None]
  /\ retries' = [retries EXCEPT ![n] = @ + 1]
  /\ toAgent' = [toAgent EXCEPT ![c] = {}]
  /\ UNCHANGED <<dialer, quiet>>

----------------------------------------------------------------------------
LinkInit ==
  /\ Init
  /\ \A n \in Nodes : active[n] /\ lastReport[n] = "old"
  /\ em = [c \in Conns |-> "closed"]
  /\ dialer = [c \in Conns |-> None]
  /\ ws = [n \in Nodes |-> None]
  /\ retries = [n \in Nodes |-> 1]        \* start() dials
  /\ quiet = [n \in Nodes |-> FALSE]
  /\ running = [n \in Nodes |-> {}]
  /\ execs = [k \in Cmds |-> 0]
  /\ toAgent = [c \in Conns |-> {}]
  /\ toHub = [c \in Conns |-> {}]
  /\ counter = [n \in Nodes |-> {}]
  /\ collected = [n \in Nodes |-> {}]
  /\ recorded = [u \in Units |-> 0]
  /\ reach = TRUE
  /\ faults = 0

\* Variant: the timer repeats
ReconnectRepeats(n) ==
  /\ retries[n] > 0
  /\ \E c \in Conns : Dial(n, c, {})
  /\ UNCHANGED <<vars, retries, quiet, running, execs, toHub, flowVars, envVars>>

\* The timer of scheduleReconnect
Reconnect(n) ==
  /\ retries[n] > 0
  /\ \E c \in Conns : Dial(n, c, {})
  /\ retries' = [retries EXCEPT ![n] = @ - 1]
  /\ UNCHANGED <<vars, quiet, running, execs, toHub, flowVars, envVars>>

\* The panel takes the connection
Accept(c) ==
  /\ reach
  /\ em[c] = "dialing"
  /\ Connect(c, dialer[c])
  /\ em' = [em EXCEPT ![c] = "accepted"]
  /\ UNCHANGED <<dialer, ws, retries, quiet, workVars, flowVars, envVars>>

\* ws.on('open'): the credentials are sent through ws
Opened(c) ==
  LET n == dialer[c] IN
  /\ em[c] = "accepted"
  /\ Receives(c)
  /\ em' = [em EXCEPT ![c] = "open"]
  /\ quiet' = [quiet EXCEPT ![n] = FALSE]
  /\ toHub' = IF ws[n] # None /\ em'[ws[n]] = "open"
                THEN [toHub EXCEPT ![ws[n]] = @ \cup {Auth}] ELSE toHub
  /\ UNCHANGED <<vars, dialer, ws, retries, running, execs, toAgent, flowVars, envVars>>

\* The connection cannot be made: 'error', then 'close'
DialFails(c) ==
  /\ \/ em[c] = "dialing" /\ ~reach
     \/ em[c] = "accepted" /\ ~Receives(c)
  /\ CloseHandler(c)
  /\ UNCHANGED <<vars, running, execs, toHub, flowVars, envVars>>

\* The proxy in front of the panel answers instead of it: readyState is 3
\* when the socket closes, so no 'close' is emitted and nothing is scheduled
HandshakeFails(c) ==
  /\ em[c] = "dialing"
  /\ ~reach
  /\ em' = [em EXCEPT ![c] = "closed"]
  /\ UNCHANGED <<vars, dialer, ws, retries, quiet, workVars, flowVars, envVars>>

\* A close frame, the end of the socket, or a write that is never confirmed
AgentClose(c) ==
  /\ em[c] = "open"
  /\ sock[c] # "open" \/ ~alive[c]
  /\ CloseHandler(c)
  /\ UNCHANGED <<vars, running, execs, toHub, flowVars, envVars>>

\* Two minutes without an open ws: a long outage, or nothing is left that
\* could open one
TwoMinutes(n) ==
  /\ ~quiet[n]
  /\ ~WsOpen(n)
  /\ \/ ~reach /\ LongOutages
     \/ retries[n] = 0 /\ (ws[n] = None \/ em[ws[n]] = "closed")
  /\ quiet' = [quiet EXCEPT ![n] = TRUE]
  /\ UNCHANGED <<vars, em, dialer, ws, retries, workVars, flowVars, envVars>>

\* Variant: only a ws that cleanup() emptied counts as missing
WatchdogNeedsCleanup(n) ==
  /\ quiet[n] /\ ws[n] = None
  /\ \E c \in Conns : Dial(n, c, {})
  /\ quiet' = [quiet EXCEPT ![n] = FALSE]
  /\ UNCHANGED <<vars, retries, running, execs, toHub, flowVars, envVars>>

\* watchdog(): the timers of scheduleReconnect stay armed
Watchdog(n) ==
  /\ quiet[n]
  /\ ~WsOpen(n)
  /\ \E c \in Conns : Dial(n, c, {ws[n]})
  /\ quiet' = [quiet EXCEPT ![n] = FALSE]
  /\ UNCHANGED <<vars, retries, running, execs, toHub, flowVars, envVars>>

\* The process ends, after a self_update or otherwise, and systemd starts it
\* again; the operating system closes its sockets, the counters live in the
\* proxy
Stopped(n) ==
  LET mine == {c \in Conns : dialer[c] = n} IN
  /\ em' = [c \in Conns |-> IF c \in mine THEN "closed" ELSE em[c]]
  /\ toAgent' = [c \in Conns |-> IF c \in mine THEN {} ELSE toAgent[c]]
  /\ ws' = [ws EXCEPT ![n] = None]
  /\ quiet' = [quiet EXCEPT ![n] = FALSE]
  /\ running' = [running EXCEPT ![n] = {}]
  /\ collected' = [collected EXCEPT ![n] = {}]
  /\ UNCHANGED <<dialer, execs, counter, recorded>>

AgentRestart(n) ==
  /\ faults < MaxFaults
  /\ faults' = faults + 1
  /\ Stopped(n)
  /\ retries' = [retries EXCEPT ![n] = 1]
  /\ UNCHANGED <<vars, toHub, reach>>

----------------------------------------------------------------------------
\* A user's traffic passes the proxy
Use(n, u) ==
  /\ recorded[u] = 0
  /\ \A m \in Nodes : u \notin counter[m] \cup collected[m]
  /\ \A c \in Conns : u \notin Traffic(toHub[c])
  /\ counter' = [counter EXCEPT ![n] = @ \cup {u}]
  /\ UNCHANGED <<vars, agentVars, workVars, collected, recorded, envVars>>

\* Variant: the counters are read without -reset and clear=1
CollectKeeping(n) ==
  /\ counter[n] # {}
  /\ collected' = [collected EXCEPT ![n] = @ \cup counter[n]]
  /\ UNCHANGED <<vars, agentVars, workVars, counter, recorded, envVars>>

\* report(), first half: getXrayTraffic and getHysteriaTraffic read and reset;
\* an answer that comes too late or does not parse is lost (resolve([]))
Collect(n) ==
  /\ counter[n] # {}
  /\ \E read \in SUBSET counter[n] : collected' = [collected EXCEPT ![n] = @ \cup read]
  /\ counter' = [counter EXCEPT ![n] = {}]
  /\ UNCHANGED <<vars, agentVars, workVars, recorded, envVars>>

\* report(), when the slowest probe has answered.  One without traffic only
\* refreshes what the panel shows and is left out.
SendReport(n) ==
  /\ collected[n] # {}
  /\ SendMsg(n, Report(collected[n]))
  /\ collected' = [collected EXCEPT ![n] = {}]
  /\ UNCHANGED <<vars, agentVars, running, execs, toAgent, counter, recorded, envVars>>

\* Variant: the command frame is executed again after a reconnection
ExecuteAgain(c, k) ==
  /\ em[c] = "open" /\ k \in toAgent[c]
  /\ running' = [running EXCEPT ![dialer[c]] = @ \cup {k}]
  /\ execs' = [execs EXCEPT ![k] = @ + 1]
  /\ UNCHANGED <<vars, agentVars, toAgent, toHub, flowVars, envVars>>

\* handleCommand starts: a shell command, a new configuration, an update
Execute(c, k) ==
  /\ em[c] = "open"
  /\ k \in toAgent[c]
  /\ toAgent' = [toAgent EXCEPT ![c] = @ \ {k}]
  /\ running' = [running EXCEPT ![dialer[c]] = @ \cup {k}]
  /\ execs' = [execs EXCEPT ![k] = @ + 1]
  /\ UNCHANGED <<vars, agentVars, toHub, flowVars, envVars>>

\* reply(): through ws
ReplyResult(n, k) ==
  /\ k \in running[n]
  /\ SendMsg(n, Result(k))
  /\ running' = [running EXCEPT ![n] = @ \ {k}]
  /\ UNCHANGED <<vars, agentVars, execs, toAgent, flowVars, envVars>>

\* The panel's 'ping' is answered through ws, too
AnswerPing(c) ==
  /\ em[c] = "open"
  /\ "ping" \in toAgent[c]
  /\ toAgent' = [toAgent EXCEPT ![c] = @ \ {"ping"}]
  /\ SendMsg(dialer[c], Pong)
  /\ UNCHANGED <<vars, agentVars, running, execs, flowVars, envVars>>

----------------------------------------------------------------------------
\* The hub reads a frame: credentials come first on every connection
Reads(c, m) ==
  /\ m \in toHub[c]
  /\ m # Auth => Auth \notin toHub[c]
  /\ toHub' = [toHub EXCEPT ![c] = @ \ {m}]

AuthArrives(c) ==
  /\ Reads(c, Auth)
  /\ IF authed[c] THEN Receives(c) /\ UNCHANGED vars ELSE HandleAuth(c)
  /\ UNCHANGED <<agentVars, running, execs, toAgent, flowVars, envVars>>

PongArrives(c) ==
  /\ Reads(c, Pong)
  /\ IF authed[c] /\ agents[ident[c]] = None THEN Receives(c) /\ UNCHANGED vars
     ELSE HandlePong(c)
  /\ UNCHANGED <<agentVars, running, execs, toAgent, flowVars, envVars>>

\* handleReport drops the report of a connection whose node has no entry
ReportArrives(c) ==
  \E m \in toHub[c] :
    /\ m.type = "report"
    /\ Reads(c, m)
    /\ IF authed[c] /\ agents[ident[c]] = None
         THEN Receives(c) /\ UNCHANGED <<vars, recorded>>
         ELSE /\ HandleReport(c)
              /\ recorded' = [u \in Units |-> IF u \in m.units THEN recorded[u] + 1 ELSE recorded[u]]
    /\ UNCHANGED <<agentVars, running, execs, toAgent, counter, collected, envVars>>

ResultArrives(c, k) ==
  /\ Reads(c, Result(k))
  /\ IF Pending(k) THEN HandleCmdResult(c, k) ELSE Receives(c) /\ UNCHANGED vars
  /\ UNCHANGED <<agentVars, running, execs, toAgent, flowVars, envVars>>

\* sendCommand writes the frame to the carrier
Command(k, n) ==
  /\ SendCommand(k, n)
  /\ toAgent' = [c \in Conns |-> IF Pending(k)' /\ cmd'[k].via = c
                                   THEN toAgent[c] \cup {k} ELSE toAgent[c]]
  /\ UNCHANGED <<agentVars, running, execs, toHub, flowVars, envVars>>

Ping ==
  /\ PingTick
  /\ toAgent' = [c \in Conns |-> IF \E n \in Nodes : <<n, c>> \in pongTimers'
                                   THEN toAgent[c] \cup {"ping"} ELSE toAgent[c]]
  /\ UNCHANGED <<agentVars, running, execs, toHub, flowVars, envVars>>

\* An agent that is there and gets the ping answers within PONG_TIMEOUT
PongDue(n, c) ==
  /\ ~(Receives(c) /\ em[c] = "open" /\ ({"ping"} \cap toAgent[c] # {} \/ Pong \in toHub[c]))
  /\ PongTimeout(n, c)
  /\ UNCHANGED <<agentVars, workVars, flowVars, envVars>>

\* and one whose credentials are under way is not late with them
AuthDue(c) ==
  /\ ~(Receives(c) /\ (em[c] = "accepted" \/ Auth \in toHub[c]))
  /\ AuthTimeout(c)
  /\ UNCHANGED <<agentVars, workVars, flowVars, envVars>>

\* The remaining steps of the panel
HubAlone ==
  /\ \/ \E c \in Conns : CloseEvent(c)
     \/ \E k \in Cmds : CmdTimeout(k)
     \/ \E n \in Nodes : GraceTimeout(n) \/ Age(n)
     \/ StaleCheck
  /\ UNCHANGED <<agentVars, workVars, flowVars, envVars>>

----------------------------------------------------------------------------
\* The panel, or the way to it, fails and comes back
Away ==
  /\ reach /\ faults < MaxFaults
  /\ reach' = FALSE
  /\ faults' = faults + 1
  /\ UNCHANGED <<vars, agentVars, workVars, flowVars>>
Back ==
  /\ ~reach
  /\ reach' = TRUE
  /\ UNCHANGED <<vars, agentVars, workVars, flowVars, faults>>

\* While it fails, connections are cut with or without a sign of it, or the
\* panel restarts; what was on its way to the panel is lost
Cut(c) ==
  /\ ~reach
  /\ Vanish(c)
  /\ toHub' = [toHub EXCEPT ![c] = {}]
  /\ UNCHANGED <<agentVars, running, execs, toAgent, flowVars, envVars>>
PanelRestart ==
  /\ ~reach
  /\ Restart
  /\ toHub' = [c \in Conns |-> {}]
  /\ UNCHANGED <<agentVars, running, execs, toAgent, flowVars, envVars>>

\* The panel's end of a connection finishes: reset, closed by the agent, or
\* closed by the panel
SocketFinishes(c) ==
  /\ sock[c] = "closing" \/ ~reach \/ em[c] = "closed"
  /\ SocketEnds(c)
  /\ toHub' = [toHub EXCEPT ![c] = {}]
  /\ UNCHANGED <<agentVars, running, execs, toAgent, flowVars, envVars>>

----------------------------------------------------------------------------
AgentStep(n) ==
  \/ Reconnect(n) \/ TwoMinutes(n) \/ Watchdog(n)
  \/ AgentRestart(n)
  \/ \E u \in Units : Use(n, u)
  \/ Collect(n) \/ SendReport(n)
  \/ \E k \in Cmds : ReplyResult(n, k)

ConnectionStep(c) ==
  \/ Accept(c) \/ Opened(c) \/ DialFails(c) \/ HandshakeFails(c) \/ AgentClose(c)
  \/ AnswerPing(c)
  \/ AuthArrives(c) \/ PongArrives(c) \/ ReportArrives(c)
  \/ AuthDue(c) \/ SocketFinishes(c) \/ Cut(c)
  \/ \E k \in Cmds : Execute(c, k) \/ ResultArrives(c, k)

PanelStep ==
  \/ \E k \in Cmds, n \in Nodes : Command(k, n)
  \/ \E n \in Nodes, c \in Conns : PongDue(n, c)
  \/ Ping \/ HubAlone \/ Away \/ Back \/ PanelRestart

LinkNext ==
  \/ \E n \in Nodes : AgentStep(n)
  \/ \E c \in Conns : ConnectionStep(c)
  \/ PanelStep

LinkSpec == LinkInit /\ [][LinkNext]_linkVars

\* Timers fire and frames on a live connection arrive.  Nothing is assumed of
\* the end of an outage, of restarts or of traffic.
LinkFairness ==
  /\ \A n \in Nodes :
       /\ WF_linkVars(Reconnect(n) \/ TwoMinutes(n) \/ Watchdog(n))
       /\ WF_linkVars(GraceTimeout(n) /\ HubAlone) /\ WF_linkVars(Age(n) /\ HubAlone)
       /\ \A c \in Conns : WF_linkVars(PongDue(n, c))
  /\ \A c \in Conns :
       /\ WF_linkVars(Accept(c) \/ Opened(c) \/ DialFails(c) \/ HandshakeFails(c) \/ AgentClose(c))
       /\ WF_linkVars(AnswerPing(c) \/ AuthArrives(c) \/ PongArrives(c))
       /\ WF_linkVars(\/ CloseEvent(c) /\ HubAlone
                      \/ SocketFinishes(c) /\ (sock[c] = "closing" \/ em[c] = "closed"))
       /\ WF_linkVars(AuthDue(c))
  /\ \A k \in Cmds : WF_linkVars(CmdTimeout(k) /\ HubAlone)
  /\ WF_linkVars(Ping) /\ WF_linkVars(StaleCheck /\ HubAlone)

FairLinkSpec == LinkSpec /\ LinkFairness
----------------------------------------------------------------------------
\* The variables have their types.
LinkTypeOK ==
  /\ TypeOK
  /\ em \in [Conns -> {"dialing", "accepted", "open", "closed"}]
  /\ dialer \in [Conns -> Nodes \cup {None}]
  /\ ws \in [Nodes -> Conns \cup {None}]
  /\ retries \in [Nodes -> Nat]
  /\ quiet \in [Nodes -> BOOLEAN]
  /\ running \in [Nodes -> SUBSET Cmds]
  /\ execs \in [Cmds -> Nat]
  /\ toAgent \in [Conns -> SUBSET (Cmds \cup {"ping"})]
  /\ counter \in [Nodes -> SUBSET Units]
  /\ collected \in [Nodes -> SUBSET Units]
  /\ recorded \in [Units -> Nat]
  /\ reach \in BOOLEAN
  /\ faults \in Nat

\* An agent has one connection or one timer that will make one, and sends
\* through the connection it has: close events, failed handshakes, the
\* watchdog and restarts never leave two connections that replace each other
\* at the panel.
OneChain ==
  \A n \in Nodes :
    LET mine == {c \in Conns : dialer[c] = n /\ em[c] # "closed"}
    IN  /\ Cardinality(mine) + retries[n] <= 1
        /\ \A c \in mine : ws[n] = c

\* No piece of traffic is recorded twice, although reports overlap and the
\* counters are read while others are still on their way.
TrafficRecordedOnce == \A u \in Units : recorded[u] <= 1

\* While the panel has the node's open connection registered and the agent's
\* end of it is open, the traffic the agent has read is sent over that
\* connection: the agent does not throw it away while it is shown online.  What
\* a failing read loses before (agent.js:400-407) is not spoken of.
OnlineAgentReports ==
  [][\A n \in Nodes :
       LET c == agents[n] IN
       (/\ c # None /\ sock[c] = "open" /\ alive[c]
        /\ em[c] = "open" /\ em'[c] = "open"
        /\ collected'[n] = {})
         => collected[n] \subseteq Traffic(toHub'[c])]_linkVars

Linked(n) ==
  /\ ws[n] # None
  /\ em[ws[n]] = "open"
  /\ agents[n] = ws[n]
  /\ sock[ws[n]] = "open"

\* Once the panel can be reached for good, every agent ends up connected and
\* stays so ("force a reconnection when there has been no
\* active connection for long").
LinkComesBack == \A n \in Nodes : (<>[]reach => <>[]Linked(n))

\* What the caller of sendCommand sees of a command
CallState(k) ==
  CASE cmd[k].st = "new" -> "idle"
    [] cmd[k].st = "pending" -> "asked"
    [] cmd[k].st = "result" -> "answered"
    [] OTHER -> "failed"

\* sendCommand keeps the promise of RemoteCall, whatever happens to the
\* connection that carries the command or its answer.
Call == INSTANCE RemoteCall WITH call <- [k \in Cmds |-> CallState(k)], runs <- execs
CallSpec == Call!Spec

\* The types, and one chain of connections per agent (agent.js:927, 1133).
LinkInv == LinkTypeOK /\ OneChain
=============================================================================
