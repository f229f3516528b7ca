-------------------------------- MODULE Fleet --------------------------------
(***************************************************************************)
(* The node rows of one machine and the machine itself: deployments        *)
(* (services/deploy.js, routes/admin/adminNodes.js), the pushes of         *)
(* syncNodeConfig, the reports of the agent that set and mirror is_active  *)
(* (services/health.js), and the deletion of a node.                       *)
(*                                                                         *)
(* All nodes of a host share one Xray file, one agent and the services, so *)
(* whoever acts on one row acts on the others.  A deployment and a         *)
(* deletion run in the background: a panel restart forgets them.           *)
(*                                                                         *)
(* Of a configuration only its inbounds are kept: the row each one belongs *)
(* to, and the version of the user table it admits (0: no panel user).     *)
(* How pushes of several machines overlap is ConfigSync; when a service    *)
(* counts as down is NodeHealth.                                           *)
(***************************************************************************)
EXTENDS Integers, FiniteSets

CONSTANTS
  Jobs,      \* deployments that can be in progress at once
  Kinds,     \* what a request can ask for: sets of protocols
  MaxRows,   \* bound: rows ever inserted
  MaxVer,    \* bound: versions of the user table, from 1
  MaxFaults  \* bound: failed steps and restarts of the panel

ASSUME FleetAssumption ==
  /\ MaxRows \in Nat \ {0} /\ MaxVer \in Nat \ {0} /\ MaxFaults \in Nat
  /\ Kinds \subseteq {{"vless"}, {"ss"}, {"vless", "ss"}, {"hy2"}, {"hy2", "vless"}}

Ids       == 1..MaxRows
Protocols == {"vless", "ss", "hy2"}
Services  == {"xray", "hysteria"}
Service(p) == IF p = "hy2" THEN "hysteria" ELSE "xray"
Inbounds  == [row : Ids, v : 0..MaxVer]

VARIABLES
  row,      \* Ids -> st ("fresh" until inserted, "off", "on", "gone") and proto
  job,      \* Jobs -> the deployment: phase, protocols, rows, clients read
  file,     \* Services -> inbounds of the configuration file
  live,     \* Services -> inbounds being served; {} when the service is down
  agent,    \* row whose configuration the machine's agent has; 0: no agent
  reported, \* rows with an agent_last_report
  push,     \* the synchronisation: rows to do, the push under way
  del,      \* the deletion: its row (0: none) and how it reaches the machine
  ver,      \* version of the user table
  deployed, \* history: rows whose deployment found its service running
  tangled,  \* history: two deployments of the machine were under way at once
  faults

vars == <<row, job, file, live, agent, reported, push, del, ver, deployed, tangled, faults>>

machine == <<file, live, agent>>
history == <<deployed, tangled>>

Idle   == [ph |-> "idle", kind |-> {}, ids |-> {}, conf |-> {}]
NoPush == [todo |-> {}, cur |-> 0, conf |-> {}]
NoDel  == [row |-> 0, via |-> "none"]

Exists(i) == row[i].st \in {"off", "on"}
On(i)     == row[i].st = "on"
Deploying == {j \in Jobs : job[j].ph # "idle"}
FreeJob   == CHOOSE j \in Jobs : job[j].ph = "idle"  \* slots are interchangeable

\* isAgentOnline: the row's own agent, or that of a row of the same machine
AgentOnline == agent # 0 /\ Exists(agent)

\* getNodeAllUserUuids: the rows of user_node_uuid go with the node
Clients(i) == IF Exists(i) THEN ver ELSE 0
Inbound(i) == [row |-> i, v |-> Clients(i)]

\* The configurations that are built: one Xray inbound, one of Shadowsocks
\* (IPv6 only), both in one file, one of Hysteria
BuildXray(i)   == {Inbound(i)}
BuildSs(i)     == {Inbound(i)}
BuildDual(v, s) == BuildXray(v) \cup BuildSs(s)
BuildHy2(i)    == {Inbound(i)}

\* getPeerNodes: rows of the machine with another protocol, active or not
Peers(i) == {k \in Ids : Exists(k) /\ row[k].proto # row[i].proto}

\* updateNode ... is_active: an UPDATE of a row that is gone does nothing
SetActive(ids, st) ==
  row' = [i \in Ids |-> IF i \in ids /\ Exists(i) THEN [row[i] EXCEPT !.st = st] ELSE row[i]]

Fault == faults < MaxFaults /\ faults' = faults + 1
----------------------------------------------------------------------------
Init ==
  /\ row = [i \in Ids |-> [st |-> "fresh", proto |-> "vless"]]
  /\ job = [j \in Jobs |-> Idle]
  /\ file = [s \in Services |-> {}]
  /\ live = [s \in Services |-> {}]
  /\ agent = 0 /\ reported = {}
  /\ push = NoPush /\ del = NoDel
  /\ ver = 1
  /\ deployed = {} /\ tangled = FALSE
  /\ faults = 0

Fresh      == {i \in Ids : row[i].st = "fresh"}
Room(kind) == Cardinality(kind) <= Cardinality(Fresh)  \* the bound on rows

Asked(kind) == [ph |-> "geo", kind |-> kind, ids |-> {}, conf |-> {}]

\* POST /nodes/deploy, -ss, -dual: refused when a row has the host, then the
\* deployment starts in the background; its first step is to ask where the
\* host is, and it has no row until that is answered.
Submit(j, kind) ==
  /\ job[j].ph = "idle" /\ j = FreeJob
  /\ \A i \in Ids : ~Exists(i)
  /\ kind \in Kinds /\ kind # {"hy2", "vless"} /\ Room(kind)
  /\ job' = [job EXCEPT ![j] = Asked(kind)]
  /\ tangled' = (tangled \/ Deploying # {})
  /\ UNCHANGED <<row, machine, reported, push, del, ver, deployed, faults>>

\* POST /nodes/deploy-smart with Hysteria and VLESS: two deployments at once
SubmitSmart(j, k) ==
  /\ j # k /\ job[j].ph = "idle" /\ job[k].ph = "idle" /\ j = FreeJob
  /\ \A i \in Ids : ~Exists(i)
  /\ {"hy2", "vless"} \in Kinds /\ Room({"hy2", "vless"})
  /\ job' = [job EXCEPT ![j] = Asked({"hy2"}), ![k] = Asked({"vless"})]
  /\ tangled' = TRUE
  /\ UNCHANGED <<row, machine, reported, push, del, ver, deployed, faults>>

\* The rows a deployment inserts: the next ids, VLESS before Shadowsocks
NextId == CHOOSE i \in Fresh : \A k \in Fresh : i <= k
NewIds(kind) == NextId..(NextId + Cardinality(kind) - 1)
ProtoOf(kind, i) ==
  IF Cardinality(kind) = 1 THEN CHOOSE p \in kind : TRUE
  ELSE IF i = NextId THEN "vless" ELSE "ss"

\* The rows, inactive; two rows in one transaction
Insert(j) ==
  /\ job[j].ph = "geo" /\ Room(job[j].kind)
  /\ LET new == NewIds(job[j].kind) IN
       /\ row' = [i \in Ids |-> IF i \in new
                    THEN [st |-> "off", proto |-> ProtoOf(job[j].kind, i)] ELSE row[i]]
       /\ job' = [job EXCEPT ![j] = [@ EXCEPT !.ph = "install", !.ids = new]]
  /\ UNCHANGED <<machine, reported, push, del, ver, history, faults>>

JobService(j) == IF "hy2" \in job[j].kind THEN "hysteria" ELSE "xray"

\* The row whose agent is installed: the VLESS row of a dual deployment
AgentRow(j) ==
  CHOOSE i \in job[j].ids : \A k \in job[j].ids : i <= k

\* The file of a deployment
JobConf(j) ==
  CASE job[j].kind = {"vless"} -> BuildXray(AgentRow(j))
    [] job[j].kind = {"ss"} -> BuildSs(AgentRow(j))
    [] job[j].kind = {"vless", "ss"} -> BuildDual(AgentRow(j), AgentRow(j) + 1)
    [] OTHER -> BuildHy2(AgentRow(j))

\* Connection, installation, keys: then the clients are read
Install(j) ==
  /\ job[j].ph = "install"
  /\ job' = [job EXCEPT ![j] = [@ EXCEPT !.ph = "write", !.conf = JobConf(j)]]
  /\ UNCHANGED <<row, machine, reported, push, del, ver, history, faults>>

\* sftpWriteFile: the file is replaced, then the firewall opened
Write(j) ==
  /\ job[j].ph = "write"
  /\ file' = [file EXCEPT ![JobService(j)] = job[j].conf]
  /\ job' = [job EXCEPT ![j].ph = "start"]
  /\ UNCHANGED <<row, live, agent, reported, push, del, ver, history, faults>>

\* systemctl restart on the machine: the service loads the file it finds
Start(j) ==
  /\ job[j].ph = "start"
  /\ live' = [live EXCEPT ![JobService(j)] = file[JobService(j)]]
  /\ job' = [job EXCEPT ![j].ph = "started"]
  /\ UNCHANGED <<row, file, agent, reported, push, del, ver, history, faults>>

\* DEPLOY_FAIL: the service does not come up, the rows stay inactive
StartFails(j) ==
  /\ job[j].ph = "start"
  /\ Fault
  /\ live' = [live EXCEPT ![JobService(j)] = {}]
  /\ job' = [job EXCEPT ![j] = Idle]
  /\ UNCHANGED <<row, file, agent, reported, push, del, ver, history>>

\* An exception: the remark says so and the rows stay as they are
Fail(j) ==
  /\ job[j].ph \in {"install", "write", "start", "started", "agent"}
  /\ Fault
  /\ job' = [job EXCEPT ![j] = Idle]
  /\ UNCHANGED <<row, machine, reported, push, del, ver, history>>

\* DEPLOY_OK has arrived: the rows become active and installAgentOnNode reads
\* its node; without it nothing is installed.
Finish(j) ==
  /\ job[j].ph = "started"
  /\ SetActive(job[j].ids, "on")
  /\ deployed' = deployed \cup job[j].ids
  /\ job' = [job EXCEPT ![j] = IF Exists(AgentRow(j)) THEN [@ EXCEPT !.ph = "agent"] ELSE Idle]
  /\ UNCHANGED <<machine, reported, push, del, ver, tangled, faults>>

\* The agent's configuration is replaced and the agent restarted
InstallAgent(j) ==
  /\ job[j].ph = "agent"
  /\ agent' = AgentRow(j)
  /\ job' = [job EXCEPT ![j] = Idle]
  /\ UNCHANGED <<row, file, live, reported, push, del, ver, history, faults>>

Deploy(j) ==
  \/ Insert(j) \/ Install(j) \/ Write(j) \/ Start(j)
  \/ StartFails(j) \/ Fail(j) \/ Finish(j) \/ InstallAgent(j)

\* The four deployments: they differ in rows, file and service
DeployNode(j)     == job[j].kind = {"vless"} /\ Deploy(j)
DeploySsNode(j)   == job[j].kind = {"ss"} /\ Deploy(j)
DeployDualNode(j) == job[j].kind = {"vless", "ss"} /\ Deploy(j)
DeployHy2Node(j)  == job[j].kind = {"hy2"} /\ Deploy(j)
----------------------------------------------------------------------------
\* Variant: the row's own state only
ReportUnmirrored ==
  /\ AgentOnline
  /\ reported' = reported \cup {agent} \cup Peers(agent)
  /\ SetActive({agent}, IF live[Service(row[agent].proto)] # {} THEN "on" ELSE "off")
  /\ UNCHANGED <<job, machine, push, del, ver, history, faults>>

\* updateFromAgentReport, mirrorPeerState: the state of the service of the
\* agent's row becomes that of all rows of other protocols (a service that is
\* down shows after three reports).
Report ==
  /\ AgentOnline
  /\ reported' = reported \cup {agent} \cup Peers(agent)
  /\ SetActive({agent} \cup Peers(agent),
               IF live[Service(row[agent].proto)] # {} THEN "on" ELSE "off")
  /\ UNCHANGED <<job, machine, push, del, ver, history, faults>>

\* The restart that health or an administrator asks the agent for
Revive ==
  /\ AgentOnline
  /\ LET s == Service(row[agent].proto) IN live' = [live EXCEPT ![s] = file[s]]
  /\ UNCHANGED <<row, job, file, agent, reported, push, del, ver, history, faults>>

\* The service dies on the machine
Crash(s) ==
  /\ live[s] # {}
  /\ Fault
  /\ live' = [live EXCEPT ![s] = {}]
  /\ UNCHANGED <<row, job, file, agent, reported, push, del, ver, history>>

\* checkStaleAgents: a row that has reported once and has no agent any more
Stale(i) ==
  /\ On(i) /\ i \in reported /\ ~AgentOnline
  /\ SetActive({i} \cup Peers(i), "off")
  /\ UNCHANGED <<job, machine, reported, push, del, ver, history, faults>>
----------------------------------------------------------------------------
\* A user is added, frozen, ...
Change ==
  /\ ver < MaxVer
  /\ ver' = ver + 1
  /\ UNCHANGED <<row, job, machine, reported, push, del, history, faults>>

\* A synchronisation (debounced, nightly, after an edit) reads the active rows
SyncBegin ==
  /\ push = NoPush
  /\ \E i \in Ids : On(i)
  /\ push' = [todo |-> {i \in Ids : On(i)}, cur |-> 0, conf |-> {}]
  /\ UNCHANGED <<row, job, machine, reported, del, ver, history, faults>>

\* findPeerNode: an active row of the other Xray protocol
PushPeers(i) ==
  {k \in Ids : On(k) /\ k # i /\ {row[i].proto, row[k].proto} = {"vless", "ss"}}

\* Variant: findPeerNode looks at no peer
PushReadAlone(i) ==
  /\ push.cur = 0 /\ i \in push.todo
  /\ push' = [todo |-> push.todo \ {i}, cur |-> i, conf |-> BuildXray(i)]
  /\ UNCHANGED <<row, job, machine, reported, del, ver, history, faults>>

\* What the row's protocol and its peer make of the file
ConfigOf(i) ==
  CASE row[i].proto = "hy2" -> {BuildHy2(i)}
    [] row[i].proto = "ss" -> IF PushPeers(i) = {} THEN {BuildSs(i)}
                              ELSE {BuildDual(k, i) : k \in PushPeers(i)}
    [] OTHER -> IF PushPeers(i) = {} THEN {BuildXray(i)}
                ELSE {BuildDual(i, k) : k \in PushPeers(i)}

\* syncNodeConfig for one row: its clients and those of one peer
PushRead(i) ==
  /\ push.cur = 0 /\ i \in push.todo
  /\ \E c \in ConfigOf(i) :
       push' = [todo |-> push.todo \ {i}, cur |-> i, conf |-> c]
  /\ UNCHANGED <<row, job, machine, reported, del, ver, history, faults>>

\* Through the agent or over SSH: the file is written and the service restarted
PushWrite ==
  /\ push.cur # 0
  /\ LET s == Service(row[push.cur].proto) IN
       /\ file' = [file EXCEPT ![s] = push.conf]
       /\ live' = [live EXCEPT ![s] = push.conf]
  /\ push' = [push EXCEPT !.cur = 0, !.conf = {}]
  /\ UNCHANGED <<row, job, agent, reported, del, ver, history, faults>>

PushFails ==
  /\ push.cur # 0
  /\ Fault
  /\ push' = [push EXCEPT !.cur = 0, !.conf = {}]
  /\ UNCHANGED <<row, job, machine, reported, del, ver, history>>
----------------------------------------------------------------------------
\* POST /nodes/:id/delete: through the agent when one is online, else by SSH
DeleteBegin(i) ==
  /\ del = NoDel /\ Exists(i)
  /\ del' = [row |-> i, via |-> IF AgentOnline THEN "agent" ELSE "ssh"]
  /\ UNCHANGED <<row, job, machine, reported, push, ver, history, faults>>

\* Over SSH the services and the agent of the whole machine stop; the agent
\* refuses the command, whose ';' its own guard does not let through.  Errors
\* are logged; the row goes in any case.
DeleteEnd ==
  /\ del.row # 0
  /\ row' = [row EXCEPT ![del.row].st = "gone"]
  /\ \/ /\ del.via = "ssh"
        /\ live' = [s \in Services |-> {}] /\ agent' = 0
        /\ UNCHANGED faults
     \/ /\ del.via = "ssh" /\ Fault
        /\ UNCHANGED <<live, agent>>
     \/ /\ del.via = "agent"
        /\ UNCHANGED <<live, agent, faults>>
  /\ del' = NoDel
  /\ reported' = reported \ {del.row}
  /\ UNCHANGED <<job, file, push, ver, history>>

\* The panel restarts: what ran in the background is forgotten
Restart ==
  /\ Fault
  /\ job' = [j \in Jobs |-> Idle]
  /\ push' = NoPush /\ del' = NoDel
  /\ UNCHANGED <<row, machine, reported, ver, history>>
----------------------------------------------------------------------------
Next ==
  \/ \E j \in Jobs, kind \in Kinds : Submit(j, kind)
  \/ \E j, k \in Jobs : SubmitSmart(j, k)
  \/ \E j \in Jobs : DeployNode(j) \/ DeploySsNode(j) \/ DeployDualNode(j) \/ DeployHy2Node(j)
  \/ Report \/ Revive
  \/ \E s \in Services : Crash(s)
  \/ \E i \in Ids : Stale(i) \/ PushRead(i) \/ DeleteBegin(i)
  \/ Change \/ SyncBegin \/ PushWrite \/ PushFails
  \/ DeleteEnd \/ Restart

\* The nightly rotation synchronises every active row; SSH and agent calls end
\* by their timeouts; reports and the stale watch are timers.
Fairness ==
  /\ WF_vars(SyncBegin)
  /\ \A i \in Ids : WF_vars(PushRead(i))
  /\ WF_vars(PushWrite)
  /\ WF_vars(Report)
  /\ \A i \in Ids : WF_vars(Stale(i))

Spec == Init /\ [][Next]_vars /\ Fairness
----------------------------------------------------------------------------
\* Types, and: a deployment that has inserted its rows has inserted all of
\* them, and no other deployment has them; what the machine serves belongs to
\* rows that were inserted.
TypeOK ==
  /\ row \in [Ids -> [st : {"fresh", "off", "on", "gone"}, proto : Protocols]]
  /\ job \in [Jobs -> [ph : {"idle", "geo", "install", "write", "start", "started", "agent"},
                       kind : SUBSET Protocols, ids : SUBSET Ids, conf : SUBSET Inbounds]]
  /\ file \in [Services -> SUBSET Inbounds] /\ live \in [Services -> SUBSET Inbounds]
  /\ agent \in 0..MaxRows /\ reported \subseteq Ids /\ deployed \subseteq Ids
  /\ push \in [todo : SUBSET Ids, cur : 0..MaxRows, conf : SUBSET Inbounds]
  /\ del \in [row : 0..MaxRows, via : {"none", "agent", "ssh"}]
  /\ ver \in 1..MaxVer /\ tangled \in BOOLEAN /\ faults \in 0..MaxFaults
  /\ \A j \in Jobs :
       /\ job[j].ph \notin {"idle", "geo"} => job[j].ids # {}
       /\ \A i \in job[j].ids : row[i].st # "fresh"
       /\ \A k \in Jobs \ {j} : job[j].ids \cap job[k].ids = {}

\* While the machine is deployed by one deployment at a time, an active row
\* was once found running by its own deployment: neither a report mirrored
\* from another row nor a deployment that failed or was cut off by a restart
\* makes a row active (deploy.js:620, health.js:289).
ActiveWasDeployed == ~tangled => \A i \in Ids : On(i) => i \in deployed

\* While the machine is deployed by one deployment at a time, its rows are
\* active together: clients are never offered one protocol of a machine whose
\* other protocol is shown as down (health.js:272).
TwinsAgree ==
  ~tangled => \A i, k \in Ids : Exists(i) /\ Exists(k) => row[i].st = row[k].st

Served(i) == [row |-> i, v |-> ver] \in live[Service(row[i].proto)]

\* Whatever deployments, pushes, deletions and restarts have done to the
\* machine in whatever order, a row shown as active is served in the end with
\* the users of the day, or is no longer active (deploy.js:378, 455).
ActiveIsServed == \A i \in Ids : []<>(Served(i) \/ ~On(i))

\* While the machine is deployed by one deployment at a time, its configuration
\* settles: in the end every active row is served and stays served, though the
\* pushes of its rows replace one file and each of them is computed alone
\* (deploy.js:437, 455).
MachineSettles ==
  <>[](tangled \/ \A i \in Ids : On(i) => Served(i))

\* A row is active only after its deployment succeeded, and the rows of a machine
\* are active together (deploy.js:620, health.js:272).
RowsAreTrue == TypeOK /\ ActiveWasDeployed /\ TwinsAgree

\* The machine serves what the table shows (deploy.js:378-455).
MachineFollows == ActiveIsServed /\ MachineSettles
=============================================================================
