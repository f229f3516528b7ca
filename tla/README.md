# A verification development for the panel

TLA+ models of the node panel in `src/` (a Node.js process with SQLite that
manages proxy nodes, their agents and their users), of the agent that runs on
the nodes and of the Go container core, checked with TLC and, for the parts
where it pays, proved with TLAPS. This file says what the system consists of,
which module models what, what each run and each theorem shows, and what is
left. Paths are relative to the repository's root, which the project sees as
`src/`; the panel's sources are in `src/src/`.

## 1. The system

The panel is one Node.js process. Its handlers run to completion on one event
loop, so a handler is atomic up to its next `await`; everything that can go
wrong lies between handlers: timers, socket events, cron jobs, answers of
agents, AWS, Telegram and the payment service. The database is SQLite, used
synchronously; all else (registries, counters, snapshots, timers, caches) is
memory that a restart wipes. The agent is a second Node.js process per machine,
the container core a Go program whose goroutines really run in parallel.

| component | state it keeps | operations | talks to |
|---|---|---|---|
| agent hub, `services/agent-ws.js` | `agents`, `pendingCommands`, per-connection timers | authenticate, ping/pong, report, send command, result, close, shutdown | agents, health, database |
| node agent, `node-agent/agent.js` | socket, reconnection timer, counters of Xray/Hysteria | connect, report, execute, watchdog | hub |
| node health, `services/health.js` | status of nodes; failure and restart counts, flags, snapshot | judge a report, stale watch, zero-traffic watches, traffic cap, user limits | hub, aws, configEvents |
| configuration push, `services/deploy.js`, `configEvents.js` | debounce timer and resolvers; files on the nodes | debounced full run, push of one node, SSH fallback | hub, SSH, uuidRepo |
| node deployment, `services/deploy.js`, `admin/adminNodes.js` | rows of nodes, files and services of a machine | deploy one or two protocols, delete, toggle | SSH, hub |
| rotation, `services/rotate.js` | identifiers and tokens | nightly and manual rotation | deploy |
| address swap, `services/aws.js` | addresses at AWS, `host`/`ssh_host` | swap (EC2, Wavelength, Lightsail), power | AWS, deploy, health |
| payment, `routes/payment.js` | orders, traffic limits | create, callback; crons close and delete | payment service |
| accounts, `repos/userRepo.js`, `trafficRepo.js`, crons of `app.js` | freeze reasons, limits, expiry, groups | freeze, release, block, regroup | health, configEvents |
| registration and login, `services/database.js`, `routes/auth.js` | users, codes, invitations, budgets, temporary tokens | send code, register, reset, log in | mailer, NodeLoc |
| subscription, `routes/subscription.js`, `subGuard.js` | windows, bans, cache, links and keys | serve, ban, reset | users, deploy |
| Telegram bot, `services/tgbot.js` | binding tokens, check-ins | bind, check in, probe, unbind, clean up | Telegram, accounts |
| farm and games, `services/farm.js`, game routes | seeds, plots, thefts, game rows | plant, steal, harvest, play, announce | accounts, Telegram |
| backup and restore, `services/backupRestore.js` | database file, log, connection | back up, staged restore | database |
| schema, `services/migrations.js` | tables, columns, indices | bring an old schema up to date | database |
| container core, `container-core/` (Go) | user table, connections, counters | poll the panel, relay, report | panel |

How they interact: an agent's report enters the hub (`handleReport`), which
calls `maybeAutoCorrectIp` and `health.updateFromAgentReport`; health may
restart a service through the hub's `sendCommand`, start a swap, freeze users
and emit `sync-all`; a swap rewrites addresses and pushes configurations;
pushes go out through the hub or SSH; check-ins, harvests and games raise limits
and lift freezes; links serve the identifiers that rotation replaces.

Hence the hard behaviours: late events of replaced connections; timers that
outlive what they were armed for; rows read before a chain of awaits and written
after it; several starters of one long operation; a fallback that overtakes what
it replaces; a cache in front of something that is reset; memory lost in a
restart; statements that are cut off half-way; time boundaries (midnight, 15
minutes, the first of the month). `PROJECT.json` lists them one by one under
`hazards`, at the line where they bite, with the properties that watch them.

What makes the components correct, in one sentence each:

- hub: an agent that answers is registered and reachable, one that does not is dropped and shown offline, and each command ends once;
- agent: it keeps one connection, comes back when the panel does, and reports no traffic twice;
- health: outages are neither declared early nor missed, and every automatic mark has a way back;
- push: what somebody asked to be synchronised arrives, and nothing older replaces it;
- deployment: a row is active only if its deployment succeeded, and what is shown as active is served;
- swap: no address is lost, all nodes of a machine follow it, its twins keep their IPv6 hosts;
- payment: one credit per completed order, at most one of those paid and credited on a day;
- accounts: a freeze is lifted only for the reason it was imposed, and nodes serve exactly the admitted;
- registration: what is scarce (the administrator's place, an address, an invitation, a code) is won once;
- subscription: only the present link of a user in good standing is served, and a shared link does not last;
- binding: one account per Telegram, and who leaves Telegram leaves the panel;
- farm: a crop is paid out once, in full, and announced once;
- restore: the panel runs on either the old or the new database, and what was answered before is in one of them;
- schema: no row is lost wherever a migration is cut off;
- container core: every byte is counted once, a frozen user is shut out.

## 2. Modules

| module | models | atomic step |
|---|---|---|
| `AgentHub` | `agent-ws.js`, `checkStaleAgents` and `mirrorPeerState` of `health.js` | one handler or timer |
| `AgentLink` | `agent.js`, composed with `AgentHub` | one handler or timer of either end, or one frame |
| `RemoteCall` | abstract: what `sendCommand` promises | |
| `NodeHealth` | `updateFromAgentReport`, the zero-traffic watches, the traffic cap | one handler |
| `ConfigSync` | debounce and pushes of `deploy.js`, `configEvents.js`, `rotateCore` | code between two awaits of a run |
| `Fleet` | deployments, shared files, reports and deletions of one machine | code between two awaits |
| `IpSwap` | `swapNodeIp`, the EC2 and Lightsail paths; `maybeAutoCorrectIp` | one AWS call |
| `PaymentOrders` | `routes/payment.js` and two crons | one handler, split at the fetch |
| `Accounts` | all paths that freeze, release, block, regroup or serve an account | one handler |
| `Binding` | Telegram bindings, the probe, the clean-up | one handler, the probe user by user |
| `Subscription` | links, guard, cache, resets | one request |
| `Signup` | registration and invitations | one handler, split at the mail |
| `SignIn` | mailed codes, their budgets, temporary tokens | one handler, split at the mail |
| `Rewards` | check-in, farm, games, notices | one transaction, notices message by message |
| `Restore` | backups and staged restore | code between two awaits |
| `Schema` | `initTables` and migrations | one SQL statement |
| `ContainerCore` | the Go program | one read, write or lock section of a goroutine |
| `*Proofs` | theorems about the module of that name | |
| `MC*` | instances for TLC | |

Each model module also holds a few *variants* of its definitions (commented as
such): plausible mistakes, each of which breaks one of the properties. They show
that the properties can fail, and take no part in any specification. *History*
variables, likewise commented, record what a property needs and the code does
not keep; no guard reads them but to keep a count within its bound.

**AgentHub.** `sock` is a connection as the `ws` library presents it (open,
closing, ended with the close event queued, gone), `alive` and `ident` the far
end; `agents`, `pongReceived` the registry; `authTimer`, `pongTimers`,
`graceTimers`, `cmdTimers` the armed timers with what they captured; `cmd` the
pending commands; `active`, `lastReport` the two columns the hub and the stale
watch write. A connection object is reused once its close event has run, which
keeps the model finite without bounding the number of reconnections. A pong
timer captures the *connection* it pings while the registry is keyed by node:
this difference is what most properties are about. Commands may be carried by a
twin's connection (`resolveAgentForNode`). An armed timer may fire at any
moment; the only order kept is that the pong timers of a round (10 s) fire
before the next round (30 s).

**AgentLink** puts the program in the place of the hub's arbitrary peer:
`em` is the emitter of `createRawWs`, `ws` the single variable through which
every handler sends, `retries` the armed `scheduleReconnect` timers, `quiet` the
watchdog's clock, `toHub` and `toAgent` the frames under way, `counter`,
`collected` and `recorded` the places of a piece of traffic. A reading of the
counters resets them first, and what it reads is lost when the answer is late or
does not parse (`agent.js:400-418`). `LongOutages` says
whether the panel may be away for more than the watchdog's two minutes while the
agent keeps trying; see section 6 for why it is a parameter.
`RemoteCall` is the abstract specification of `sendCommand`: asked, run at most
once, answered only after that, or failed; `CallSpec` is the refinement with its
fairness.

**NodeHealth.** One machine, judged by the agent of one of its nodes. A report's
verdict uses the node *snapshot*, which may be five seconds old; counts, flags
and swaps in progress are memory. Traffic is a set of time windows, exactly
those the two watches look at; the watch of two days judges each node by itself,
so any of them may be silent while the machine has traffic. The history variable
`bad` counts the failing reports the machine really had in a row.

**ConfigSync.** A configuration is the version of the user table it was computed
from; every push reads that table anew (`deploy.js:380`). The rest of a
configuration (port, outbounds) comes from the node's row, which a debounced run
reads with the list of its nodes at its start (`deploy.js:491`); it is not
modelled, so the model does not show that a run begun before a rotation may push
the old port after it. A run is a loop over slices of `Concurrency` of the nodes
listed at its start; each slice pushes through the agent when it is online, falls
back to SSH when the answer does not come, and ends when all its nodes have. Runs
overlap freely. The agent's inbox is a queue (one TCP connection). `ChangeAndSync` is any change that
emits `sync-all`, `ChangeOnly` one that does not. The rotation
passes over the nodes of `Manual` (`is_manual`, `rotate.js:12`), so nothing
promises that a push they missed is ever made up for.

**Fleet.** What a push writes: the rows of one host share one Xray file, one
agent and the services. A deployment is a background chain (geo look-up, row,
installation, file, start, agent); `file` and `live` hold the inbounds on disk
and those the services run with. `tangled` is history: two deployments of the
machine overlapped.

**IpSwap.** A swap is a chain of AWS calls, each of which may fail; `swap` holds
the local variables of the calls in progress. AWS is external; the one fact
assumed is the one `aws.js:259` states, that attaching an address displaces the
attached one. The agent keeps the public address it looked up for five minutes
(`agent.js:257-268`), so a report carries either the machine's address or the one
it had before (`cached`), and corrects the nodes with it (`AutoCorrect`).
`hasty` is history: a swap began while another ran, or before table, agent and
machine agreed on the address.

**PaymentOrders.** The orders of one user. The payment page stays usable whatever
the panel has done with the order; the callback may be repeated. Days are those
of Asia/Shanghai. The payment is stamped with the day the service reports or with
that of the callback; `doneOn` is history, the day of the callback.

**Accounts.** One record per user of what decides on service (limit, use,
freeze reason, block, group, expiry, UUIDs) and, per node, what it `served` at
its last push. Actions are the paths of six files, each with the
synchronisation it asks for (`due`) or does not (`unsent`). `grounds` is history:
all reasons since the last release, whereas the code keeps only the last one.
`Nodes` are the active nodes; those of `Manual` get every push but that of the
rotation.

**Binding, Subscription, Signup, SignIn, Rewards** are each the handlers of one
subject with the rows and the memory they touch, the awaits inside them made
visible: the probe that holds a snapshot of accounts, the mail under way, the
notification loop that holds a list of plots. In
`Subscription`, `lasting` says whether the configured ban is longer than the
guard's windows and the life of a cached body, as it is by default; after a
shorter ban the guard may remember anything. In `SignIn` a right code that is
refused costs an entry of a reset (`RefusedReset`) and nothing of a registration.

**Restore** distinguishes the file at the path, the file the connection has
open, and the write-ahead log beside the path. **Schema** is the list of
statements a start executes with the number of the next one (`stmt`) and the look
at the columns taken before them (`seen`). **ContainerCore** has one process per goroutine and shows
counters being drained one by one while they are counted into.

## 3. Runs

| run | instance | shows |
|---|---|---|
| `hub` | 2 nodes of one machine, 2 connections used again and again, 1 command | registry, timers and command table agree under every order of reconnections, late close events and deadlines; a node's own command is lost only with its connection; offline marks only when somebody is absent |
| `link` | 1 node with its agent, 2 connections, 1 command, 1 piece of traffic, 1 fault | one chain of reconnections, traffic recorded at most once and not thrown away while online, commands implement `RemoteCall`, the link comes back, silence is noticed |
| `sync` | 2 nodes, 2 runs, slices of 1; one node is manual; a calm mood without faults and one with two faults and the nightly rotation | nobody forgotten, nobody answered too early, order and arrival in the calm mood, repair of the automatic node in the other |
| `fleet` | 1 machine, 2 rows, 2 deployments at a time, 1 fault | active rows were deployed, twins agree, the machine ends up serving what the table shows |
| `health` | 1 bound and capped node, 1 restart of the service, 1 of the panel | outages need three failing reports in a row (or the cap); dead services without traffic are shown; healthy machines in use return |
| `machines` | address swap of a VLESS, a Hysteria and an IPv6 node, the first and the last of them bound; container core with 2 connections | no address leaks, hosts converge in spite of cached reports, IPv6 hosts are lost to their own swap only; traffic conserved, frozen users shut out, connections end whole |
| `records` | 3 orders over 3 days; 2 restorations with 3 writes and 1 crash; 1 old schema with 2 crashes; 1 farmer and 3 thieves; 3 registrations of 2 addresses; 2 mail boxes | credits and days; file, log and connection belong together; migrations lose nothing; crops shared out once, registrations and codes won once |
| `accounts` | 1 account with both logins; 2 bindings and 2 Telegrams; 1 link history with 2 clients | freezes end for their cause, nodes follow, bindings and links are sound |
| `link_long`, `swap_twice`, `health_cap`, `told_twice` | small | disagreements between the code and what it says, see section 6 |

**Composite runs.** `machines`, `records` and `accounts` each hold two
to six modules that share no variable. The variable `part` chooses at the
start which of them takes its course; the others stand still. This is a union of
independent state spaces, not a product; a property of one part is checked in
the states of that part, and fairness is that of the part.

**Bounds.** Two connection objects give a current connection and a replaced one
whose close event is late, and each object returns as a newcomer once its close
event has run; `RegistryCorrect` covers any number of them. Connections, twins
and (in `records`) neighbours, nodes, orders and mail boxes are interchangeable,
which the symmetry sets use; as only one part of a composite run moves, the sets of
different parts are permuted together. No liveness property is checked under
symmetry. Two runs that
overlap are the smallest case of every race between runs of `ConfigSync`; slices
of one node make the second node wait. Two rows and two jobs are the smallest
machine with twins and with overlapping deployments. Four villagers are a farmer,
as many thieves as a crop admits, and one too many. Two clients exceed a
`UaLimit` of 1; two links show a link that was reset, and three keys a rotation
besides. `MaxVer`, `MaxFaults`,
`MaxStops`, `MaxDay`, `MaxRestarts`, `MaxWrites`, `MaxCrashes`, `MaxStarts`,
`MaxClock` and the like bound what the code does not bound, and are checked to be
large enough by the variants, each of which is caught within them. `MaxSwaps`
saturates: more than one swap of one origin differs only in when the last one
ends. In `NodeHealth` the failure count saturates at 4, which stands for "more
than the threshold".

**Deadlock** is checked wherever the system cannot stop (`hub`, `link`, `sync`,
`health`); the other runs consist of or contain parts whose bounded counters
really end.

**Fairness.** Timers and queued events get weak fairness: Node.js runs every due
timer.

- `link`: timers fire and frames on a live connection arrive. Nothing is assumed
  of the end of an outage, of restarts or of traffic; `LinkComesBack` is
  conditional on the panel being reachable for good.
- `sync`: an awaited push ends (a command has a 30 s timeout, SSH its own), a
  connected agent executes what it receives. The debounce fires under strong
  fairness, since the two slots for runs are a bound of the model: the code starts
  a run whatever others are going on. In the mood with faults the nightly
  rotation gets strong fairness too, as its cron starts every night whatever else is
  running.
- `fleet`: synchronisations keep coming (every night), their pushes go on,
  reports and the stale watch are timers. No deployment is assumed to succeed.
- `health`: the agent keeps reporting, time passes (traffic ages), an awaited
  swap returns, and users whose service runs keep using it:
  `HealthyMachineReturns` is about machines in use, since a flagged machine
  without users stays flagged by design. `DeadServiceShown` is about a dead
  service on a machine without traffic: where the traffic of another service comes
  and goes, the watches swap the address again and again, and each swap shows the
  nodes active until the next report.
- `machines`: AWS calls return and the agent of a machine with an address
  reports; goroutines run, the ticker goes on, and a fetch succeeds now and then
  (strong fairness of `Sync`: a panel that can never be reached tells nothing).
- `accounts`: pushes asked for are made, the nightly jobs run, and users open the
  panel or their link now and then (`Fetch`, `Request`), which is what creates
  UUIDs and what the count of clients counts; the probe goes on, bans and cached
  answers expire.

## 4. Proofs

Every theorem holds for all values of the constants that satisfy the named
assumptions of the module. `PROJECT.json` lists them under `theorems`.

| module | theorems | the inductive invariant and why it is needed |
|---|---|---|
| `AgentLinkProofs` (the hub) | `TypeCorrect`, `RegistryCorrect`, `TimersCorrect`, `AnsweringAgentStays`, `OfflineForAbsence`, `OwnCommandCarried` | `RegistryInv` adds that only the credentials of a node authenticate, and that all armed pong timers of a node captured the same connection (`PongTimersUnique`): a pong timer deletes the entry of its *node* but terminates the *connection* it captured, so `NoOrphanConnection` alone is not inductive. `OwnCommandCarried` adds `CarrierKnown`: a pending command was given to a connection that stays authenticated while it is open, and whose object is not used again before the command is settled |
| `AgentLinkProofs` (hub and agents) | `LinkImplementsHub`, `CallImplemented`, `TrafficOnce`, `OneChainPerAgent`, `OnlineReports` | the first by cases over the actions: with the real agent on the other end, every step is one of `AgentHub` or leaves it alone, so the theorems above carry over to the composition; the second rests on `CallInv`: a command is in one place at a time, on its way to the agent only before it was executed and on its way back only after; the third on `FlowInv`: a piece of traffic is with one agent, in one frame or recorded, and a frame carries it only before it was recorded; the last two on `ChainInv`: an agent has one connection, which is its `ws`, or one timer that will make one, or neither, and its watchdog dials only in the last case. They assume that outages are shorter than the watchdog's patience (`~LongOutages`), without which the code breaks them (section 6) |
| `ConfigSyncProofs` | `CallersServed`, `NoRegression` | `SyncInv` adds that callers asked for versions that existed when they asked, and that only a fault takes a row out of the synchronisation. `NoRegression` needs `CalmInv`: a push is under way to an agent exactly while its command is in the inbox, hence no timeout sends it by SSH, a run has one command at a time with a node, and commands are as old as the order they were sent in |
| `FleetProofs` | `RowsTrue` | a report makes rows active of which it knows only that they have another protocol. `AloneInv`: a deployment that has the machine for itself and has inserted its rows has all rows of the machine, no two of them of one protocol, and an agent is installed only after the rows were deployed |
| `AccountsProofs` | `TypeCorrect`, `NodesCorrect`, `ReleaseJustified`, `BindingsCorrect`, `LinksCorrect` | `NodesFollowAccounts` and `BindingsAreSound` are inductive; `ReleaseForCause` needs `GroundsMatch`: unless the daily threshold replaced it, the stored reason is the only one, or the operator's. `LinksCorrect` needs `CacheInv`: what is cached for the present link was built after the keys were last reset, because every such reset changes the link |
| `NodeHealthProofs` | `TypeCorrect`, `OutageJustified` | `FailsReal`: the program's count of failing reports is never ahead of the machine's (restarts make it lag, which delays an outage but never hastens one); `RestartsCoupled`: once the last permitted restart is counted, the failure count is beyond the threshold |
| `IpSwapProofs` | `TypeCorrect`, `SixSafe`, `NoLeakAlone`, `TrafficConserved` | `SixInv`: no host ever becomes the IPv6 address, so a swap called for a node that still has it remembers it as the former host. `SixSafe` makes no assumption on which nodes are bound. `LeakInv` (for `NoLeakAlone`): between detachment and attachment the machine has no address, and what is about to be detached is what it has; assumes one swap at a time (with two, `swap_twice` finds the leak) and that a release does not fail (nothing in `aws.js` tries it again). `TrafficConserved` is about `ContainerCore` and needs `DrainInv`: draining writes what it takes from a counter over what it took before, which is harmless because a counter still to be taken has nothing in its hand |
| `RewardsProofs` | `SharedOut`, `RegisteredSoundly` | `PastInv`: a crop is known by when it was planted, and everything recorded of one was recorded when it was ripe, so a plot planted again is never mistaken for the crop before. `RegisteredSoundly` (about `Signup`) needs `AdminInv`, the administrator is the first who registered, and `JoinedInv`, an invitation that is not used has let nobody in |
| `RecordsProofs` (orders) | `TypeCorrect`, `CreditCorrect`, `OncePerDay` | `RequestInv`: nobody pays before the create request is answered, so the unconditional status writes after the fetch are harmless; `DoneInThePast`: no order was completed on a day to come, so the only orders an order credited today can share its day with are those its callback looks at |
| `RecordsProofs` (database file) | `RestoredWhole`, `NothingLost` | `RestoreInv`: outside the replacement, connection, file and log belong together, within it a log at the path was left by somebody who opened the database meanwhile, and is that of the file except between renaming and unlinking; what is put in place is sound, and whoever replaces the file has everything answered before in a backup |
| `RecordsProofs` (mailed codes) | `CodesBounded` | `ListInv`: the list of an address has every mail of the last hour, although its entries go whenever somebody asks; `StoredInv`: what was compared is counted with the code that is stored, and a used or replaced code is stored nowhere; `PastInv`: a window that is over has no mail of its last moment |
| `RecordsProofs` (migrations) | `SchemaSound` | an assertion for the statements of each table: `Rebuilding`, while a table is replaced its rows are in the old one until they are in the new one; `SettlingInv` and `GroupsInv`, what a life without a crash has settled by the statement it has reached; `TotalsInv`, the totals are there after the statement that fills them. Assumes that there are names enough for every node (`NamesWithoutEnd`; the `Names` of the run is a bound) |

`CallImplemented` is the safety half of `CallSpec`; its liveness half (every call
ends) is checked by run `link`. `NoRegression` likewise is the safety half of
`CalmPushesArrive` (`CalmNoRegression`), whose liveness half is checked by `sync`.
`RestoredWhole`, `NothingLost`, `CodesBounded`, `SharedOut`, `RegisteredSoundly`,
`BindingsCorrect`, `LinksCorrect`, `TrafficConserved` and `SchemaSound` are theorems
of the composite specifications, about the part they name.

Assumptions on constants are few: `None` is not one of the values it stands
beside (a node, a connection, an address, a user, a file, a number), bounds are
natural numbers, batches are not empty, a machine has finitely many nodes,
`"ping"` is not the identifier of a command, a day and the ripening of a crop
take time, no group has more plots than the highest.

Every invariant of a passing run is the property of one of these theorems, and so
is every action property but `CalmNoRegression`, which is part of the property
`CalmPushesArrive` and has a theorem of its own. What is only model-checked is
what holds under fairness: liveness is out of the provers' reach. Where a run
bounds restarts, faults, starts or changes, the theorem holds for every bound;
`SchemaSound` replaces the finite `Names` of its run by names without end.

## 5. Not modelled, and why

- Text and I/O: generated Xray/Hysteria configurations beyond their inbounds,
  rendered links, installation scripts, views, menus of the bot, mail bodies,
  notifications. No state depends on them.
- `repos/opsRepo.js`, `repos/metricsRepo.js`: single INSERT and SELECT statements
  for audit logs and charts.
- Request plumbing (`middleware/csrf.js`, `utils/*`): stateless helpers. Sessions
  and password hashing belong to libraries.
- The Wavelength path of `swapEC2Ip` sweeps all unattached addresses of the
  account and needs several machines to be interesting; start, stop and
  termination of instances are single AWS calls.
- In `health.js`: the online cache, resource alerts and the reachability of IPv6
  addresses are display and messages. In `agent.js`: the probes of a report,
  self-healing of services and the agent's own update keep no state the panel
  relies on.
- In `app.js`: shutdown waits at most five seconds, which cuts off buffered
  audit logs; nothing recovers them, so there is no property to state.
- A panel that stops between the allocation of an address and its attachment
  leaves the address behind by construction (`aws.js:321`); `NoAddressLeaked`
  says so in its premise.

## 6. Disagreements found

| run | code | says otherwise |
|---|---|---|
| `link_long` | after two minutes without a connection the watchdog dials although a reconnection timer is armed; from then on two chains replace each other's connection for ever (`agent.js:1154`) | `agent.js:1140` |
| `swap_twice` | two swaps of one machine each allocate an address; the second attachment displaces the first, which stays allocated (`aws.js:328`) | `aws.js:326` |
| `health_cap` | the next good report reactivates nodes switched off by the traffic cap; the command that should stop their services is refused by the agent (`health.js:1005`) | `health.js:635`, `:643` |
| `told_twice` | the rows of ripe crops are read before the loop and marked one by one between awaited messages; the job of the next minute reads those still waiting, and both announce them (`farm.js:359`) | `farm.js:361` |

Further observations, made while modelling. They are visible in the modules
(as a premise of a property, a history variable or a parameter) but have no run
of their own.

Exchange and nodes:

- `exchange.ejs:79` promises one exchange a day. The callback looks for an order
  with the date of the callback (`payment.js:171`) but stores the service's
  `paid_at` when there is one (`:198`): several payments of one day whose
  callbacks come after midnight are all credited, and one of the new day besides.
  `OnePaidToday` is what remains true.
- `aws.js:459` says that IPv6 hosts keep their host, and any node can be bound to an
  instance (`adminAws.js:133`, `:330-350`), but the swapped node itself, and a twin
  with the same IPv6 host, get the IPv4 address (`aws.js:450`).
  `SixKeptByOthers` has just this exception.
- A report within five minutes of a swap may carry the released address
  (`agent.js:257-268`), and `agent-ws.js:315-346` writes it back. The next look-up
  repairs it. But a swap that begins meanwhile remembers that address as the host
  of its node, finds no twin by it and leaves the twins where they are
  (`hasty` in `AddressConverges`); the swap of an IPv6 node, which looks for twins by
  its IPv6 host, always does, and no report of its own agent makes up for it.
- A ban shorter than the guard's windows (both are settings) may be followed by
  another one at the next request, and a refused request does not get to the count
  of clients (`subscription.js:183`): such a link may be refused for ever without
  being reset (`subGuard.js:75-118`), hence `lasting` in the premise of
  `SharedLinkGoes`.
- The nightly rotation passes over manual nodes (`rotate.js:12`): a push they
  missed is made up for only by the next change somebody synchronises.
- `health.js:876` says that a flagged node must not come back by a report alone;
  a snapshot up to five seconds old lifts the flag (`health.js:875`).
- An order is closed after 15 minutes and deleted at night while its payment page
  stays usable; a payment made then is credited nowhere (`app.js:338`).
- A handshake that fails emits no `close` (`agent.js:982`), so only the watchdog
  dials again. `detectHy2TrafficSpike` compares snapshots of counters that
  `report()` clears.
- A deletion through an online agent sends a command with a `;`, which
  `agent.js:782` refuses: the machine goes on serving (`adminNodes.js:143`).
- A double submission passes the duplicate check (`core.js:69`); a deployment of
  `hy2` beside `vless` overwrites the agent's configuration, and mirroring then
  activates a row that was never deployed (`health.js:272`). These are the
  `tangled` histories of `Fleet`. A deployment that fails or is cut off leaves an
  inactive row that blocks its host.

Accounts:

- The daily threshold overwrites `manual` and `expired` with `traffic`, which a
  login lifts (`health.js:591`): hence the premise of `ReleaseForCause`.
- A limit of 0 means "no traffic" to `subscription.js:257` and `userRepo.js:83`,
  and "never exceeded" to `isTrafficExceeded`.
- Harvests release an account without a synchronisation while games ask for one;
  group changes and the operations API ask for none (`unsent`).
- A payment or an administrator's raise never releases a `traffic_limit` freeze
  (`health.js:582`).
- The gift for binding is given again after games lowered the limit to 0 and the
  account binds again (`userRepo.js:223`). An account unbound at six is deleted at
  the next four o'clock, though `tgbot.js:777` speaks of seven days.

Registration, links and rewards:

- A right registration code that is refused for the password, the closed
  registration, the domain or the invitation is not charged
  (`auth.js:464-501`), unlike a right reset code with a bad password
  (`auth.js:598`): only wrong entries are bounded.
- The failure of an older mail deletes a newer code; a used temporary token is
  forgotten by a restart; the common budget is charged for a request the
  recipient's limit then refuses (`auth.js:28-57`).
- The address a NodeLoc account brings is not compared with those registered, and
  `getUserByEmail` then picks either account.
- The client one above the limit is still served, as its event is logged
  afterwards; cached answers skip the count of clients, refused requests count;
  an administrator's token reset leaves UUIDs and the guard's window.
- A crop replanted during the notification loop is marked and never announced
  (`farm.js:363`). A plot may be harvested twice on a calendar day, although
  `farm.js:3-4` speaks of one a day.

Database and container:

- `cleanOldBackups` can delete the very backup being restored; writes answered
  during a restoration vanish; a request in the window plus a crash replays the
  old log onto the new file when it falls between the renaming and the unlinking
  (`LogBelongsToFile` says that there is no other such moment).
- Rebuilding `users` drops the `oauth` columns until the next start; a crash
  between `DROP` and `RENAME` leaves the panel running with an empty table, the
  rows kept in `users_new`; groups of columns guarded by their first one are never
  completed after a crash (`WholeWithoutCrash` has the premise).
- The open connection of a frozen user survives (`main.go:75`); the counters of a
  report that fails are lost (`panel.go:224-227`), as are those of a shutdown;
  bytes are counted before they are written.

## 7. What could follow

The Wavelength path with two machines; a composition of `Fleet` with `ConfigSync`
in which the version of a file comes from the runs of several machines.
