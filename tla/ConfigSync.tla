----------------------------- MODULE ConfigSync -----------------------------
(***************************************************************************)
(* How a change of the user table reaches the nodes: configEvents.js, the  *)
(* debounced synchronisation and the pushes of deploy.js, and the nightly  *)
(* rotation of rotate.js.                                                  *)
(*                                                                         *)
(* The set of users a node must admit is abstracted to the version of the  *)
(* user table it was computed from: syncNodeConfig reads that table        *)
(* (getNodeAllUserUuids) for every node anew, builds the whole             *)
(* configuration of the node and pushes it, so a node holds the users of   *)
(* one version.  The rest of the configuration (the port, the outbounds)   *)
(* comes from the node's row, which a debounced run reads once, with the   *)
(* list of its nodes; that part is not modelled.                           *)
(*                                                                         *)
(* Nothing excludes two synchronisations from running at the same time:    *)
(* each run (a debounced run over all active nodes, the push of one node   *)
(* after an edit, a rotation) is a loop of awaits, and the runs interleave.*)
(***************************************************************************)
EXTENDS Integers, Sequences, FiniteSets

CONSTANTS
  Nodes,        \* node rows
  Manual,       \* those with is_manual: the rotation passes over them
  Runs,         \* synchronisations that can be in progress at once
  Concurrency,  \* CONCURRENCY of _syncAllNodesConfigImpl
  MaxVer,       \* bound: number of changes of the user table
  MaxFaults     \* bound: lost replies, failed pushes, disconnections, restarts

ASSUME ManualAssumption == Manual \subseteq Nodes
ASSUME ConcurrencyAssumption == Concurrency \in Nat \ {0}
ASSUME BoundsAssumption == MaxVer \in Nat /\ MaxFaults \in Nat

VARIABLES
  ver,        \* version of the user table
  syncedVer,  \* the last version whose change called emitSyncAll
  timer,      \* _syncDebounceTimer is armed
  waiting,    \* versions at which the callers in _syncDebounceResolvers called
  run,        \* Runs -> state of the loop
  push,       \* Runs -> Nodes -> the push in progress and the version it read
  inbox,      \* Nodes -> update_config commands on the way to the agent
  deployed,   \* Nodes -> version of the configuration the node runs
  attempted,  \* Nodes -> newest version a push has been started with (history)
  active,     \* nodes.is_active
  online,     \* isAgentOnline
  faults      \* faults so far

vars == <<ver, syncedVer, timer, waiting, run, push, inbox, deployed, attempted,
          active, online, faults>>

Idle      == [st |-> "idle", limit |-> 1, todo |-> {}, callers |-> {}]
NoPush    == [ph |-> "none", v |-> 0]
InFlight(r, n) == push[r][n].ph \in {"agent", "ssh"}
Busy(r)   == \E n \in Nodes : InFlight(r, n)
MaxOf(a, b) == IF a >= b THEN a ELSE b

\* A slot is free for a new run when nothing refers to an older run of it
Free(r) ==
  /\ run[r].st = "idle"
  /\ \A n \in Nodes : \A i \in 1..Len(inbox[n]) : inbox[n][i].run # r

----------------------------------------------------------------------------
Init ==
  /\ ver = 0
  /\ syncedVer = 0
  /\ timer = FALSE
  /\ waiting = {}
  /\ run = [r \in Runs |-> Idle]
  /\ push = [r \in Runs |-> [n \in Nodes |-> NoPush]]
  /\ inbox = [n \in Nodes |-> <<>>]
  /\ deployed = [n \in Nodes |-> 0]
  /\ attempted = [n \in Nodes |-> 0]
  /\ active = [n \in Nodes |-> TRUE]
  /\ online \in [Nodes -> BOOLEAN]
  /\ faults = 0

\* syncNodeConfig for the nodes of one batch, up to its first await: every one
\* reads the user table (version v) now, and pushConfigToNode chooses agent or
\* SSH now.
StartPushes(r, batch, v) ==
  /\ push' = [push EXCEPT ![r] = [n \in Nodes |->
                IF n \in batch
                  THEN [ph |-> IF online[n] THEN "agent" ELSE "ssh", v |-> v]
                  ELSE NoPush]]
  /\ inbox' = [n \in Nodes |->
                IF n \in batch /\ online[n]
                  THEN Append(inbox[n], [run |-> r, v |-> v]) ELSE inbox[n]]
  /\ attempted' = [n \in Nodes |-> IF n \in batch THEN MaxOf(attempted[n], v) ELSE attempted[n]]

\* The next nodes.slice(i, i + CONCURRENCY)
Batches(todo, limit) ==
  {b \in SUBSET todo : Cardinality(b) = limit \/ (b = todo /\ Cardinality(todo) < limit)}

StartRun(r, nodes, limit, callers, v) ==
  \E b \in Batches(nodes, limit) :
    /\ run' = [run EXCEPT ![r] = [st |-> "running", limit |-> limit,
                                  todo |-> nodes \ b, callers |-> callers]]
    /\ StartPushes(r, b, v)

ActiveNodes == {n \in Nodes : active[n]}

----------------------------------------------------------------------------
\* Variant: a call made while a synchronisation runs joins it
ChangeJoinsRun ==
  /\ ver < MaxVer
  /\ ver' = ver + 1
  /\ syncedVer' = ver + 1
  /\ LET joined == {r \in Runs : run[r].st = "running"} IN
       IF joined = {}
         THEN timer' = TRUE /\ waiting' = waiting \cup {ver + 1} /\ UNCHANGED run
         ELSE /\ run' = [r \in Runs |-> IF r \in joined
                           THEN [run[r] EXCEPT !.callers = @ \cup {ver + 1}] ELSE run[r]]
              /\ UNCHANGED <<timer, waiting>>
  /\ UNCHANGED <<push, inbox, deployed, attempted, active, online, faults>>

\* A user is created, frozen, unfrozen, blocked, ... by a path that calls
\* emitSyncAll: the debounce timer is armed again and the caller queued.
ChangeAndSync ==
  /\ ver < MaxVer
  /\ ver' = ver + 1
  /\ syncedVer' = ver + 1
  /\ timer' = TRUE
  /\ waiting' = waiting \cup {ver + 1}
  /\ UNCHANGED <<run, push, inbox, deployed, attempted, active, online, faults>>

\* A change by a path that does not: /ops/api/users/:id/freeze and unfreeze,
\* the unfreeze after a farm harvest
ChangeOnly ==
  /\ ver < MaxVer
  /\ ver' = ver + 1
  /\ UNCHANGED <<syncedVer, timer, waiting, run, push, inbox, deployed, attempted,
                 active, online, faults>>

\* The debounce timer fires: _syncAllNodesConfigImpl up to its first await
FireDebounce(r) ==
  /\ timer
  /\ Free(r)
  /\ timer' = FALSE
  /\ waiting' = {}
  /\ StartRun(r, ActiveNodes, Concurrency, waiting, ver)
  /\ UNCHANGED <<ver, syncedVer, deployed, active, online, faults>>

\* configEvents 'sync-node' after an administrator edited the level of a node
SyncOneNode(r, n) ==
  /\ ver < MaxVer
  /\ Free(r)
  /\ ver' = ver + 1
  /\ StartRun(r, {n}, 1, {}, ver + 1)
  /\ UNCHANGED <<syncedVer, timer, waiting, deployed, active, online, faults>>

\* Variant: the rotation changes the database and pushes nothing
RotateWithoutPush(r) ==
  /\ Free(r)
  /\ \E v \in {ver, ver + 1} \cap 0..MaxVer :
       ver' = v /\ StartRun(r, {}, 1, {}, v)
  /\ UNCHANGED <<syncedVer, timer, waiting, deployed, active, online, faults>>

\* rotateCore: user ids change in the database when their period is over, then
\* one active node after the other is pushed, unless it is manual; each push
\* reads the node's row and the user table when its turn comes
StartRotation(r) ==
  /\ Free(r)
  /\ \E v \in {ver, ver + 1} \cap 0..MaxVer :
       ver' = v /\ StartRun(r, ActiveNodes \ Manual, 1, {}, v)
  /\ UNCHANGED <<syncedVer, timer, waiting, deployed, active, online, faults>>

\* Promise.all of a batch is settled: the loop goes on with the nodes it listed
\* at its start and the user table of this moment
NextBatch(r) ==
  /\ run[r].st = "running"
  /\ ~Busy(r)
  /\ run[r].todo # {}
  /\ StartRun(r, run[r].todo, run[r].limit, run[r].callers, ver)
  /\ UNCHANGED <<ver, syncedVer, timer, waiting, deployed, active, online, faults>>

\* ... or it is done and resolves its callers
EndRun(r) ==
  /\ run[r].st = "running"
  /\ ~Busy(r)
  /\ run[r].todo = {}
  /\ run' = [run EXCEPT ![r] = Idle]
  /\ push' = [push EXCEPT ![r] = [n \in Nodes |-> NoPush]]
  /\ UNCHANGED <<ver, syncedVer, timer, waiting, inbox, deployed, attempted,
                 active, online, faults>>

----------------------------------------------------------------------------
Fault == faults < MaxFaults /\ faults' = faults + 1

\* The agent executes the first update_config it received and answers; the
\* answer settles the push unless it has been settled already.
AgentApplies(n) ==
  /\ online[n]
  /\ inbox[n] # <<>>
  /\ LET m == Head(inbox[n]) IN
       /\ inbox' = [inbox EXCEPT ![n] = Tail(@)]
       /\ deployed' = [deployed EXCEPT ![n] = m.v]
       /\ \/ /\ push' = IF push[m.run][n].ph = "agent"
                          THEN [push EXCEPT ![m.run][n].ph = "done"] ELSE push
             /\ UNCHANGED faults
          \/ Fault /\ UNCHANGED push     \* the answer is lost
  /\ UNCHANGED <<ver, syncedVer, timer, waiting, run, attempted, active, online>>

\* Variant: the timeout is shorter than the agent needs
TimeoutTooShort(r, n) ==
  /\ push[r][n].ph = "agent"
  /\ push' = [push EXCEPT ![r][n].ph = "ssh"]
  /\ UNCHANGED <<ver, syncedVer, timer, waiting, run, inbox, deployed, attempted,
                 active, online, faults>>

\* sendCommand gives up after CMD_TIMEOUT: pushConfigToNode falls back to SSH
\* with the configuration it built before.  The command may still be on its
\* way.
AgentTimeout(r, n) ==
  /\ push[r][n].ph = "agent"
  /\ \/ /\ \A i \in 1..Len(inbox[n]) : inbox[n][i].run # r
        /\ UNCHANGED faults
     \/ Fault
  /\ push' = [push EXCEPT ![r][n].ph = "ssh"]
  /\ UNCHANGED <<ver, syncedVer, timer, waiting, run, inbox, deployed, attempted,
                 active, online>>

\* The SSH push ends: the file is written and the service restarted, or it
\* fails and the configuration stays.
SshEnds(r, n) ==
  /\ push[r][n].ph = "ssh"
  /\ push' = [push EXCEPT ![r][n].ph = "done"]
  /\ \/ deployed' = [deployed EXCEPT ![n] = push[r][n].v] /\ UNCHANGED faults
     \/ Fault /\ UNCHANGED deployed
  /\ UNCHANGED <<ver, syncedVer, timer, waiting, run, inbox, attempted,
                 active, online>>

\* The agent's connection drops: cleanupPendingCommands fails the commands of
\* the node, and the pushes fall back to SSH
AgentDrops(n) ==
  /\ online[n]
  /\ Fault
  /\ online' = [online EXCEPT ![n] = FALSE]
  /\ inbox' = [inbox EXCEPT ![n] = <<>>]
  /\ push' = [r \in Runs |-> IF push[r][n].ph = "agent"
                               THEN [push[r] EXCEPT ![n].ph = "ssh"] ELSE push[r]]
  /\ UNCHANGED <<ver, syncedVer, timer, waiting, run, deployed, attempted, active>>

AgentReturns(n) ==
  /\ ~online[n]
  /\ online' = [online EXCEPT ![n] = TRUE]
  /\ UNCHANGED <<ver, syncedVer, timer, waiting, run, push, inbox, deployed, attempted,
                 active, faults>>

\* Health checks mark the node inactive, later active again.  Neither calls
\* for a synchronisation.
NodeDown(n) ==
  /\ active[n]
  /\ Fault
  /\ active' = [active EXCEPT ![n] = FALSE]
  /\ UNCHANGED <<ver, syncedVer, timer, waiting, run, push, inbox, deployed, attempted,
                 online>>

NodeUp(n) ==
  /\ ~active[n]
  /\ active' = [active EXCEPT ![n] = TRUE]
  /\ UNCHANGED <<ver, syncedVer, timer, waiting, run, push, inbox, deployed, attempted,
                 online, faults>>

\* The panel restarts: the timer, its callers and the runs are memory.
Restart ==
  /\ Fault
  /\ timer' = FALSE
  /\ waiting' = {}
  /\ run' = [r \in Runs |-> Idle]
  /\ push' = [r \in Runs |-> [n \in Nodes |-> NoPush]]
  /\ inbox' = [n \in Nodes |-> <<>>]
  /\ online' = [n \in Nodes |-> FALSE]
  /\ UNCHANGED <<ver, syncedVer, deployed, attempted, active>>

----------------------------------------------------------------------------
RunStep(r) ==
  \/ FireDebounce(r)
  \/ StartRotation(r)
  \/ NextBatch(r)
  \/ EndRun(r)
  \/ \E n \in Nodes : SyncOneNode(r, n) \/ AgentTimeout(r, n) \/ SshEnds(r, n)

NodeStep(n) == AgentApplies(n) \/ AgentDrops(n) \/ AgentReturns(n) \/ NodeDown(n) \/ NodeUp(n)

Next ==
  \/ ChangeAndSync
  \/ ChangeOnly
  \/ Restart
  \/ \E r \in Runs : RunStep(r)
  \/ \E n \in Nodes : NodeStep(n)

Spec == Init /\ [][Next]_vars

\* Timers fire and awaited calls settle (a command within CMD_TIMEOUT, an SSH
\* connection within its own timeout); a connected agent executes what it
\* receives.  The debounce fires however often other runs fill the slots, of
\* which the code has no limit.
SyncFairness ==
  /\ SF_vars(\E r \in Runs : FireDebounce(r))
  /\ \A r \in Runs : /\ WF_vars(NextBatch(r)) /\ WF_vars(EndRun(r))
                     /\ \A n \in Nodes : WF_vars(AgentTimeout(r, n)) /\ WF_vars(SshEnds(r, n))
  /\ \A n \in Nodes : WF_vars(AgentApplies(n)) /\ WF_vars(NodeUp(n)) /\ WF_vars(AgentReturns(n))

FairSpec == Spec /\ SyncFairness

----------------------------------------------------------------------------
\* The variables have their types.
TypeOK ==
  /\ ver \in 0..MaxVer /\ syncedVer \in 0..MaxVer
  /\ timer \in BOOLEAN
  /\ waiting \subseteq 0..MaxVer
  /\ run \in [Runs -> [st : {"idle", "running"}, limit : {1, Concurrency},
                       todo : SUBSET Nodes, callers : SUBSET (0..MaxVer)]]
  /\ push \in [Runs -> [Nodes -> [ph : {"none", "agent", "ssh", "done"}, v : 0..MaxVer]]]
  /\ \A n \in Nodes : \A i \in 1..Len(inbox[n]) : inbox[n][i] \in [run : Runs, v : 0..MaxVer]
  /\ deployed \in [Nodes -> 0..MaxVer]
  /\ attempted \in [Nodes -> 0..MaxVer]
  /\ active \in [Nodes -> BOOLEAN]
  /\ online \in [Nodes -> BOOLEAN]
  /\ faults \in 0..MaxFaults

\* A caller of syncAllNodesConfig is resolved only by a run that read the user
\* table after the call: every push of the run carries the caller's change,
\* however the calls and the earlier runs overlap.
ResolvedCallerIsCovered ==
  \A r \in Runs, n \in Nodes : \A v \in run[r].callers :
    push[r][n].ph # "none" => push[r][n].v >= v

\* The debounce loses no call: until every node has been pushed a version at
\* least as new as the last one somebody asked to synchronise, a timer is
\* armed or a run still has to read for it (deploy.js:469-506).  Outages and
\* restarts are excluded: a synchronisation passes over inactive nodes.
NoCallForgotten ==
  faults = 0 => \A n \in Nodes :
    \/ attempted[n] >= syncedVer
    \/ timer
    \/ \E r \in Runs : run[r].st = "running" /\ n \in run[r].todo

\* A node never goes back to an older configuration, so a frozen user is not
\* admitted again.  Holds as long as every push goes through the agent's
\* ordered connection: the fallback to SSH can carry an old configuration
\* past a newer one.
NoStepBack == \A n \in Nodes : deployed'[n] >= deployed[n]

\* Whoever asks for a synchronisation is served by a run that read the table
\* after the question, and is not forgotten (deploy.js:469-506).
CallersAreServed == TypeOK /\ ResolvedCallerIsCovered /\ NoCallForgotten
=============================================================================
