------------------------------ MODULE NodeHealth ------------------------------
(***************************************************************************)
(* How the panel judges the nodes of one machine, src/src/services/        *)
(* health.js: the reports of the machine's agent, the two zero-traffic     *)
(* watches, the traffic cap, and the address swaps and service restarts    *)
(* they start.                                                             *)
(*                                                                         *)
(* One agent reports, as the node Reporter; the other nodes of the machine *)
(* have other protocols and mirror its state.  The nodes are not manual    *)
(* ones.  Traffic is the machine's, abstracted to what the watches ask: in *)
(* which of three windows there was some, and whether the cap is reached.  *)
(* A swap is its start and its end (module IpSwap has what lies between).  *)
(***************************************************************************)
EXTENDS Integers, FiniteSets

CONSTANTS
  Nodes,        \* the nodes of the machine
  Reporter,     \* the node whose agent reports
  Aws,          \* the nodes with an aws_instance_id
  Capped,       \* traffic_cap > 0
  MaxRestarts,  \* auto_restart_max, 0 when auto_restart_xray is 'false'
  MaxSwaps,     \* bound: swaps of one origin that are told apart
  MaxStops      \* bound: number of panel restarts

ASSUME NodesAssumption ==
  IsFiniteSet(Nodes) /\ Reporter \in Nodes /\ Aws \subseteq Nodes /\ Capped \in BOOLEAN
ASSUME BoundsAssumption == MaxRestarts \in Nat /\ MaxSwaps \in Nat \ {0} /\ MaxStops \in Nat

FailThreshold == 3
Origins == {"sudden", "other"}   \* who started a swap: checkSuddenZeroTraffic or another

Recent  == 0  \* the last SUDDEN_ZERO_SILENCE_HOURS
Earlier == 1  \* before them, the last SUDDEN_ZERO_ACTIVE_HOURS
Before  == 2  \* before those, since yesterday

VARIABLES
  up,         \* the proxy service of Reporter runs (xrayAlive, hysteriaAlive)
  reachable,  \* the machine reaches China (cnReachable)
  active,     \* nodes.is_active
  remark,     \* nodes.remark: "ok" (empty), "down", "blocked" and "zero" (both contain
              \* the word for blocked), "cap", "lost" (agent disconnected)
  cache,      \* the node snapshot: which nodes it shows active, whether it shows
              \* the word "zero" of Reporter, and whether it is younger than 5 s
  fails,      \* _nodeFailCount of Reporter (4 stands for more than 3)
  restarts,   \* _xrayRestartCount of Reporter
  traffic,    \* the windows the machine had traffic in
  capDone,    \* _trafficCapNotified has the machine
  flagged,    \* _suddenZeroNotified has the machine
  dayNoted,   \* _zeroTrafficNotified
  swaps,      \* Origins -> swapNodeIp calls in progress
  bad,        \* history: failing reports since the last good one, up to 3
  stops       \* restarts of the panel so far

worldVars == <<up, reachable>>
nodeVars  == <<active, remark>>
memVars   == <<cache, fails, restarts, capDone, flagged, dayNoted, swaps>>
vars == <<worldVars, nodeVars, memVars, traffic, bad, stops>>

AtMost(k, m) == IF k <= m THEN k ELSE m
Mark(N, on, word) ==
  /\ active' = [n \in Nodes |-> IF n \in N THEN on ELSE active[n]]
  /\ remark' = [n \in Nodes |-> IF n \in N THEN word ELSE remark[n]]
Group == {n \in Nodes : active[n]}

\* getNodeSnapshot; what an expired snapshot shows is never read again
NoSnapshot == [on |-> {}, zero |-> FALSE, fresh |-> FALSE]
Snapshot == IF cache.fresh THEN cache ELSE [on |-> Group, zero |-> remark[Reporter] = "zero", fresh |-> TRUE]

----------------------------------------------------------------------------
Init ==
  /\ up = TRUE /\ reachable = TRUE
  /\ active = [n \in Nodes |-> TRUE]
  /\ remark = [n \in Nodes |-> "ok"]
  /\ cache = NoSnapshot
  /\ fails = 0 /\ restarts = 0
  /\ traffic \in SUBSET {Recent, Earlier, Before}
  /\ capDone = FALSE
  /\ flagged = FALSE /\ dayNoted = {}
  /\ swaps = [o \in Origins |-> 0]
  /\ bad = 0 /\ stops = 0

\* Variant: traffic does not lift the zero-traffic flag
VerdictStubborn(tr) ==
  CASE ~up -> "down"
    [] up /\ ~reachable -> "blocked"
    [] up /\ reachable -> IF Snapshot.zero THEN "zero" ELSE "ok"

\* The word the report earns the node, "ok" for a good one.  A node flagged by
\* the zero-traffic watch, as the snapshot shows it, needs traffic.
Verdict(tr) ==
  CASE ~up -> "down"
    [] up /\ ~reachable -> "blocked"
    [] up /\ reachable -> IF Snapshot.zero /\ ~tr THEN "zero" ELSE "ok"

\* Variants: a good report does not reset the count; the early return comes
\* before the count is stored
FailCountSticky(tr) == IF Verdict(tr) = "ok" THEN fails ELSE AtMost(fails + 1, FailThreshold + 1)
FailCountUnstored(tr) == IF Verdict(tr) = "ok" THEN 0 ELSE 1

\* The consecutive failing reports, this one included
FailCount(tr) == IF Verdict(tr) = "ok" THEN 0 ELSE AtMost(fails + 1, FailThreshold + 1)

\* At the threshold a service that is down is restarted, up to MaxRestarts
\* times between two good reports; the count then starts again
Restarting(tr) ==
  Verdict(tr) = "down" /\ FailCount(tr) = FailThreshold /\ restarts + 1 <= MaxRestarts

\* checkNodeTrafficCap, reached when the report brought traffic; over: the
\* machine's total has reached the cap
CapHit(tr, over) == Capped /\ tr /\ over /\ ~capDone

\* updateFromAgentReport; tr: it brings traffic, which a service that is down by
\* now may have carried before.  Below the threshold a failing report changes
\* no node.  The cap then switches off the nodes the snapshot shows active; the
\* command that should stop the services contains a ';', which the agent
\* refuses to execute.
Report(tr, over) ==
  LET word  == Verdict(tr)
      count == FailCount(tr)
      quiet == count \in 1..(FailThreshold - 1)
      hit   == IF CapHit(tr, over) THEN Snapshot.on ELSE {}
  IN  /\ cache' = Snapshot
      /\ fails' = IF Restarting(tr) THEN 0 ELSE count
      /\ restarts' = IF word = "ok" THEN 0
                     ELSE IF word = "down" /\ count = FailThreshold
                            THEN restarts + 1
                            ELSE restarts
      /\ swaps' = IF count = FailThreshold /\ word \in {"blocked", "zero"} /\ Reporter \in Aws
                    THEN [swaps EXCEPT !["other"] = AtMost(@ + 1, MaxSwaps)] ELSE swaps
      /\ active' = [n \in Nodes |-> IF n \in hit THEN FALSE
                                    ELSE IF quiet THEN active[n] ELSE word = "ok"]
      /\ remark' = [n \in Nodes |-> IF n \in hit THEN "cap"
                                    ELSE IF quiet THEN remark[n] ELSE word]
      /\ capDone' = (capDone \/ CapHit(tr, over))
      /\ traffic' = IF tr THEN traffic \cup {Recent} ELSE traffic
      /\ bad' = IF word = "ok" THEN 0 ELSE AtMost(bad + 1, FailThreshold)
      /\ UNCHANGED <<worldVars, flagged, dayNoted, stops>>

\* checkSuddenZeroTraffic, every 10 minutes: the machine had traffic and has
\* none any more; afterwards machines without active nodes or with new
\* traffic are forgotten
SuddenZeroCheck ==
  LET fire == Group # {} /\ ~flagged /\ Recent \notin traffic /\ Earlier \in traffic
  IN  /\ IF fire THEN Mark(Group, FALSE, "zero") ELSE UNCHANGED nodeVars
      /\ flagged' = (fire \/ (flagged /\ Group # {} /\ Recent \notin traffic))
      /\ swaps' = IF fire /\ Group \cap Aws # {}
                    THEN [swaps EXCEPT !["sudden"] = AtMost(@ + 1, MaxSwaps)] ELSE swaps
      /\ UNCHANGED <<worldVars, cache, fails, restarts, capDone, dayNoted, traffic, bad, stops>>

\* checkZeroTrafficNodes, every hour, judges each active node by itself: the
\* silent ones, without traffic today and yesterday, are noted, and swapped if
\* they are bound and not noted yet.  A machine without traffic has only silent
\* nodes.
ZeroDayCheck ==
  \E silent \in SUBSET Group :
    LET fresh == (silent \cap Aws) \ dayNoted
    IN  /\ traffic = {} => silent = Group
        /\ dayNoted' = (dayNoted \ Group) \cup silent
        /\ swaps' = [swaps EXCEPT !["other"] = AtMost(@ + Cardinality(fresh), MaxSwaps)]
        /\ UNCHANGED <<worldVars, nodeVars, cache, fails, restarts, capDone, flagged,
                       traffic, bad, stops>>

\* swapNodeIp returns: the nodes whose configuration could be pushed are
\* active; a swap started by the sudden-zero watch that succeeds lets the
\* watch forget the machine
SwapEnds(o) ==
  /\ swaps[o] > 0
  /\ swaps' = [swaps EXCEPT ![o] = @ - 1]
  /\ \/ UNCHANGED <<nodeVars, flagged>>
     \/ /\ \E N \in SUBSET Nodes : Mark(N, TRUE, "ok")
        /\ flagged' = (flagged /\ o # "sudden")
  /\ UNCHANGED <<worldVars, cache, fails, restarts, capDone, dayNoted, traffic, bad, stops>>

\* The hub finds the agent gone and marks the machine (AgentHub)
HubOffline ==
  /\ Group # {}
  /\ Mark(Nodes, FALSE, "lost")
  /\ UNCHANGED <<worldVars, memVars, traffic, bad, stops>>

\* NODE_SNAPSHOT_TTL_MS pass
CacheExpires ==
  /\ cache.fresh
  /\ cache' = NoSnapshot
  /\ UNCHANGED <<worldVars, nodeVars, fails, restarts, capDone, flagged, dayNoted, swaps,
                 traffic, bad, stops>>

\* Hours pass
TrafficAges ==
  /\ traffic # {}
  /\ traffic' = {w + 1 : w \in traffic} \ {Before + 1}
  /\ UNCHANGED <<worldVars, nodeVars, memVars, bad, stops>>

\* maybeResetTrafficCapNotified
MonthReset ==
  /\ capDone
  /\ capDone' = FALSE
  /\ UNCHANGED <<worldVars, nodeVars, cache, fails, restarts, flagged, dayNoted, swaps,
                 traffic, bad, stops>>

\* The machine: its service stops and starts (also at the panel's command),
\* China becomes unreachable and reachable
WorldChanges ==
  /\ \/ up' = ~up /\ UNCHANGED reachable
     \/ reachable' = ~reachable /\ UNCHANGED up
  /\ UNCHANGED <<nodeVars, memVars, traffic, bad, stops>>

\* The panel restarts: everything but the database is memory
Restart ==
  /\ stops < MaxStops
  /\ stops' = stops + 1
  /\ cache' = NoSnapshot
  /\ fails' = 0 /\ restarts' = 0
  /\ capDone' = FALSE /\ flagged' = FALSE /\ dayNoted' = {}
  /\ swaps' = [o \in Origins |-> 0]
  /\ UNCHANGED <<worldVars, nodeVars, traffic, bad>>

Next ==
  \/ \E tr, over \in BOOLEAN : Report(tr, over)
  \/ \E o \in Origins : SwapEnds(o)
  \/ SuddenZeroCheck
  \/ ZeroDayCheck
  \/ HubOffline
  \/ CacheExpires
  \/ TrafficAges
  \/ MonthReset
  \/ WorldChanges
  \/ Restart

Spec == Init /\ [][Next]_vars

\* The agent keeps reporting, and users whose service runs keep using it; an
\* awaited swap returns; time passes.
FairSpec == Spec /\ WF_vars(Report(FALSE, FALSE))
                 /\ WF_vars(up /\ \E over \in BOOLEAN : Report(TRUE, over))
                 /\ WF_vars(CacheExpires) /\ WF_vars(TrafficAges)
                 /\ (\A o \in Origins : WF_vars(SwapEnds(o)))

----------------------------------------------------------------------------
Words == {"ok", "down", "blocked", "zero", "cap", "lost"}

\* The variables have their types; restarts is never capped, so its bound says
\* that a service is not restarted (or counted) again before a good report.
TypeOK ==
  /\ up \in BOOLEAN /\ reachable \in BOOLEAN
  /\ active \in [Nodes -> BOOLEAN]
  /\ remark \in [Nodes -> Words]
  /\ cache \in [on : SUBSET Nodes, zero : BOOLEAN, fresh : BOOLEAN]
  /\ fails \in 0..(FailThreshold + 1)
  /\ restarts \in 0..(MaxRestarts + 1)
  /\ traffic \subseteq {Recent, Earlier, Before}
  /\ capDone \in BOOLEAN /\ flagged \in BOOLEAN
  /\ dayNoted \subseteq Nodes
  /\ swaps \in [Origins -> 0..MaxSwaps]
  /\ bad \in 0..FailThreshold
  /\ stops \in 0..MaxStops

\* A report takes a node down only as the third failing one in a row (or by
\* the traffic cap): neither restarts of the service, which start the count
\* again, nor restarts of the panel, which lose it, nor failures with good
\* reports between them make it earlier.
OutageNeedsThree ==
  [][\A tr, over \in BOOLEAN :
       (\E n \in Nodes : active[n] /\ ~active'[n]) /\ Report(tr, over)
         => bad' = FailThreshold \/ capDone' # capDone]_vars

\* A service that stays down is shown: in the end every node of the machine is
\* inactive, however many restarts are tried and whatever swaps that were
\* under way report.  The machine has no traffic any more: that of another
\* service, coming and going, would start swaps again and again, and each one
\* that succeeds shows the nodes active until the next report.
DeadServiceShown ==
  <>[](~up /\ traffic = {}) => <>[](\A n \in Nodes : ~active[n])

\* A machine that stays up, reachable and in use always comes back: no flag,
\* no count and no stale snapshot keeps it inactive for ever.
HealthyMachineReturns == <>[](up /\ reachable) => []<>(\A n \in Nodes : active[n])

\* A node the traffic cap switched off stays off until the caps are reset.
CapHolds ==
  [][\A n \in Nodes : remark[n] = "cap" /\ capDone /\ capDone' => ~active'[n]]_vars
=============================================================================
