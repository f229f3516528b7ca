--------------------------- MODULE NodeHealthProofs ---------------------------
(***************************************************************************)
(* Theorems about NodeHealth for any number of nodes on the machine and    *)
(* any limits: the types, with the bound on service restarts, and that an  *)
(* outage takes three failing reports in a row.                            *)
(***************************************************************************)
EXTENDS NodeHealth, FiniteSetTheorems, TLAPS

USE NodesAssumption, BoundsAssumption DEF FailThreshold

\* Once the service has been counted as restarted too often, the reports are
\* beyond the threshold and no longer count it, until a good one.
RestartsCoupled == restarts = MaxRestarts + 1 => fails >= FailThreshold

\* The program never counts more failing reports in a row than there were.
FailsReal == AtMost(fails, FailThreshold) <= bad

HealthInv == TypeOK /\ RestartsCoupled /\ FailsReal

Snapshots == [on : SUBSET Nodes, zero : BOOLEAN, fresh : BOOLEAN]

----------------------------------------------------------------------------
\* The counts, without the other variables
LEMMA Counts ==
  ASSUME HealthInv
  PROVE  /\ fails \in 0..4 /\ restarts \in 0..(MaxRestarts + 1) /\ bad \in 0..3
         /\ restarts = MaxRestarts + 1 => fails >= 3
         /\ IF fails <= 3 THEN fails <= bad ELSE 3 <= bad
BY DEF HealthInv, TypeOK, RestartsCoupled, FailsReal, AtMost

\* What getNodeSnapshot returns, cached or read, is a snapshot.
LEMMA SnapshotType == ASSUME TypeOK PROVE Snapshot \in Snapshots
BY DEF TypeOK, Snapshot, Snapshots, Group, Words

\* A verdict is a good one or one of the three words of a report.
LEMMA VerdictType ==
  ASSUME NEW tr PROVE Verdict(tr) \in {"ok", "down", "blocked", "zero"}
BY DEF Verdict

\* Swaps are counted up to MaxSwaps.
LEMMA SwapCounted ==
  ASSUME TypeOK, NEW o \in Origins, NEW k \in Nat
  PROVE  [swaps EXCEPT ![o] = AtMost(@ + k, MaxSwaps)] \in [Origins -> 0..MaxSwaps]
BY DEF TypeOK, AtMost

\* Marking some nodes keeps the node table typed.
LEMMA MarkType ==
  ASSUME TypeOK, NEW N, NEW on \in BOOLEAN, NEW word \in Words, Mark(N, on, word)
  PROVE  active' \in [Nodes -> BOOLEAN] /\ remark' \in [Nodes -> Words]
BY DEF TypeOK, Mark

\* The nodes noted by the hourly watch can be counted.
LEMMA NotedCounted ==
  ASSUME NEW silent \in SUBSET Group
  PROVE  Cardinality((silent \cap Aws) \ dayNoted) \in Nat
BY FS_Subset, FS_CardinalityType DEF Group

\* A report keeps the invariant: the counts first, then the nodes.
LEMMA ReportStep ==
  ASSUME HealthInv, NEW tr \in BOOLEAN, NEW over \in BOOLEAN, Report(tr, over)
  PROVE  HealthInv'
<1>1. Verdict(tr) \in {"ok", "down", "blocked", "zero"} /\ Verdict(tr) \in Words
  BY VerdictType DEF Words
<1>2. /\ FailCount(tr) \in 0..4
      /\ Verdict(tr) = "ok" => FailCount(tr) = 0
      /\ Verdict(tr) # "ok" => FailCount(tr) = AtMost(fails + 1, 4) /\ FailCount(tr) \in {fails + 1, 4}
  <2>1. fails \in 0..4
    BY Counts
  <2>2. FailCount(tr) = IF Verdict(tr) = "ok" THEN 0 ELSE AtMost(fails + 1, 4)
    BY DEF FailCount
  <2>3. AtMost(fails + 1, 4) \in 0..4 /\ AtMost(fails + 1, 4) \in {fails + 1, 4}
    BY <2>1 DEF AtMost
  <2> QED BY <2>2, <2>3
<1>3. fails' \in 0..4 /\ restarts' \in 0..(MaxRestarts + 1) /\ RestartsCoupled'
  <2>1. /\ fails' = IF Restarting(tr) THEN 0 ELSE FailCount(tr)
        /\ restarts' = IF Verdict(tr) = "ok" THEN 0
                       ELSE IF Verdict(tr) = "down" /\ FailCount(tr) = 3 THEN restarts + 1 ELSE restarts
    BY DEF Report
  <2>2. Restarting(tr) <=> Verdict(tr) = "down" /\ FailCount(tr) = 3 /\ restarts + 1 <= MaxRestarts
    BY DEF Restarting
  <2>3. CASE Verdict(tr) = "ok"
    BY <1>2, <2>1, <2>2, <2>3 DEF RestartsCoupled
  <2>4. CASE Verdict(tr) # "ok"
    BY <1>2, <2>1, <2>2, <2>4, Counts DEF RestartsCoupled
  <2> QED BY <2>3, <2>4
<1>4. bad' \in 0..FailThreshold /\ FailsReal'
  <2>1. /\ bad' = IF Verdict(tr) = "ok" THEN 0 ELSE AtMost(bad + 1, 3)
        /\ fails' \in {0, FailCount(tr)}
    BY DEF Report
  <2>2. AtMost(bad + 1, 3) \in 0..3 /\ AtMost(bad + 1, 3) \in {bad + 1, 3}
    <3>1. bad \in 0..3
      BY Counts
    <3> QED BY <3>1 DEF AtMost
  <2>3. CASE Verdict(tr) = "ok"
    BY <1>2, <2>1, <2>3 DEF FailsReal, AtMost
  <2>4. CASE Verdict(tr) # "ok"
    BY <1>2, <2>1, <2>2, <2>4, Counts DEF FailsReal, AtMost
  <2> QED BY <2>3, <2>4
<1>5. cache' \in Snapshots
  BY SnapshotType DEF Report, HealthInv
<1>6. swaps' \in [Origins -> 0..MaxSwaps]
  <2>1. [swaps EXCEPT !["other"] = AtMost(@ + 1, MaxSwaps)] \in [Origins -> 0..MaxSwaps]
    BY SwapCounted DEF HealthInv, Origins
  <2> QED BY <2>1 DEF Report, HealthInv, TypeOK
<1>7. active' \in [Nodes -> BOOLEAN] /\ remark' \in [Nodes -> Words]
  <2>1. "cap" \in Words
    BY DEF Words
  <2> QED BY <1>1, <2>1 DEF Report, HealthInv, TypeOK
<1>8. capDone' \in BOOLEAN /\ traffic' \subseteq {Recent, Earlier, Before}
  BY DEF Report, CapHit, HealthInv, TypeOK
<1>9. UNCHANGED <<up, reachable, flagged, dayNoted, stops>>
  BY DEF Report, worldVars
<1> QED BY <1>3, <1>4, <1>5, <1>6, <1>7, <1>8, <1>9 DEF HealthInv, TypeOK, Snapshots

\* So does every other step.
LEMMA HealthStep == HealthInv /\ [Next]_vars => HealthInv'
<1> SUFFICES ASSUME HealthInv, [Next]_vars PROVE HealthInv'
  OBVIOUS
<1> USE DEF HealthInv, RestartsCoupled, FailsReal, worldVars, memVars, nodeVars
<1>1. ASSUME NEW tr \in BOOLEAN, NEW over \in BOOLEAN, Report(tr, over) PROVE HealthInv'
  BY <1>1, ReportStep
<1>2. ASSUME NEW o \in Origins, SwapEnds(o) PROVE HealthInv'
  <2>1. swaps[o] \in 0..MaxSwaps /\ swaps[o] > 0 /\ swaps' = [swaps EXCEPT ![o] = swaps[o] - 1]
    BY <1>2 DEF SwapEnds, TypeOK
  <2>3. swaps[o] - 1 \in 0..MaxSwaps
    BY <2>1
  <2>4. swaps' \in [Origins -> 0..MaxSwaps]
    BY <2>1, <2>3 DEF TypeOK
  <2>2. active' \in [Nodes -> BOOLEAN] /\ remark' \in [Nodes -> Words] /\ flagged' \in BOOLEAN
    BY <1>2, MarkType DEF SwapEnds, TypeOK, Words
  <2> QED BY <1>2, <2>2, <2>4 DEF SwapEnds, TypeOK
<1>3. CASE SuddenZeroCheck
  <2>1. swaps' \in [Origins -> 0..MaxSwaps]
    BY <1>3, SwapCounted DEF SuddenZeroCheck, TypeOK, Origins
  <2>2. active' \in [Nodes -> BOOLEAN] /\ remark' \in [Nodes -> Words] /\ flagged' \in BOOLEAN
    BY <1>3, MarkType DEF SuddenZeroCheck, TypeOK, Words
  <2> QED BY <1>3, <2>1, <2>2 DEF SuddenZeroCheck, TypeOK
<1>4. CASE ZeroDayCheck
  <2>1. PICK silent \in SUBSET Group :
          /\ dayNoted' = (dayNoted \ Group) \cup silent
          /\ swaps' = [swaps EXCEPT !["other"] =
                        AtMost(@ + Cardinality((silent \cap Aws) \ dayNoted), MaxSwaps)]
    BY <1>4 DEF ZeroDayCheck
  <2>2. swaps' \in [Origins -> 0..MaxSwaps]
    BY <2>1, SwapCounted, NotedCounted DEF Origins
  <2>3. dayNoted' \subseteq Nodes
    BY <2>1 DEF TypeOK, Group
  <2> QED BY <1>4, <2>2, <2>3 DEF ZeroDayCheck, TypeOK
<1>5. CASE HubOffline
  <2>1. active' \in [Nodes -> BOOLEAN] /\ remark' \in [Nodes -> Words]
    BY <1>5, MarkType DEF HubOffline, Words
  <2> QED BY <1>5, <2>1 DEF HubOffline, TypeOK
<1>6. CASE CacheExpires
  BY <1>6 DEF CacheExpires, NoSnapshot, TypeOK, Words
<1>7. CASE TrafficAges
  <2>1. traffic' \subseteq {Recent, Earlier, Before}
    BY <1>7 DEF TrafficAges, TypeOK, Recent, Earlier, Before
  <2> QED BY <1>7, <2>1 DEF TrafficAges, TypeOK
<1>8. CASE MonthReset
  BY <1>8 DEF MonthReset, TypeOK
<1>9. CASE WorldChanges
  BY <1>9 DEF WorldChanges, TypeOK
<1>10. CASE Restart
  <2>1. swaps' \in [Origins -> 0..MaxSwaps] /\ cache' \in Snapshots
    BY <1>10 DEF Restart, NoSnapshot, Snapshots, Words
  <2>2. fails' = 0 /\ restarts' = 0 /\ bad' = bad /\ stops' \in 0..MaxStops
    BY <1>10 DEF Restart, TypeOK
  <2>3. FailsReal'
    BY <2>2, Counts DEF AtMost
  <2>4. RestartsCoupled'
    BY <2>2
  <2>5. TypeOK'
    <3>1. UNCHANGED <<up, reachable, active, remark, traffic>> /\ capDone' = FALSE
          /\ flagged' = FALSE /\ dayNoted' = {}
      BY <1>10 DEF Restart
    <3>2. /\ fails' \in 0..(FailThreshold + 1) /\ restarts' \in 0..(MaxRestarts + 1)
          /\ bad' \in 0..FailThreshold /\ dayNoted' \subseteq Nodes
      BY <2>2, <3>1, Counts
    <3> QED BY <2>1, <2>2, <3>1, <3>2 DEF TypeOK, Snapshots
  <2> QED BY <2>3, <2>4, <2>5
<1>11. CASE UNCHANGED vars
  BY <1>11 DEF vars, TypeOK
<1> QED BY <1>1, <1>2, <1>3, <1>4, <1>5, <1>6, <1>7, <1>8, <1>9, <1>10, <1>11 DEF Next

\* A started panel has counted nothing.
LEMMA HealthInit == Init => HealthInv
<1> SUFFICES ASSUME Init PROVE HealthInv
  OBVIOUS
<1>1. swaps \in [Origins -> 0..MaxSwaps] /\ cache \in Snapshots
  BY DEF Init, NoSnapshot, Snapshots, Words
<1>2. active \in [Nodes -> BOOLEAN] /\ remark \in [Nodes -> Words]
  BY DEF Init, Words
<1>3. fails = 0 /\ restarts = 0 /\ bad = 0 /\ stops = 0
  BY DEF Init
<1>4. RestartsCoupled /\ FailsReal
  BY <1>3 DEF RestartsCoupled, FailsReal, AtMost
<1>5. /\ up = TRUE /\ reachable = TRUE /\ capDone = FALSE /\ flagged = FALSE
      /\ dayNoted = {} /\ traffic \subseteq {Recent, Earlier, Before}
  BY DEF Init
<1>6. TypeOK
  <2>1. /\ fails \in 0..(FailThreshold + 1) /\ restarts \in 0..(MaxRestarts + 1)
        /\ bad \in 0..FailThreshold /\ stops \in 0..MaxStops
    BY <1>3
  <2>2. up \in BOOLEAN /\ reachable \in BOOLEAN /\ capDone \in BOOLEAN /\ flagged \in BOOLEAN
        /\ dayNoted \subseteq Nodes
    BY <1>5
  <2> QED BY <1>1, <1>2, <1>5, <2>1, <2>2 DEF TypeOK, Snapshots
<1> QED BY <1>4, <1>6 DEF HealthInv

\* Hence the counts are always bounded and never ahead of the machine.
LEMMA HealthInvariant == Spec => []HealthInv
BY HealthInit, HealthStep, PTL DEF Spec

\* The variables of NodeHealth have their types; in particular a service is
\* counted as restarted at most MaxRestarts + 1 times between good reports.
THEOREM TypeCorrect == Spec => []TypeOK
BY HealthInvariant, PTL DEF HealthInv

----------------------------------------------------------------------------
\* A report that takes a node down is the third failing one in a row or the
\* one that reaches the traffic cap, whatever restarts of the service and of
\* the panel, swaps and watches did to the counts before.
THEOREM OutageJustified == Spec => OutageNeedsThree
<1> DEFINE Justified ==
      \A tr, over \in BOOLEAN :
        (\E n \in Nodes : active[n] /\ ~active'[n]) /\ Report(tr, over)
          => bad' = FailThreshold \/ capDone' # capDone
<1>1. ASSUME HealthInv PROVE Justified
  <2> SUFFICES ASSUME NEW tr \in BOOLEAN, NEW over \in BOOLEAN, Report(tr, over),
                      NEW n \in Nodes, active[n], ~active'[n]
               PROVE  bad' = FailThreshold \/ capDone' # capDone
    OBVIOUS
  <2>1. CASE CapHit(tr, over)
    BY <1>1, <2>1 DEF Report, CapHit, HealthInv, TypeOK
  <2>2. CASE ~CapHit(tr, over)
    <3>1. Verdict(tr) # "ok" /\ FailCount(tr) \notin 1..(FailThreshold - 1)
      BY <1>1, <2>2 DEF Report, HealthInv, TypeOK
    <3>2. fails >= 2
      BY <1>1, <3>1, Counts DEF FailCount, AtMost
    <3>3. bad >= 2 /\ bad <= 3
      BY <1>1, <3>2, Counts
    <3>4. bad' = AtMost(bad + 1, 3)
      BY <3>1 DEF Report
    <3> QED BY <1>1, <3>3, <3>4, Counts DEF AtMost
  <2> QED BY <2>1, <2>2
<1>2. HealthInv => [Justified]_vars
  BY <1>1
<1> QED BY <1>2, HealthInvariant, PTL DEF OutageNeedsThree
=============================================================================
