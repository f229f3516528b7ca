---------------------------- MODULE MCConfigSync ----------------------------
(* Instances of ConfigSync for TLC, in two moods: in the calm one every agent *)
(* is connected and stays so, all pushes go through the agents and nothing    *)
(* makes the rotation come; in the other faults happen and every night the    *)
(* rotation.                                                                  *)
EXTENDS ConfigSync, TLC

VARIABLE calm

AllInit == Init /\ calm \in BOOLEAN /\ (calm => \A n \in Nodes : online[n])

AllNext == Next /\ UNCHANGED calm /\ (calm => faults' = 0)

AllSpec ==
  /\ AllInit /\ [][AllNext]_<<vars, calm>>
  /\ SyncFairness /\ SF_vars(~calm /\ \E r \in Runs : StartRotation(r))
----------------------------------------------------------------------------
\* While every push travels over an agent's ordered connection, no node goes
\* back to an older configuration, so a frozen user is not admitted again.
CalmNoRegression == [][calm => NoStepBack]_vars

\* Then every node ends up with the newest version somebody asked to
\* synchronise, without the rotation's help.
CalmChangesArrive == \A n \in Nodes : <>[](calm => deployed[n] >= syncedVer)

\* Otherwise the nightly rotation repairs silent changes, lost timers, failed
\* and overtaken pushes, of every node it does not pass over (rotate.js:12).
RotationRepairs == \A n \in Nodes \ Manual : <>[](~calm => deployed[n] = ver)

\* In the calm mood pushes arrive, and in order (deploy.js:300, 378).
CalmPushesArrive == CalmNoRegression /\ CalmChangesArrive
=============================================================================
