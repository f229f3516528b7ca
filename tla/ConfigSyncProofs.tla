--------------------------- MODULE ConfigSyncProofs ---------------------------
(***************************************************************************)
(* Theorems about ConfigSync for any set of nodes, any number of           *)
(* synchronisations at once, any batch size and any number of changes and  *)
(* faults.                                                                 *)
(*                                                                         *)
(* Neither half of CallersAreServed is inductive.  That a run covers its   *)
(* callers rests on the callers having asked for versions that existed     *)
(* when they asked; that no call is forgotten rests on every row being     *)
(* active as long as nothing failed, since a debounced run passes over the *)
(* others.  SyncInv adds both, and the sequences of TypeOK.                *)
(***************************************************************************)
EXTENDS MCConfigSync, SequenceTheorems, TLAPS

Commands == [run : Runs, v : 0..MaxVer]
RunStates == [st : {"idle", "running"}, limit : {1, Concurrency},
              todo : SUBSET Nodes, callers : SUBSET (0..MaxVer)]
PushStates == [ph : {"none", "agent", "ssh", "done"}, v : 0..MaxVer]

\* TypeOK, with the inboxes as sequences of commands.
Types ==
  /\ ver \in 0..MaxVer /\ syncedVer \in 0..MaxVer
  /\ timer \in BOOLEAN
  /\ waiting \subseteq 0..MaxVer
  /\ run \in [Runs -> RunStates]
  /\ push \in [Runs -> [Nodes -> PushStates]]
  /\ inbox \in [Nodes -> Seq(Commands)]
  /\ deployed \in [Nodes -> 0..MaxVer]
  /\ attempted \in [Nodes -> 0..MaxVer]
  /\ active \in [Nodes -> BOOLEAN]
  /\ online \in [Nodes -> BOOLEAN]
  /\ faults \in 0..MaxFaults

\* Nobody has asked for a version that does not exist yet.
Asked ==
  /\ syncedVer <= ver
  /\ \A v \in waiting : v <= ver
  /\ \A r \in Runs : \A v \in run[r].callers : v <= ver

\* Only a fault takes a row out of the synchronisation.
AllActive == faults = 0 => \A n \in Nodes : active[n]

SyncInv == Types /\ Asked /\ AllActive /\ ResolvedCallerIsCovered /\ NoCallForgotten

----------------------------------------------------------------------------
\* The parts of Types that the start of a run changes.
StartTypes ==
  /\ run \in [Runs -> RunStates]
  /\ push \in [Runs -> [Nodes -> PushStates]]
  /\ inbox \in [Nodes -> Seq(Commands)]
  /\ attempted \in [Nodes -> 0..MaxVer]

LEMMA MaxOfType == \A a, b \in 0..MaxVer : MaxOf(a, b) \in 0..MaxVer /\ MaxOf(a, b) >= a /\ MaxOf(a, b) >= b
  BY BoundsAssumption DEF MaxOf

\* A batch is taken from the nodes that are left.
LEMMA BatchIsPart == \A todo, limit : \A b \in Batches(todo, limit) : b \subseteq todo
  BY DEF Batches

LEMMA StartKeepsTypes ==
  ASSUME Types, NEW r \in Runs, NEW N \in SUBSET Nodes, NEW limit \in {1, Concurrency},
         NEW callers \in SUBSET (0..MaxVer), NEW v \in 0..MaxVer,
         StartRun(r, N, limit, callers, v)
  PROVE  StartTypes'
<1>1. PICK b \in Batches(N, limit) :
        /\ run' = [run EXCEPT ![r] = [st |-> "running", limit |-> limit,
                                      todo |-> N \ b, callers |-> callers]]
        /\ StartPushes(r, b, v)
  BY DEF StartRun
<1>2. run' \in [Runs -> RunStates]
  BY <1>1 DEF Types, RunStates
<1>3. push' \in [Runs -> [Nodes -> PushStates]]
  <2>1. \A n \in Nodes : (IF n \in b THEN [ph |-> IF online[n] THEN "agent" ELSE "ssh", v |-> v]
                          ELSE NoPush) \in PushStates
    BY BoundsAssumption DEF PushStates, NoPush
  <2> QED BY <1>1, <2>1 DEF StartPushes, Types
<1>4. inbox' \in [Nodes -> Seq(Commands)]
  <2>1. [run |-> r, v |-> v] \in Commands
    BY DEF Commands
  <2>2. \A n \in Nodes : Append(inbox[n], [run |-> r, v |-> v]) \in Seq(Commands)
    BY <2>1, AppendProperties DEF Types
  <2>3. \A n \in Nodes : inbox[n] \in Seq(Commands)
    BY DEF Types
  <2>4. inbox' = [n \in Nodes |-> IF n \in b /\ online[n]
                    THEN Append(inbox[n], [run |-> r, v |-> v]) ELSE inbox[n]]
    BY <1>1 DEF StartPushes
  <2> QED BY <2>2, <2>3, <2>4
<1>5. attempted' \in [Nodes -> 0..MaxVer]
  BY <1>1, MaxOfType DEF StartPushes, Types
<1> QED BY <1>2, <1>3, <1>4, <1>5 DEF StartTypes

\* The next phase of one push.
LEMMA PhaseType ==
  ASSUME NEW p \in [Runs -> [Nodes -> PushStates]], NEW r \in Runs, NEW n \in Nodes,
         NEW ph \in {"ssh", "done"}
  PROVE  /\ [p[r] EXCEPT ![n].ph = ph] \in [Nodes -> PushStates]
         /\ [p EXCEPT ![r][n].ph = ph] \in [Runs -> [Nodes -> PushStates]]
<1>1. [p[r][n] EXCEPT !.ph = ph] \in PushStates
  BY DEF PushStates
<1>2. [p[r] EXCEPT ![n] = [p[r][n] EXCEPT !.ph = ph]] \in [Nodes -> PushStates]
  BY <1>1
<1> QED BY <1>2

\* It keeps the version it pushes, and the other pushes.
LEMMA PhaseKeeps ==
  ASSUME NEW p \in [Runs -> [Nodes -> PushStates]], NEW r \in Runs, NEW n \in Nodes,
         NEW ph, NEW new, new = [p EXCEPT ![r][n].ph = ph], p[r][n].ph # "none"
  PROVE  \A q \in Runs, m \in Nodes :
           /\ new[q][m].v = p[q][m].v
           /\ new[q][m].ph # "none" => p[q][m].ph # "none"
<1> TAKE q \in Runs, m \in Nodes
<1>1. CASE q = r /\ m = n
  <2>1. new[q][m] = [p[r][n] EXCEPT !.ph = ph]
    BY <1>1
  <2>2. p[r][n] \in PushStates
    OBVIOUS
  <2>3. new[q][m].v = p[q][m].v
    BY <2>1, <2>2, <1>1 DEF PushStates
  <2> QED BY <1>1, <2>3
<1>2. CASE q # r \/ m # n
  <2>1. new[q][m] = p[q][m]
    BY <1>2
  <2> QED BY <2>1
<1> QED BY <1>1, <1>2

\* A fault is counted within its bound.
LEMMA FaultType == Types /\ (Fault \/ UNCHANGED faults) => faults' \in 0..MaxFaults
  BY BoundsAssumption DEF Types, Fault

LEMMA TypeStep == Types /\ [Next]_vars => Types'
<1> SUFFICES ASSUME Types, [Next]_vars PROVE Types'
  OBVIOUS
<1> USE BoundsAssumption, ConcurrencyAssumption
<1>1. CASE ChangeAndSync
  BY <1>1 DEF ChangeAndSync, Types
<1>2. CASE ChangeOnly
  BY <1>2 DEF ChangeOnly, Types
<1>3. CASE Restart
  <2>1. faults' \in 0..MaxFaults
    BY <1>3, FaultType DEF Restart
  <2>2. Idle \in RunStates /\ NoPush \in PushStates /\ <<>> \in Seq(Commands)
    BY DEF Idle, RunStates, NoPush, PushStates
  <2> QED BY <1>3, <2>1, <2>2 DEF Restart, Types
<1>4. ASSUME NEW r \in Runs, RunStep(r) PROVE Types'
  <2>a. ActiveNodes \in SUBSET Nodes /\ ActiveNodes \ Manual \in SUBSET Nodes
    BY DEF ActiveNodes
  <2>1. CASE FireDebounce(r)
    <3>1. StartTypes'
      BY <2>1, <2>a, StartKeepsTypes DEF FireDebounce, Types
    <3> QED BY <2>1, <3>1 DEF FireDebounce, StartTypes, Types
  <2>2. CASE StartRotation(r)
    <3>1. PICK v \in {ver, ver + 1} \cap 0..MaxVer :
            ver' = v /\ StartRun(r, ActiveNodes \ Manual, 1, {}, v)
      BY <2>2 DEF StartRotation
    <3>2. StartTypes'
      BY <2>a, <3>1, StartKeepsTypes
    <3> QED BY <2>2, <3>1, <3>2 DEF StartRotation, StartTypes, Types
  <2>3. CASE NextBatch(r)
    <3>1. run[r] \in RunStates
      BY DEF Types
    <3>2. /\ run[r].todo \in SUBSET Nodes /\ run[r].limit \in {1, Concurrency}
          /\ run[r].callers \in SUBSET (0..MaxVer)
      BY <3>1 DEF RunStates
    <3>3. StartRun(r, run[r].todo, run[r].limit, run[r].callers, ver) /\ ver \in 0..MaxVer
      BY <2>3 DEF NextBatch, Types
    <3>4. StartTypes'
      BY <3>2, <3>3, StartKeepsTypes
    <3> QED BY <2>3, <3>4 DEF NextBatch, StartTypes, Types
  <2>4. CASE EndRun(r)
    <3>1. Idle \in RunStates /\ NoPush \in PushStates
      BY DEF Idle, RunStates, NoPush, PushStates
    <3> QED BY <2>4, <3>1 DEF EndRun, Types
  <2>5. ASSUME NEW n \in Nodes, SyncOneNode(r, n) PROVE Types'
    <3>1. StartRun(r, {n}, 1, {}, ver + 1) /\ ver + 1 \in 0..MaxVer
      BY <2>5 DEF SyncOneNode, Types
    <3>2. StartTypes'
      BY <3>1, StartKeepsTypes
    <3> QED BY <2>5, <3>2 DEF SyncOneNode, StartTypes, Types
  <2>6. ASSUME NEW n \in Nodes, AgentTimeout(r, n) PROVE Types'
    <3>1. faults' \in 0..MaxFaults
      BY <2>6, FaultType DEF AgentTimeout
    <3>2. push' \in [Runs -> [Nodes -> PushStates]]
      BY <2>6, PhaseType DEF AgentTimeout, Types
    <3> QED BY <2>6, <3>1, <3>2 DEF AgentTimeout, Types
  <2>7. ASSUME NEW n \in Nodes, SshEnds(r, n) PROVE Types'
    <3>1. faults' \in 0..MaxFaults
      BY <2>7, FaultType DEF SshEnds
    <3>2. push' \in [Runs -> [Nodes -> PushStates]]
      BY <2>7, PhaseType DEF SshEnds, Types
    <3>3. push[r][n].v \in 0..MaxVer
      BY DEF Types, PushStates
    <3>4. deployed' \in [Nodes -> 0..MaxVer]
      BY <2>7, <3>3 DEF SshEnds, Types
    <3> QED BY <2>7, <3>1, <3>2, <3>4 DEF SshEnds, Types
  <2> QED BY <1>4, <2>1, <2>2, <2>3, <2>4, <2>5, <2>6, <2>7 DEF RunStep
<1>5. ASSUME NEW n \in Nodes, NodeStep(n) PROVE Types'
  <2>1. CASE AgentApplies(n)
    <3>1. Head(inbox[n]) \in Commands /\ Tail(inbox[n]) \in Seq(Commands)
      BY <2>1, HeadTailProperties DEF AgentApplies, Types
    <3>2. faults' \in 0..MaxFaults
      BY <2>1, FaultType DEF AgentApplies
    <3>3. push' \in [Runs -> [Nodes -> PushStates]]
      <4>1. Head(inbox[n]).run \in Runs
        BY <3>1 DEF Commands
      <4>2. \/ push' = push
            \/ push' = [push EXCEPT ![Head(inbox[n]).run][n].ph = "done"]
        BY <2>1 DEF AgentApplies
      <4>3. push \in [Runs -> [Nodes -> PushStates]]
        BY DEF Types
      <4>4. [push EXCEPT ![Head(inbox[n]).run][n].ph = "done"] \in [Runs -> [Nodes -> PushStates]]
        BY <4>1, <4>3, PhaseType
      <4> QED BY <4>2, <4>3, <4>4
    <3>4. inbox' \in [Nodes -> Seq(Commands)] /\ deployed' \in [Nodes -> 0..MaxVer]
      BY <2>1, <3>1 DEF AgentApplies, Types, Commands
    <3> QED BY <2>1, <3>2, <3>3, <3>4 DEF AgentApplies, Types
  <2>2. CASE AgentDrops(n)
    <3>1. faults' \in 0..MaxFaults
      BY <2>2, FaultType DEF AgentDrops
    <3>2. push' \in [Runs -> [Nodes -> PushStates]]
      <4>1. \A r \in Runs : [push[r] EXCEPT ![n].ph = "ssh"] \in [Nodes -> PushStates]
        BY PhaseType DEF Types
      <4> QED BY <2>2, <4>1 DEF AgentDrops, Types
    <3>3. inbox' \in [Nodes -> Seq(Commands)]
      BY <2>2 DEF AgentDrops, Types
    <3> QED BY <2>2, <3>1, <3>2, <3>3 DEF AgentDrops, Types
  <2>3. CASE AgentReturns(n) \/ NodeUp(n)
    BY <2>3 DEF AgentReturns, NodeUp, Types
  <2>4. CASE NodeDown(n)
    <3>1. faults' \in 0..MaxFaults
      BY <2>4, FaultType DEF NodeDown
    <3> QED BY <2>4, <3>1 DEF NodeDown, Types
  <2> QED BY <1>5, <2>1, <2>2, <2>3, <2>4 DEF NodeStep
<1>6. CASE UNCHANGED vars
  BY <1>6 DEF vars, Types
<1> QED BY <1>1, <1>2, <1>3, <1>4, <1>5, <1>6 DEF Next

----------------------------------------------------------------------------
\* What Asked says of one run's callers is kept by starting runs with callers
\* that asked before, and lost by nothing else.
LEMMA AskedStep == Types /\ Asked /\ [Next]_vars => Asked'
<1> SUFFICES ASSUME Types, Asked, [Next]_vars PROVE Asked'
  OBVIOUS
<1>t. /\ ver \in Nat /\ syncedVer \in Nat /\ waiting \subseteq Nat
      /\ \A r \in Runs : run[r].callers \subseteq Nat
      /\ DOMAIN run = Runs
  BY BoundsAssumption DEF Types, RunStates
<1>s. ASSUME NEW r \in Runs, NEW N, NEW limit, NEW callers, NEW v, StartRun(r, N, limit, callers, v),
             \A c \in callers : c <= ver, ver' >= ver, ver' \in Nat, callers \subseteq Nat
      PROVE  \A q \in Runs : \A c \in run'[q].callers : c <= ver'
  <2>1. PICK b : run' = [run EXCEPT ![r] = [st |-> "running", limit |-> limit,
                                            todo |-> N \ b, callers |-> callers]]
    BY <1>s DEF StartRun
  <2>2. run'[r].callers = callers /\ \A q \in Runs \ {r} : run'[q] = run[q]
    BY <1>t, <2>1
  <2>3. \A q \in Runs \ {r} : \A c \in run[q].callers : c <= ver
    BY DEF Asked
  <2> SUFFICES ASSUME NEW q \in Runs, NEW c \in run'[q].callers PROVE c <= ver'
    OBVIOUS
  <2>4. CASE q = r
    <3>1. c \in callers
      BY <2>2, <2>4
    <3> QED BY <1>s, <1>t, <3>1
  <2>5. CASE q # r
    <3>1. c \in run[q].callers
      BY <2>2, <2>5
    <3> QED BY <1>s, <1>t, <2>3, <2>5, <3>1
  <2> QED BY <2>4, <2>5
<1>1. CASE ChangeAndSync
  <2>1. ver' = ver + 1 /\ syncedVer' = ver' /\ waiting' = waiting \cup {ver'} /\ run' = run
    BY <1>1 DEF ChangeAndSync
  <2>2. ver <= ver' /\ ver' <= ver'
    BY <1>t, <2>1
  <2>3. \A v \in waiting' : v <= ver'
    BY <1>t, <2>1, <2>2 DEF Asked
  <2>4. \A r \in Runs : \A v \in run'[r].callers : v <= ver'
    BY <1>t, <2>1 DEF Asked
  <2> QED BY <2>1, <2>2, <2>3, <2>4 DEF Asked
<1>2. CASE ChangeOnly
  <2>1. ver' = ver + 1 /\ UNCHANGED <<syncedVer, waiting, run>>
    BY <1>2 DEF ChangeOnly
  <2> QED BY <1>t, <2>1 DEF Asked
<1>3. CASE Restart
  BY <1>3, <1>t DEF Restart, Asked, Idle
<1>4. ASSUME NEW r \in Runs, RunStep(r) PROVE Asked'
  <2>1. CASE FireDebounce(r)
    <3>1. \A q \in Runs : \A c \in run'[q].callers : c <= ver'
      <4>1. StartRun(r, ActiveNodes, Concurrency, waiting, ver) /\ ver' = ver
        BY <2>1 DEF FireDebounce
      <4>2. \A c \in waiting : c <= ver
        BY DEF Asked
      <4>3. ver' >= ver /\ ver' \in Nat /\ waiting \subseteq Nat
        BY <1>t, <4>1
      <4>4. \A callers : /\ StartRun(r, ActiveNodes, Concurrency, callers, ver)
                         /\ \A c \in callers : c <= ver
                         /\ callers \subseteq Nat
                         => \A q \in Runs : \A c \in run'[q].callers : c <= ver'
        BY <1>s, <4>3
      <4> QED BY <4>1, <4>2, <4>3, <4>4
    <3> QED BY <2>1, <3>1 DEF FireDebounce, Asked
  <2>2. CASE StartRotation(r)
    <3>1. PICK v \in {ver, ver + 1} : ver' = v /\ StartRun(r, ActiveNodes \ Manual, 1, {}, v)
      BY <2>2 DEF StartRotation
    <3>2. ver' >= ver /\ ver' \in Nat
      BY <3>1, <1>t
    <3>3. \A q \in Runs : \A c \in run'[q].callers : c <= ver'
      BY <3>1, <3>2, <1>s
    <3> QED BY <2>2, <3>2, <3>3, <1>t DEF StartRotation, Asked
  <2>3. CASE NextBatch(r)
    <3>1. \A q \in Runs : \A c \in run'[q].callers : c <= ver'
      BY <2>3, <1>s, <1>t DEF NextBatch, Asked
    <3> QED BY <2>3, <3>1 DEF NextBatch, Asked
  <2>4. CASE EndRun(r)
    BY <2>4, <1>t DEF EndRun, Asked, Idle
  <2>5. ASSUME NEW n \in Nodes, SyncOneNode(r, n) PROVE Asked'
    <3>1. \A q \in Runs : \A c \in run'[q].callers : c <= ver'
      BY <2>5, <1>s, <1>t DEF SyncOneNode
    <3> QED BY <2>5, <3>1, <1>t DEF SyncOneNode, Asked
  <2>6. ASSUME NEW n \in Nodes, AgentTimeout(r, n) \/ SshEnds(r, n) PROVE Asked'
    BY <2>6 DEF AgentTimeout, SshEnds, Asked
  <2> QED BY <1>4, <2>1, <2>2, <2>3, <2>4, <2>5, <2>6 DEF RunStep
<1>5. ASSUME NEW n \in Nodes, NodeStep(n) PROVE Asked'
  BY <1>5 DEF NodeStep, AgentApplies, AgentDrops, AgentReturns, NodeDown, NodeUp, Asked
<1>6. CASE UNCHANGED vars
  BY <1>6 DEF vars, Asked
<1> QED BY <1>1, <1>2, <1>3, <1>4, <1>5, <1>6 DEF Next

\* Only NodeDown makes a row inactive, and it is a fault.
LEMMA ActiveStep == Types /\ AllActive /\ [Next]_vars => AllActive'
<1> SUFFICES ASSUME Types, AllActive, [Next]_vars PROVE AllActive'
  OBVIOUS
<1>0. faults \in Nat
  BY BoundsAssumption DEF Types
<1>1. ASSUME UNCHANGED active, UNCHANGED faults \/ Fault PROVE AllActive'
  BY <1>0, <1>1 DEF Fault, AllActive
<1>2. CASE ChangeAndSync \/ ChangeOnly \/ Restart
  BY <1>1, <1>2 DEF ChangeAndSync, ChangeOnly, Restart
<1>3. ASSUME NEW r \in Runs, RunStep(r) PROVE AllActive'
  <2>1. UNCHANGED active /\ (UNCHANGED faults \/ Fault)
    BY <1>3 DEF RunStep, FireDebounce, StartRotation, NextBatch, EndRun, SyncOneNode,
                AgentTimeout, SshEnds
  <2> QED BY <1>1, <2>1
<1>4. ASSUME NEW n \in Nodes, NodeStep(n) PROVE AllActive'
  <2>1. CASE AgentApplies(n) \/ AgentDrops(n) \/ AgentReturns(n)
    BY <1>1, <2>1 DEF AgentApplies, AgentDrops, AgentReturns
  <2>2. CASE NodeDown(n)
    BY <2>2, <1>0 DEF NodeDown, Fault, AllActive
  <2>3. CASE NodeUp(n)
    BY <2>3 DEF NodeUp, AllActive, Types
  <2> QED BY <1>4, <2>1, <2>2, <2>3 DEF NodeStep
<1>5. CASE UNCHANGED vars
  BY <1>5 DEF vars, AllActive
<1> QED BY <1>2, <1>3, <1>4, <1>5 DEF Next

----------------------------------------------------------------------------
\* Every push a run makes has read the table at or after the calls it answers.
LEMMA CoveredStep ==
  Types /\ Asked /\ ResolvedCallerIsCovered /\ [Next]_vars => ResolvedCallerIsCovered'
<1> SUFFICES ASSUME Types, Asked, ResolvedCallerIsCovered, [Next]_vars
             PROVE  ResolvedCallerIsCovered'
  OBVIOUS
<1>t. /\ run \in [Runs -> RunStates] /\ push \in [Runs -> [Nodes -> PushStates]]
      /\ ver \in Nat
  BY BoundsAssumption DEF Types
<1>c. \A r \in Runs, n \in Nodes : \A v \in run[r].callers :
        push[r][n].ph # "none" => push[r][n].v >= v
  BY DEF ResolvedCallerIsCovered
<1>k. ASSUME UNCHANGED run,
             \A r \in Runs, n \in Nodes :
               /\ push'[r][n].v = push[r][n].v
               /\ push'[r][n].ph # "none" => push[r][n].ph # "none"
      PROVE  ResolvedCallerIsCovered'
  BY <1>k, <1>c DEF ResolvedCallerIsCovered
<1>s. ASSUME NEW r \in Runs, NEW N, NEW limit, NEW callers, NEW v,
             StartRun(r, N, limit, callers, v), \A c \in callers : v >= c
      PROVE  ResolvedCallerIsCovered'
  <2>1. PICK b : /\ run' = [run EXCEPT ![r] = [st |-> "running", limit |-> limit,
                                               todo |-> N \ b, callers |-> callers]]
                 /\ StartPushes(r, b, v)
    BY <1>s DEF StartRun
  <2>2. run'[r].callers = callers /\ \A q \in Runs \ {r} : run'[q] = run[q]
    BY <1>t, <2>1
  <2>3. \A q \in Runs \ {r} : push'[q] = push[q]
    BY <1>t, <2>1 DEF StartPushes
  <2>4. \A n \in Nodes : push'[r][n].ph # "none" => push'[r][n].v = v
    BY <1>t, <2>1 DEF StartPushes, NoPush
  <2> SUFFICES ASSUME NEW q \in Runs, NEW n \in Nodes, NEW c \in run'[q].callers,
                      push'[q][n].ph # "none"
               PROVE  push'[q][n].v >= c
    BY DEF ResolvedCallerIsCovered
  <2>5. CASE q = r
    BY <1>s, <2>2, <2>4, <2>5
  <2>6. CASE q # r
    BY <1>c, <2>2, <2>3, <2>6
  <2> QED BY <2>5, <2>6
<1>1. CASE ChangeAndSync \/ ChangeOnly
  BY <1>1, <1>k DEF ChangeAndSync, ChangeOnly
<1>2. CASE Restart
  BY <1>2 DEF Restart, Idle, ResolvedCallerIsCovered
<1>3. ASSUME NEW r \in Runs, RunStep(r) PROVE ResolvedCallerIsCovered'
  <2>1. CASE FireDebounce(r)
    <3>1. StartRun(r, ActiveNodes, Concurrency, waiting, ver) /\ \A c \in waiting : ver >= c
      BY <1>t, <2>1 DEF FireDebounce, Asked, Types
    <3> QED BY <1>s, <3>1
  <2>2. CASE StartRotation(r)
    <3>1. PICK v : StartRun(r, ActiveNodes \ Manual, 1, {}, v)
      BY <2>2 DEF StartRotation
    <3> QED BY <1>s, <3>1
  <2>3. CASE NextBatch(r)
    <3>1. /\ StartRun(r, run[r].todo, run[r].limit, run[r].callers, ver)
          /\ \A c \in run[r].callers : ver >= c
      BY <1>t, <2>3 DEF NextBatch, Asked, RunStates
    <3> QED BY <1>s, <3>1
  <2>4. CASE EndRun(r)
    <3>1. run'[r].callers = {} /\ \A q \in Runs \ {r} : run'[q] = run[q] /\ push'[q] = push[q]
      BY <1>t, <2>4 DEF EndRun, Idle
    <3> QED BY <1>c, <3>1 DEF ResolvedCallerIsCovered
  <2>5. ASSUME NEW n \in Nodes, SyncOneNode(r, n) PROVE ResolvedCallerIsCovered'
    <3>1. StartRun(r, {n}, 1, {}, ver + 1)
      BY <2>5 DEF SyncOneNode
    <3> QED BY <1>s, <3>1
  <2>6. ASSUME NEW n \in Nodes, AgentTimeout(r, n) \/ SshEnds(r, n)
        PROVE  ResolvedCallerIsCovered'
    <3>1. UNCHANGED run /\ push[r][n].ph # "none"
      BY <2>6 DEF AgentTimeout, SshEnds
    <3>2. \A q \in Runs, m \in Nodes :
            /\ push'[q][m].v = push[q][m].v
            /\ push'[q][m].ph # "none" => push[q][m].ph # "none"
      <4>1. \/ push' = [push EXCEPT ![r][n].ph = "ssh"]
            \/ push' = [push EXCEPT ![r][n].ph = "done"]
        BY <2>6 DEF AgentTimeout, SshEnds
      <4>2. push \in [Runs -> [Nodes -> PushStates]]
        BY <1>t
      <4>3. CASE push' = [push EXCEPT ![r][n].ph = "ssh"]
        BY <3>1, <4>2, <4>3, PhaseKeeps
      <4>4. CASE push' = [push EXCEPT ![r][n].ph = "done"]
        BY <3>1, <4>2, <4>4, PhaseKeeps
      <4> QED BY <4>1, <4>3, <4>4
    <3> QED BY <1>k, <3>1, <3>2
  <2> QED BY <1>3, <2>1, <2>2, <2>3, <2>4, <2>5, <2>6 DEF RunStep
<1>4. ASSUME NEW n \in Nodes, NodeStep(n) PROVE ResolvedCallerIsCovered'
  <2>1. CASE AgentApplies(n)
    <3>1. UNCHANGED run
      BY <2>1 DEF AgentApplies
    <3>2. \/ push' = push
          \/ /\ push[Head(inbox[n]).run][n].ph = "agent"
             /\ push' = [push EXCEPT ![Head(inbox[n]).run][n].ph = "done"]
      BY <2>1 DEF AgentApplies
    <3>3. Head(inbox[n]).run \in Runs
      <4>1. Head(inbox[n]) \in Commands
        BY <2>1, HeadTailProperties DEF AgentApplies, Types
      <4> QED BY <4>1 DEF Commands
    <3>4. push[Head(inbox[n]).run][n].ph = "agent" => push[Head(inbox[n]).run][n].ph # "none"
      OBVIOUS
    <3>5. \A q \in Runs, m \in Nodes :
            /\ push'[q][m].v = push[q][m].v
            /\ push'[q][m].ph # "none" => push[q][m].ph # "none"
      <4>1. push \in [Runs -> [Nodes -> PushStates]]
        BY <1>t
      <4>2. CASE push' = push
        BY <4>2
      <4>3. CASE /\ push[Head(inbox[n]).run][n].ph = "agent"
                 /\ push' = [push EXCEPT ![Head(inbox[n]).run][n].ph = "done"]
        BY <3>3, <3>4, <4>1, <4>3, PhaseKeeps
      <4> QED BY <3>2, <4>2, <4>3
    <3> QED BY <1>k, <3>1, <3>5
  <2>2. CASE AgentDrops(n)
    <3>1. UNCHANGED run
      BY <2>2 DEF AgentDrops
    <3>2. \A q \in Runs, m \in Nodes :
            /\ push'[q][m].v = push[q][m].v
            /\ push'[q][m].ph # "none" => push[q][m].ph # "none"
      BY <1>t, <2>2 DEF AgentDrops, PushStates
    <3> QED BY <1>k, <3>1, <3>2
  <2>3. CASE AgentReturns(n) \/ NodeDown(n) \/ NodeUp(n)
    BY <2>3, <1>k DEF AgentReturns, NodeDown, NodeUp
  <2> QED BY <1>4, <2>1, <2>2, <2>3 DEF NodeStep
<1>5. CASE UNCHANGED vars
  BY <1>5, <1>k DEF vars
<1> QED BY <1>1, <1>2, <1>3, <1>4, <1>5 DEF Next

----------------------------------------------------------------------------
\* What NoCallForgotten says of one node.
Remembered(n) ==
  \/ attempted[n] >= syncedVer
  \/ timer
  \/ \E r \in Runs : run[r].st = "running" /\ n \in run[r].todo

\* A run over some nodes serves a node at once or keeps it for a later batch.
LEMMA StartRemembers ==
  ASSUME Types, Asked, NEW r \in Runs, NEW N \in SUBSET Nodes, NEW limit,
         NEW callers, NEW v \in Nat, StartRun(r, N, limit, callers, v),
         v >= ver, UNCHANGED syncedVer, NEW n \in N
  PROVE  Remembered(n)'
<1>1. PICK b \in Batches(N, limit) :
        /\ run' = [run EXCEPT ![r] = [st |-> "running", limit |-> limit,
                                      todo |-> N \ b, callers |-> callers]]
        /\ StartPushes(r, b, v)
  BY DEF StartRun
<1>t. ver \in Nat /\ syncedVer \in Nat /\ attempted[n] \in Nat /\ syncedVer <= ver
  BY BoundsAssumption DEF Types, Asked
<1>2. CASE n \in b
  <2>1. attempted'[n] = MaxOf(attempted[n], v)
    BY <1>1, <1>2 DEF StartPushes
  <2>2. attempted'[n] >= v
    BY <1>t, <2>1 DEF MaxOf
  <2>3. attempted'[n] \in Nat
    BY <1>t, <2>1 DEF MaxOf
  <2> QED BY <1>t, <2>2, <2>3 DEF Remembered
<1>3. CASE n \notin b
  <2>1. run'[r].st = "running" /\ n \in run'[r].todo
    BY <1>1, <1>3 DEF Types
  <2> QED BY <2>1 DEF Remembered
<1> QED BY <1>2, <1>3

\* A run in a slot that was free, or that had nothing left to read, takes away
\* nothing from a node it does not read.
LEMMA OthersRemember ==
  ASSUME Types, NEW n \in Nodes, Remembered(n), NEW r \in Runs,
         run[r].st = "idle" \/ n \notin run[r].todo,
         \A q \in Runs \ {r} : run'[q] = run[q],
         UNCHANGED <<syncedVer, timer>>, attempted'[n] >= attempted[n], attempted'[n] \in Nat
  PROVE  Remembered(n)'
<1>t. syncedVer \in Nat /\ attempted[n] \in Nat
  BY BoundsAssumption DEF Types
<1>1. CASE attempted[n] >= syncedVer
  BY <1>t, <1>1 DEF Remembered
<1>2. CASE timer
  BY <1>2 DEF Remembered
<1>3. ASSUME NEW q \in Runs, run[q].st = "running" /\ n \in run[q].todo PROVE Remembered(n)'
  <2>1. q # r
    BY <1>3
  <2>2. run'[q].st = "running" /\ n \in run'[q].todo
    BY <1>3, <2>1
  <2> QED BY <2>2 DEF Remembered
<1> QED BY <1>1, <1>2, <1>3 DEF Remembered

\* The start of a run only raises what has been attempted.
LEMMA StartRaises ==
  ASSUME Types, NEW r \in Runs, NEW N, NEW limit, NEW callers, NEW v \in Nat,
         StartRun(r, N, limit, callers, v), NEW n \in Nodes
  PROVE  /\ attempted'[n] >= attempted[n] /\ attempted'[n] \in Nat
         /\ \A q \in Runs \ {r} : run'[q] = run[q]
<1>1. PICK b : /\ run' = [run EXCEPT ![r] = [st |-> "running", limit |-> limit,
                                            todo |-> N \ b, callers |-> callers]]
               /\ StartPushes(r, b, v)
  BY DEF StartRun
<1>2. attempted[n] \in Nat
  BY BoundsAssumption DEF Types
<1>3. attempted'[n] = IF n \in b THEN MaxOf(attempted[n], v) ELSE attempted[n]
  BY <1>1 DEF StartPushes
<1>4. \A q \in Runs \ {r} : run'[q] = run[q]
  BY <1>1 DEF Types
<1> QED BY <1>2, <1>3, <1>4 DEF MaxOf

\* Until every node has got a version at least as new as the last one asked
\* for, a timer or a run remembers it, as long as nothing failed.
LEMMA ForgottenStep ==
  Types /\ Asked /\ AllActive /\ NoCallForgotten /\ [Next]_vars => NoCallForgotten'
<1> SUFFICES ASSUME Types, Asked, AllActive, NoCallForgotten, [Next]_vars, faults' = 0,
                    NEW n \in Nodes
             PROVE  Remembered(n)'
  BY DEF NoCallForgotten, Remembered
<1>0. ASSUME ~Fault, faults' = faults PROVE Remembered(n) /\ active[n]
  BY <1>0 DEF NoCallForgotten, Remembered, AllActive
<1>f. ~Fault
  BY BoundsAssumption DEF Fault, Types
<1>v. ver \in Nat /\ ver + 1 \in Nat /\ attempted[n] \in Nat
  BY BoundsAssumption DEF Types
<1>k. ASSUME UNCHANGED <<faults, syncedVer, timer, run, attempted>> PROVE Remembered(n)'
  BY <1>0, <1>f, <1>k DEF Remembered
<1>1. CASE ChangeAndSync
  BY <1>1 DEF ChangeAndSync, Remembered
<1>2. CASE ChangeOnly
  BY <1>2, <1>k DEF ChangeOnly
<1>3. CASE Restart
  BY <1>3, <1>f DEF Restart
<1>4. ASSUME NEW r \in Runs, RunStep(r) PROVE Remembered(n)'
  <2>1. CASE FireDebounce(r)
    <3>1. StartRun(r, ActiveNodes, Concurrency, waiting, ver) /\ UNCHANGED <<syncedVer, faults>>
      BY <2>1 DEF FireDebounce
    <3>2. n \in ActiveNodes
      BY <1>0, <1>f, <3>1 DEF ActiveNodes
    <3>3. ActiveNodes \in SUBSET Nodes /\ ver >= ver
      BY <1>v DEF ActiveNodes
    <3> QED BY <1>v, <3>1, <3>2, <3>3, StartRemembers
  <2>2. CASE StartRotation(r)
    <3>1. PICK v \in {ver, ver + 1} : StartRun(r, ActiveNodes \ Manual, 1, {}, v)
      BY <2>2 DEF StartRotation
    <3>2. UNCHANGED <<syncedVer, faults, timer>> /\ run[r].st = "idle"
      BY <2>2 DEF StartRotation, Free
    <3>3. v \in Nat
      BY <1>v
    <3>4. /\ attempted'[n] >= attempted[n] /\ attempted'[n] \in Nat
          /\ \A q \in Runs \ {r} : run'[q] = run[q]
      BY <3>1, <3>3, StartRaises
    <3> QED BY <1>0, <1>f, <3>2, <3>4, OthersRemember
  <2>3. CASE NextBatch(r)
    <3>1. /\ StartRun(r, run[r].todo, run[r].limit, run[r].callers, ver)
          /\ UNCHANGED <<syncedVer, faults, timer>>
      BY <2>3 DEF NextBatch
    <3>2. CASE n \in run[r].todo
      <4>1. run[r].todo \in SUBSET Nodes /\ ver >= ver
        BY <1>v DEF Types, RunStates
      <4> QED BY <1>v, <3>1, <3>2, <4>1, StartRemembers
    <3>3. CASE n \notin run[r].todo
      <4>1. /\ attempted'[n] >= attempted[n] /\ attempted'[n] \in Nat
            /\ \A q \in Runs \ {r} : run'[q] = run[q]
        BY <1>v, <3>1, StartRaises
      <4> QED BY <1>0, <1>f, <3>1, <3>3, <4>1, OthersRemember
    <3> QED BY <3>2, <3>3
  <2>4. CASE EndRun(r)
    <3>1. /\ n \notin run[r].todo
          /\ \A q \in Runs \ {r} : run'[q] = run[q]
          /\ UNCHANGED <<syncedVer, faults, timer, attempted>>
      BY <2>4 DEF EndRun, Types
    <3>2. attempted'[n] >= attempted[n] /\ attempted'[n] \in Nat
      BY <1>v, <3>1
    <3> QED BY <1>0, <1>f, <3>1, <3>2, OthersRemember
  <2>5. ASSUME NEW m \in Nodes, SyncOneNode(r, m) PROVE Remembered(n)'
    <3>1. /\ StartRun(r, {m}, 1, {}, ver + 1)
          /\ UNCHANGED <<syncedVer, faults, timer>>
          /\ run[r].st = "idle"
      BY <2>5 DEF SyncOneNode, Free
    <3>2. /\ attempted'[n] >= attempted[n] /\ attempted'[n] \in Nat
          /\ \A q \in Runs \ {r} : run'[q] = run[q]
      BY <1>v, <3>1, StartRaises
    <3> QED BY <1>0, <1>f, <3>1, <3>2, OthersRemember
  <2>6. ASSUME NEW m \in Nodes, AgentTimeout(r, m) \/ SshEnds(r, m) PROVE Remembered(n)'
    BY <2>6, <1>f, <1>k DEF AgentTimeout, SshEnds
  <2> QED BY <1>4, <2>1, <2>2, <2>3, <2>4, <2>5, <2>6 DEF RunStep
<1>5. ASSUME NEW m \in Nodes, NodeStep(m) PROVE Remembered(n)'
  BY <1>5, <1>f, <1>k DEF NodeStep, AgentApplies, AgentDrops, AgentReturns, NodeDown, NodeUp
<1>6. CASE UNCHANGED vars
  BY <1>6, <1>k DEF vars
<1> QED BY <1>1, <1>2, <1>3, <1>4, <1>5, <1>6 DEF Next

----------------------------------------------------------------------------
LEMMA SpecKeeps == Spec => []SyncInv
<1>1. Init => SyncInv
  <2> SUFFICES ASSUME Init PROVE SyncInv
    OBVIOUS
  <2>1. Idle \in RunStates /\ NoPush \in PushStates /\ <<>> \in Seq(Commands)
    BY BoundsAssumption DEF Idle, RunStates, NoPush, PushStates
  <2>2. Types
    <3>1. /\ run \in [Runs -> RunStates] /\ push \in [Runs -> [Nodes -> PushStates]]
          /\ inbox \in [Nodes -> Seq(Commands)]
      BY <2>1 DEF Init
    <3>2. 0 \in 0..MaxVer /\ 0 \in 0..MaxFaults
      BY BoundsAssumption
    <3> QED BY <3>1, <3>2 DEF Init, Types
  <2>3. Asked /\ AllActive /\ ResolvedCallerIsCovered /\ NoCallForgotten
    BY DEF Init, Asked, AllActive, ResolvedCallerIsCovered, NoCallForgotten, Idle, NoPush
  <2> QED BY <2>2, <2>3 DEF SyncInv
<1>2. SyncInv /\ [Next]_vars => SyncInv'
  BY TypeStep, AskedStep, ActiveStep, CoveredStep, ForgottenStep DEF SyncInv
<1> QED BY <1>1, <1>2, PTL DEF Spec

\* Whoever asks for a synchronisation is served by a run that read the table
\* after the question and, while nothing fails, is not forgotten, however many
\* synchronisations overlap (deploy.js:469-506).
THEOREM CallersServed == Spec => []CallersAreServed
<1>1. SyncInv => CallersAreServed
  <2>1. Types => TypeOK
    <3> SUFFICES ASSUME Types PROVE TypeOK
      OBVIOUS
    <3>1. \A n \in Nodes : \A i \in 1..Len(inbox[n]) : inbox[n][i] \in Commands
      BY ElementOfSeq DEF Types
    <3> QED BY <3>1 DEF Types, TypeOK, Commands, RunStates, PushStates
  <2> QED BY <2>1 DEF SyncInv, CallersAreServed
<1> QED BY <1>1, SpecKeeps, PTL

----------------------------------------------------------------------------
(***************************************************************************)
(* The calm mood: no faults, every agent connected.  A push is under way   *)
(* to an agent exactly while its command is in the inbox, so no timeout    *)
(* sends an older configuration by SSH past it; a run has one command at a *)
(* time with a node, and the commands of an inbox are as old as the order  *)
(* in which they were sent.                                                *)
(***************************************************************************)
HasCommand(r, n) == \E i \in 1..Len(inbox[n]) : inbox[n][i].run = r

InOrder(n) ==
  \A i, j \in 1..Len(inbox[n]) :
    i < j => inbox[n][i].v <= inbox[n][j].v /\ inbox[n][i].run # inbox[n][j].run

Between(n) ==
  /\ deployed[n] <= ver
  /\ \A i \in 1..Len(inbox[n]) : deployed[n] <= inbox[n][i].v /\ inbox[n][i].v <= ver

ByAgent(n) ==
  /\ online[n]
  /\ \A r \in Runs : push[r][n].ph # "ssh" /\ (push[r][n].ph = "agent" <=> HasCommand(r, n))

Quiet == faults = 0 /\ \A n \in Nodes : InOrder(n) /\ Between(n) /\ ByAgent(n)

CalmInv == calm => Quiet

\* What an inbox holds.
LEMMA InboxHolds ==
  ASSUME Types, NEW n \in Nodes
  PROVE  /\ inbox[n] \in Seq(Commands)
         /\ \A i \in 1..Len(inbox[n]) : inbox[n][i] \in Commands /\ inbox[n][i].v \in Int
<1>1. inbox[n] \in Seq(Commands)
  BY DEF Types
<1>2. \A i \in 1..Len(inbox[n]) : inbox[n][i] \in Commands
  BY <1>1, ElementOfSeq
<1> QED BY <1>1, <1>2, BoundsAssumption DEF Commands

\* What Quiet says of a node depends on its inbox, its pushes, its link and the
\* versions, of which that of the table only grows.
LEMMA QuietKept ==
  ASSUME Types, Quiet, Types', NEW n \in Nodes,
         inbox'[n] = inbox[n], deployed'[n] = deployed[n], online'[n] = online[n],
         \A r \in Runs : push'[r][n].ph = push[r][n].ph, ver' >= ver
  PROVE  InOrder(n)' /\ Between(n)' /\ ByAgent(n)'
<1>1. InOrder(n) /\ Between(n) /\ ByAgent(n)
  BY DEF Quiet
<1>2. InOrder(n)'
  BY <1>1 DEF InOrder
<1>3. Between(n)'
  <2>1. ver \in Int /\ ver' \in Int /\ deployed[n] \in Int
    BY BoundsAssumption DEF Types
  <2>2. \A i \in 1..Len(inbox[n]) : inbox[n][i].v \in Int
    BY InboxHolds
  <2> QED BY <1>1, <2>1, <2>2 DEF Between
<1>4. ByAgent(n)'
  BY <1>1 DEF ByAgent, HasCommand
<1> QED BY <1>2, <1>3, <1>4

\* A run that has nothing under way sends its next batch.
LEMMA QuietStart ==
  ASSUME Types, Quiet, Types', NEW r \in Runs, NEW N, NEW limit, NEW callers,
         NEW v \in Nat, v >= ver, ver' = v, StartRun(r, N, limit, callers, v),
         \A n \in Nodes : push[r][n].ph # "agent",
         UNCHANGED <<deployed, online, faults>>
  PROVE  Quiet'
<1>1. PICK b \in Batches(N, limit) : StartPushes(r, b, v)
  BY DEF StartRun
<1>2. SUFFICES ASSUME NEW n \in Nodes PROVE InOrder(n)' /\ Between(n)' /\ ByAgent(n)'
  BY DEF Quiet
<1>3. InOrder(n) /\ Between(n) /\ ByAgent(n)
  BY DEF Quiet
<1>4. \A q \in Runs \ {r} : push'[q] = push[q]
  BY <1>1 DEF StartPushes, Types
<1>5. push'[r][n] = IF n \in b THEN [ph |-> "agent", v |-> v] ELSE NoPush
  BY <1>1, <1>3 DEF StartPushes, Types, ByAgent
<1>6. ~HasCommand(r, n)
  BY <1>3 DEF ByAgent
<1>7. /\ ver \in Int /\ v \in Int /\ deployed[n] \in Int /\ inbox[n] \in Seq(Commands)
      /\ \A i \in 1..Len(inbox[n]) : inbox[n][i].v \in Int
  <2>1. ver \in Int /\ v \in Int /\ deployed[n] \in Int
    BY BoundsAssumption DEF Types
  <2> QED BY <2>1, InboxHolds
<1>8. CASE n \notin b
  <2>1. inbox'[n] = inbox[n]
    BY <1>1, <1>8 DEF StartPushes
  <2>2. InOrder(n)'
    BY <1>3, <2>1 DEF InOrder
  <2>3. Between(n)'
    BY <1>3, <1>7, <2>1 DEF Between
  <2>4. ByAgent(n)'
    BY <1>3, <1>4, <1>5, <1>6, <1>8, <2>1 DEF ByAgent, HasCommand, NoPush
  <2> QED BY <2>2, <2>3, <2>4
<1>9. CASE n \in b
  <2>1. inbox'[n] = Append(inbox[n], [run |-> r, v |-> v])
    BY <1>1, <1>3, <1>9 DEF StartPushes, ByAgent
  <2>2. /\ Len(inbox'[n]) = Len(inbox[n]) + 1 /\ Len(inbox[n]) \in Nat
        /\ \A i \in 1..Len(inbox[n]) : inbox'[n][i] = inbox[n][i]
        /\ inbox'[n][Len(inbox[n]) + 1] = [run |-> r, v |-> v]
    <3>1. [run |-> r, v |-> v] \in Commands
      BY BoundsAssumption DEF Commands, Types
    <3> QED BY <2>1, <3>1, <1>7, AppendProperties, LenProperties
  <2>3. \A i \in 1..Len(inbox'[n]) : i \in 1..Len(inbox[n]) \/ i = Len(inbox[n]) + 1
    BY <2>2
  <2>4. InOrder(n)'
    <3> SUFFICES ASSUME NEW i \in 1..Len(inbox'[n]), NEW j \in 1..Len(inbox'[n]), i < j
                 PROVE  inbox'[n][i].v <= inbox'[n][j].v /\ inbox'[n][i].run # inbox'[n][j].run
      BY DEF InOrder
    <3>1. i \in 1..Len(inbox[n]) /\ inbox'[n][i] = inbox[n][i]
      BY <2>2
    <3>2. CASE j \in 1..Len(inbox[n])
      BY <1>3, <2>2, <3>1, <3>2 DEF InOrder
    <3>3. CASE j = Len(inbox[n]) + 1
      <4>1. inbox'[n][j] = [run |-> r, v |-> v]
        BY <2>2, <3>3
      <4>2. inbox[n][i].v <= v
        BY <1>3, <1>7, <3>1 DEF Between
      <4>3. inbox[n][i].run # r
        BY <1>6, <3>1 DEF HasCommand
      <4> QED BY <3>1, <4>1, <4>2, <4>3
    <3> QED BY <2>3, <3>2, <3>3
  <2>5. Between(n)'
    <3>1. deployed'[n] <= ver'
      BY <1>3, <1>7 DEF Between
    <3>2. ASSUME NEW i \in 1..Len(inbox'[n])
          PROVE  deployed'[n] <= inbox'[n][i].v /\ inbox'[n][i].v <= ver'
      <4>1. CASE i \in 1..Len(inbox[n])
        BY <1>3, <1>7, <2>2, <4>1 DEF Between
      <4>2. CASE i = Len(inbox[n]) + 1
        BY <2>2, <3>1, <4>2, <1>7
      <4> QED BY <2>3, <4>1, <4>2
    <3> QED BY <3>1, <3>2 DEF Between
  <2>6. ByAgent(n)'
    <3>1. push'[r][n].ph = "agent"
      BY <1>5, <1>9
    <3>2. HasCommand(r, n)'
      BY <2>2 DEF HasCommand
    <3>3. ASSUME NEW q \in Runs \ {r} PROVE HasCommand(q, n)' <=> HasCommand(q, n)
      BY <2>2, <2>3 DEF HasCommand
    <3> QED BY <1>3, <1>4, <3>1, <3>2, <3>3 DEF ByAgent
  <2> QED BY <2>4, <2>5, <2>6
<1> QED BY <1>8, <1>9

\* An agent executes the oldest command it has.
LEMMA QuietApplies ==
  ASSUME Types, Quiet, Types', NEW n \in Nodes, AgentApplies(n), faults' = 0
  PROVE  Quiet' /\ NoStepBack
<1>1. PICK m : m = Head(inbox[n])
  OBVIOUS
<1>2. inbox[n] # <<>> /\ inbox[n] \in Seq(Commands)
  BY DEF AgentApplies, Types
<1>3. /\ Len(inbox[n]) \in Nat \ {0} /\ m = inbox[n][1] /\ m \in Commands
      /\ Len(Tail(inbox[n])) = Len(inbox[n]) - 1
      /\ \A i \in 1..Len(Tail(inbox[n])) : Tail(inbox[n])[i] = inbox[n][i + 1]
  BY <1>1, <1>2, HeadTailProperties, EmptySeq, LenProperties, ElementOfSeq
<1>4. m.run \in Runs /\ m.v \in Int
  BY <1>3, BoundsAssumption DEF Commands
<1>5. InOrder(n) /\ Between(n) /\ ByAgent(n) /\ HasCommand(m.run, n)
  BY <1>3 DEF Quiet, HasCommand
<1>6. push[m.run][n].ph = "agent"
  BY <1>4, <1>5 DEF ByAgent
<1>7. /\ inbox' = [inbox EXCEPT ![n] = Tail(@)] /\ deployed' = [deployed EXCEPT ![n] = m.v]
      /\ UNCHANGED <<ver, online>>
  BY <1>1 DEF AgentApplies
<1>8. push' = [push EXCEPT ![m.run][n].ph = "done"] /\ UNCHANGED faults
  <2>1. ~Fault
    BY DEF Fault, Quiet
  <2> QED BY <1>1, <1>6, <2>1 DEF AgentApplies
<1>9. inbox'[n] = Tail(inbox[n]) /\ deployed'[n] = m.v
  BY <1>7 DEF Types
<1>10. /\ push'[m.run][n].ph = "done"
       /\ \A r \in Runs : r # m.run => push'[r][n].ph = push[r][n].ph
       /\ \A k \in Nodes : k # n => \A r \in Runs : push'[r][k].ph = push[r][k].ph
  <2>1. PICK e : e = [push[m.run] EXCEPT ![n].ph = "done"]
    OBVIOUS
  <2>2. push' = [push EXCEPT ![m.run] = e]
    BY <1>8, <2>1
  <2>3. e[n].ph = "done" /\ \A k \in Nodes : k # n => e[k] = push[m.run][k]
    <3>1. push[m.run] \in [Nodes -> PushStates] /\ push[m.run][n] \in PushStates
      BY <1>4 DEF Types
    <3>2. e = [push[m.run] EXCEPT ![n] = [push[m.run][n] EXCEPT !.ph = "done"]]
      BY <2>1
    <3>3. e[n] = [push[m.run][n] EXCEPT !.ph = "done"]
      BY <3>1, <3>2
    <3> QED BY <3>1, <3>2, <3>3 DEF PushStates
  <2> QED BY <1>4, <2>2, <2>3 DEF Types
<1>11. ASSUME NEW k \in Nodes, k # n
       PROVE  InOrder(k)' /\ Between(k)' /\ ByAgent(k)' /\ deployed'[k] = deployed[k]
  <2>1. inbox'[k] = inbox[k] /\ deployed'[k] = deployed[k] /\ online'[k] = online[k]
    BY <1>7, <1>11 DEF Types
  <2>2. ver' >= ver
    BY <1>7, BoundsAssumption DEF Types
  <2> QED BY <1>10, <1>11, <2>1, <2>2, QuietKept
<1>12. \A i \in 1..Len(inbox'[n]) : i + 1 \in 1..Len(inbox[n]) /\ inbox'[n][i] = inbox[n][i + 1]
  BY <1>3, <1>9
<1>13. InOrder(n)'
  <2> SUFFICES ASSUME NEW i \in 1..Len(inbox'[n]), NEW j \in 1..Len(inbox'[n]), i < j
               PROVE  inbox'[n][i].v <= inbox'[n][j].v /\ inbox'[n][i].run # inbox'[n][j].run
    BY DEF InOrder
  <2>1. i + 1 \in 1..Len(inbox[n]) /\ j + 1 \in 1..Len(inbox[n]) /\ i + 1 < j + 1
    BY <1>12
  <2> QED BY <1>5, <1>12, <2>1 DEF InOrder
<1>14. Between(n)' /\ deployed'[n] >= deployed[n]
  <2>1. ASSUME NEW i \in 1..Len(inbox'[n])
        PROVE  m.v <= inbox'[n][i].v /\ inbox'[n][i].v <= ver
    <3>1. 1 \in 1..Len(inbox[n]) /\ i + 1 \in 1..Len(inbox[n]) /\ 1 < i + 1
      BY <1>3, <1>12
    <3> QED BY <1>3, <1>5, <1>12, <3>1 DEF InOrder, Between
  <2>2. deployed[n] <= m.v /\ m.v <= ver
    BY <1>3, <1>5 DEF Between
  <2>3. deployed[n] \in Int
    BY BoundsAssumption DEF Types
  <2> QED BY <1>4, <1>7, <1>9, <2>1, <2>2, <2>3 DEF Between
<1>15. ByAgent(n)'
  <2>1. ~HasCommand(m.run, n)'
    <3> SUFFICES ASSUME NEW i \in 1..Len(inbox'[n]) PROVE inbox'[n][i].run # m.run
      BY DEF HasCommand
    <3>1. 1 \in 1..Len(inbox[n]) /\ i + 1 \in 1..Len(inbox[n]) /\ 1 < i + 1
      BY <1>3, <1>12
    <3> QED BY <1>3, <1>5, <1>12, <3>1 DEF InOrder
  <2>2. ASSUME NEW r \in Runs, r # m.run PROVE HasCommand(r, n)' <=> HasCommand(r, n)
    <3>1. ASSUME NEW i \in 1..Len(inbox[n]), inbox[n][i].run = r
          PROVE  i - 1 \in 1..Len(inbox'[n]) /\ inbox'[n][i - 1] = inbox[n][i]
      <4>1. i # 1
        BY <1>3, <2>2, <3>1
      <4>2. i - 1 \in 1..Len(inbox'[n]) /\ (i - 1) + 1 = i
        BY <1>3, <1>9, <4>1
      <4> QED BY <1>12, <4>2
    <3> QED BY <1>12, <3>1 DEF HasCommand
  <2> QED BY <1>5, <1>7, <1>10, <2>1, <2>2 DEF ByAgent
<1>16. Quiet'
  BY <1>8, <1>11, <1>13, <1>14, <1>15 DEF Quiet
<1>17. NoStepBack
  <2>1. \A k \in Nodes : deployed[k] \in Int
    BY BoundsAssumption DEF Types
  <2> QED BY <1>11, <1>14, <2>1 DEF NoStepBack
<1> QED BY <1>16, <1>17

LEMMA CalmStep ==
  Types /\ Types' /\ CalmInv /\ [AllNext]_<<vars, calm>> => CalmInv' /\ (calm => NoStepBack)
<1> SUFFICES ASSUME Types, Types', CalmInv, [AllNext]_<<vars, calm>>, calm
             PROVE  Quiet' /\ NoStepBack
  BY DEF CalmInv, AllNext
<1>1. Quiet
  BY DEF CalmInv
<1>2. [Next]_vars /\ faults' = 0
  BY <1>1 DEF AllNext, Quiet, vars
<1>3. ~Fault
  BY <1>1, <1>2 DEF Fault, Quiet
<1>t. /\ ver \in Nat /\ ver' \in Nat
      /\ \A n \in Nodes : deployed[n] \in Int
  BY BoundsAssumption DEF Types
<1>k. ASSUME UNCHANGED <<inbox, deployed, online, push>>, ver' >= ver PROVE Quiet' /\ NoStepBack
  <2>1. \A n \in Nodes : InOrder(n)' /\ Between(n)' /\ ByAgent(n)'
    BY <1>1, <1>k, QuietKept
  <2> QED BY <1>2, <1>t, <1>k, <2>1 DEF Quiet, NoStepBack
<1>u. ASSUME UNCHANGED deployed PROVE NoStepBack
  BY <1>t, <1>u DEF NoStepBack
<1>4. CASE ChangeAndSync
  BY <1>4, <1>k, <1>t DEF ChangeAndSync
<1>5. CASE ChangeOnly
  BY <1>5, <1>k, <1>t DEF ChangeOnly
<1>6. CASE Restart
  BY <1>3, <1>6 DEF Restart
<1>7. ASSUME NEW r \in Runs, RunStep(r) PROVE Quiet' /\ NoStepBack
  <2>f. Free(r) => \A n \in Nodes : push[r][n].ph # "agent"
    BY <1>1 DEF Free, Quiet, ByAgent, HasCommand
  <2>1. CASE FireDebounce(r)
    <3>1. Quiet'
      BY <1>1, <1>t, <2>1, <2>f, QuietStart DEF FireDebounce
    <3> QED BY <2>1, <3>1, <1>u DEF FireDebounce
  <2>2. CASE StartRotation(r)
    <3>1. PICK v \in {ver, ver + 1} \cap 0..MaxVer : ver' = v /\ StartRun(r, ActiveNodes \ Manual, 1, {}, v)
      BY <2>2 DEF StartRotation
    <3>2. v \in Nat /\ v >= ver
      BY <1>t, <3>1
    <3>3. Quiet'
      BY <1>1, <2>2, <2>f, <3>1, <3>2, QuietStart DEF StartRotation
    <3> QED BY <2>2, <3>3, <1>u DEF StartRotation
  <2>3. CASE NextBatch(r)
    <3>1. \A n \in Nodes : push[r][n].ph # "agent"
      BY <2>3 DEF NextBatch, Busy, InFlight
    <3>2. Quiet'
      BY <1>1, <1>t, <2>3, <3>1, QuietStart DEF NextBatch
    <3> QED BY <2>3, <3>2, <1>u DEF NextBatch
  <2>4. CASE EndRun(r)
    <3>1. \A n \in Nodes : push[r][n].ph # "agent"
      BY <2>4 DEF EndRun, Busy, InFlight
    <3>2. ASSUME NEW n \in Nodes PROVE InOrder(n)' /\ Between(n)' /\ ByAgent(n)'
      <4>1. InOrder(n) /\ Between(n) /\ ByAgent(n)
        BY <1>1 DEF Quiet
      <4>2. InOrder(n)' /\ Between(n)'
        BY <2>4, <4>1 DEF EndRun, InOrder, Between
      <4>3. push'[r][n].ph = "none" /\ \A q \in Runs \ {r} : push'[q] = push[q]
        BY <2>4 DEF EndRun, Types, NoPush
      <4>4. ByAgent(n)'
        BY <2>4, <3>1, <4>1, <4>3 DEF EndRun, ByAgent, HasCommand
      <4> QED BY <4>2, <4>4
    <3>3. Quiet'
      BY <1>2, <3>2 DEF Quiet
    <3> QED BY <2>4, <3>3, <1>u DEF EndRun
  <2>5. ASSUME NEW n \in Nodes, SyncOneNode(r, n) PROVE Quiet' /\ NoStepBack
    <3>1. ver + 1 \in Nat /\ ver + 1 >= ver
      BY <1>t
    <3>2. Quiet'
      BY <1>1, <2>5, <2>f, <3>1, QuietStart DEF SyncOneNode
    <3> QED BY <2>5, <3>2, <1>u DEF SyncOneNode
  <2>6. ASSUME NEW n \in Nodes, AgentTimeout(r, n) PROVE FALSE
    <3>1. HasCommand(r, n)
      BY <1>1, <2>6 DEF AgentTimeout, Quiet, ByAgent
    <3> QED BY <1>3, <2>6, <3>1 DEF AgentTimeout, HasCommand
  <2>7. ASSUME NEW n \in Nodes, SshEnds(r, n) PROVE FALSE
    BY <1>1, <2>7 DEF SshEnds, Quiet, ByAgent
  <2> QED BY <1>7, <2>1, <2>2, <2>3, <2>4, <2>5, <2>6, <2>7 DEF RunStep
<1>8. ASSUME NEW n \in Nodes, NodeStep(n) PROVE Quiet' /\ NoStepBack
  <2>1. CASE AgentApplies(n)
    BY <1>1, <1>2, <2>1, QuietApplies
  <2>2. CASE AgentDrops(n)
    BY <1>3, <2>2 DEF AgentDrops
  <2>3. CASE AgentReturns(n)
    BY <1>1, <2>3 DEF AgentReturns, Quiet, ByAgent
  <2>4. CASE NodeDown(n)
    BY <1>3, <2>4 DEF NodeDown
  <2>5. CASE NodeUp(n)
    BY <1>k, <1>t, <2>5 DEF NodeUp
  <2> QED BY <1>8, <2>1, <2>2, <2>3, <2>4, <2>5 DEF NodeStep
<1>9. CASE UNCHANGED vars
  BY <1>9, <1>k, <1>t DEF vars
<1> QED BY <1>2, <1>4, <1>5, <1>6, <1>7, <1>8, <1>9 DEF Next

\* While every agent is connected and nothing fails, no node goes back to an
\* older configuration, however many synchronisations of however many nodes
\* overlap and in whatever batches: a frozen user is not admitted again by a
\* push that started before the freeze (deploy.js:300, 378).
THEOREM NoRegression == AllSpec => CalmNoRegression
<1>1. AllInit => Init /\ CalmInv
  <2> SUFFICES ASSUME AllInit, calm PROVE Init /\ Quiet
    BY DEF AllInit, CalmInv
  <2>1. Init /\ \A n \in Nodes : online[n]
    BY DEF AllInit
  <2>2. ASSUME NEW n \in Nodes PROVE InOrder(n) /\ Between(n) /\ ByAgent(n)
    BY <2>1 DEF Init, InOrder, Between, ByAgent, HasCommand, NoPush
  <2> QED BY <2>1, <2>2 DEF Init, Quiet
<1>2. [AllNext]_<<vars, calm>> => [Next]_vars
  BY DEF AllNext
<1>3. Types /\ Types' /\ CalmInv /\ [AllNext]_<<vars, calm>> => CalmInv' /\ [calm => NoStepBack]_vars
  BY CalmStep
<1>4. Spec => []Types
  <2>1. SyncInv => Types
    BY DEF SyncInv
  <2> QED BY <2>1, SpecKeeps, PTL
<1> QED BY <1>1, <1>2, <1>3, <1>4, PTL DEF AllSpec, Spec, CalmNoRegression
=============================================================================
