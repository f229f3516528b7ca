------------------------------ MODULE FleetProofs ------------------------------
(***************************************************************************)
(* Theorems about Fleet, for any number of rows, versions and overlapping  *)
(* deployments: the types, and that the rows of a machine show what its    *)
(* deployments achieved.                                                   *)
(*                                                                         *)
(* A report makes rows active which it knows nothing of but that they have *)
(* another protocol.  AloneInv says why this tells the truth while the     *)
(* machine is deployed by one deployment at a time: a deployment that has  *)
(* inserted its rows has all rows of the machine, no two of them have one  *)
(* protocol, and an agent is installed only after the rows were deployed.  *)
(***************************************************************************)
EXTENDS Fleet, FiniteSetTheorems, TLAPS

Requests == {{"vless"}, {"ss"}, {"vless", "ss"}, {"hy2"}}
Phases   == {"idle", "geo", "install", "write", "start", "started", "agent"}
Working  == Phases \ {"idle", "geo"}
JobType  == [ph : Phases, kind : SUBSET Protocols, ids : SUBSET Ids, conf : SUBSET Inbounds]
RowType  == [st : {"fresh", "off", "on", "gone"}, proto : Protocols]

\* The rows of a deployment, from the first one on
RowsFrom(kind, n) == IF kind = {"vless", "ss"} THEN {n, n + 1} ELSE {n}

Types ==
  /\ row \in [Ids -> RowType] /\ job \in [Jobs -> JobType]
  /\ file \in [Services -> SUBSET Inbounds] /\ live \in [Services -> SUBSET Inbounds]
  /\ agent \in 0..MaxRows /\ reported \subseteq Ids /\ deployed \subseteq Ids
  /\ push \in [todo : SUBSET Ids, cur : 0..MaxRows, conf : SUBSET Inbounds]
  /\ del \in [row : 0..MaxRows, via : {"none", "agent", "ssh"}]
  /\ ver \in 1..MaxVer /\ tangled \in BOOLEAN /\ faults \in 0..MaxFaults

\* Rows are inserted in the order of their ids.
FreshInv == \E n \in 1..(MaxRows + 1) : \A i \in Ids : row[i].st = "fresh" <=> i >= n

\* A deployment that works has rows of its own, which were inserted.
JobInv ==
  /\ \A j \in Jobs :
       /\ job[j].ph # "idle" => job[j].kind \in Requests
       /\ job[j].ph \notin Working => job[j].ids = {}
       /\ job[j].ph \in Working =>
            \E n \in Ids : job[j].ids = RowsFrom(job[j].kind, n) /\ job[j].ids \subseteq Ids
       /\ \A i \in job[j].ids : row[i].st # "fresh"
  /\ \A j, k \in Jobs : j # k => job[j].ids \cap job[k].ids = {}

\* An agent and a deletion are of a row that was inserted.
AgentInv  == agent # 0 => row[agent].st # "fresh"
DeleteInv == del.row # 0 => row[del.row].st # "fresh"

\* One deployment at a time has the machine for itself.
AloneInv ==
  /\ \A j, k \in Jobs : job[j].ph # "idle" /\ job[k].ph # "idle" => j = k
  /\ \A j \in Jobs :
       /\ job[j].ph = "geo" => \A i \in Ids : ~Exists(i)
       /\ job[j].ph \in Working => \A i \in Ids : Exists(i) => i \in job[j].ids
       /\ job[j].ph = "agent" => job[j].ids \subseteq deployed
  /\ AgentOnline => \A i \in Ids : Exists(i) => i \in deployed
  /\ \A i, k \in Ids : Exists(i) /\ Exists(k) /\ i # k => row[i].proto # row[k].proto
  /\ \A i \in Ids : On(i) => i \in deployed
  /\ \A i, k \in Ids : Exists(i) /\ Exists(k) => row[i].st = row[k].st

FleetInv == Types /\ FreshInv /\ JobInv /\ AgentInv /\ DeleteInv /\ (~tangled => AloneInv)

USE FleetAssumption

----------------------------------------------------------------------------
(* Rows and what is built for them *)

LEMMA RowSizes ==
  /\ \A x : IsFiniteSet({x}) /\ Cardinality({x}) = 1
  /\ Cardinality({"vless", "ss"}) = 2
<1>1. \A x : IsFiniteSet({x}) /\ Cardinality({x}) = 1
  BY FS_Singleton
<1>2. {"vless", "ss"} = {"vless"} \cup {"ss"} /\ "ss" \notin {"vless"}
  OBVIOUS
<1>3. Cardinality({"vless"} \cup {"ss"}) = Cardinality({"vless"}) + 1
  BY <1>1, <1>2, FS_AddElement
<1>4. Cardinality({"vless"}) = 1
  BY <1>1
<1>5. Cardinality({"vless"} \cup {"ss"}) = 2
  BY <1>3, <1>4
<1>6. Cardinality({"vless", "ss"}) = 2
  BY <1>2, <1>5
<1> QED BY <1>1, <1>6

\* The inbound of a row, and so every file that is built, is typed.
LEMMA InboundType == Types => \A i \in Ids : Inbound(i) \in Inbounds
  BY DEF Types, Inbound, Inbounds, Clients

LEMMA FirstRow ==
  ASSUME FleetInv, NEW j \in Jobs, job[j].ph \in Working
  PROVE  /\ AgentRow(j) \in job[j].ids /\ job[j].ids \subseteq Ids
         /\ job[j].kind = {"vless", "ss"} => AgentRow(j) + 1 \in job[j].ids
<1>1. PICK n \in Ids : job[j].ids = RowsFrom(job[j].kind, n) /\ job[j].ids \subseteq Ids
  BY DEF FleetInv, JobInv
<1>2. n \in job[j].ids /\ \A k \in job[j].ids : n <= k
  BY <1>1 DEF RowsFrom, Ids
<1>3. AgentRow(j) \in job[j].ids /\ \A k \in job[j].ids : AgentRow(j) <= k
  BY <1>2 DEF AgentRow
<1>4. AgentRow(j) = n
  <2>1. AgentRow(j) <= n /\ n <= AgentRow(j)
    BY <1>2, <1>3
  <2>2. AgentRow(j) \in Int /\ n \in Int
    BY <1>1, <1>3 DEF Ids
  <2> QED BY <2>1, <2>2
<1> QED BY <1>1, <1>3, <1>4 DEF RowsFrom

LEMMA JobConfType ==
  ASSUME FleetInv, NEW j \in Jobs, job[j].ph \in Working
  PROVE  JobConf(j) \subseteq Inbounds
<1>1. AgentRow(j) \in Ids /\ Inbound(AgentRow(j)) \in Inbounds
  BY FirstRow, InboundType DEF FleetInv
<1>2. CASE job[j].kind = {"vless", "ss"}
  <2>1. Inbound(AgentRow(j) + 1) \in Inbounds
    BY <1>2, FirstRow, InboundType DEF FleetInv
  <2>2. /\ job[j].kind # {"vless"} /\ job[j].kind # {"ss"}
    BY <1>2
  <2>3. JobConf(j) = BuildDual(AgentRow(j), AgentRow(j) + 1)
    BY <1>2, <2>2 DEF JobConf
  <2> QED BY <1>1, <2>1, <2>3 DEF BuildDual, BuildXray, BuildSs
<1>3. CASE job[j].kind # {"vless", "ss"}
  <2>1. JobConf(j) = {Inbound(AgentRow(j))}
    BY <1>3 DEF JobConf, BuildXray, BuildSs, BuildHy2
  <2> QED BY <1>1, <2>1
<1> QED BY <1>2, <1>3

\* Setting states keeps which rows exist, and their protocols.
LEMMA Activated ==
  ASSUME FleetInv, NEW ids \in SUBSET Ids, NEW st \in {"on", "off"}, SetActive(ids, st)
  PROVE  /\ row' \in [Ids -> RowType] /\ FreshInv'
         /\ \A i \in Ids :
              /\ Exists(i)' <=> Exists(i)
              /\ row'[i].proto = row[i].proto
              /\ row'[i].st = IF i \in ids /\ Exists(i) THEN st ELSE row[i].st
              /\ row'[i].st = "fresh" <=> row[i].st = "fresh"
<1>1. row \in [Ids -> RowType]
  BY DEF FleetInv, Types
<1>2. row' = [i \in Ids |-> IF i \in ids /\ Exists(i) THEN [row[i] EXCEPT !.st = st] ELSE row[i]]
  BY DEF SetActive
<1>3. ASSUME NEW i \in Ids
      PROVE  /\ row'[i] \in RowType /\ row'[i].proto = row[i].proto
             /\ row'[i].st = IF i \in ids /\ Exists(i) THEN st ELSE row[i].st
  <2>1. row[i] \in RowType
    BY <1>1
  <2>2. CASE i \in ids /\ Exists(i)
    <3>1. row'[i] = [row[i] EXCEPT !.st = st]
      BY <1>2, <2>2
    <3> QED BY <2>1, <2>2, <3>1 DEF RowType
  <2>3. CASE ~(i \in ids /\ Exists(i))
    BY <1>2, <2>1, <2>3
  <2> QED BY <2>2, <2>3
<1>4. row' \in [Ids -> RowType]
  BY <1>2, <1>3
<1>5. ASSUME NEW i \in Ids
      PROVE  (Exists(i)' <=> Exists(i)) /\ (row'[i].st = "fresh" <=> row[i].st = "fresh")
  BY <1>3 DEF Exists
<1>6. FreshInv'
  BY <1>5 DEF FleetInv, FreshInv
<1> QED BY <1>3, <1>4, <1>5, <1>6

----------------------------------------------------------------------------
(* Deployments *)

\* Steps that leave the rows, the jobs, the agent and the history alone.
LEMMA RowsStand ==
  ASSUME FleetInv, Types', UNCHANGED <<row, job, agent, deployed, tangled>>,
         del' = del \/ Exists(del'.row)
  PROVE  FleetInv'
<1>1. FreshInv' /\ JobInv' /\ AgentInv' /\ DeleteInv'
  BY DEF FleetInv, FreshInv, JobInv, AgentInv, DeleteInv, Exists
<1>2. ~tangled => AloneInv'
  BY DEF FleetInv, AloneInv, Exists, On, AgentOnline
<1> QED BY <1>1, <1>2 DEF FleetInv

\* A deployment moves on or ends: its rows are those it had or none.
LEMMA JobMoves ==
  ASSUME FleetInv, Types', NEW j \in Jobs,
         UNCHANGED <<row, del, deployed, tangled>>,
         (agent' = agent \/ (job[j].ph = "agent" /\ agent' \in job[j].ids)),
         \A k \in Jobs \ {j} : job'[k] = job[k],
         \/ job'[j].ph = "idle" /\ job'[j].ids = {}
         \/ /\ job[j].ph \in Working /\ job'[j].ph \in Working \ {"agent"}
            /\ job'[j].kind = job[j].kind /\ job'[j].ids = job[j].ids
  PROVE  FleetInv'
<1>1. FreshInv' /\ AgentInv' /\ DeleteInv'
  BY DEF FleetInv, FreshInv, AgentInv, DeleteInv, JobInv
<1>2. \A i \in Ids : Exists(i)' <=> Exists(i)
  BY DEF Exists
<1>3. JobInv'
  <2>1. ASSUME NEW k \in Jobs
        PROVE  /\ job'[k].ph # "idle" => job'[k].kind \in Requests
               /\ job'[k].ph \notin Working => job'[k].ids = {}
               /\ job'[k].ph \in Working =>
                    \E n \in Ids : job'[k].ids = RowsFrom(job'[k].kind, n) /\ job'[k].ids \subseteq Ids
               /\ job'[k].ids \subseteq job[k].ids
    <3>1. CASE k # j
      BY <3>1 DEF FleetInv, JobInv
    <3>2. CASE k = j
      BY <3>2 DEF FleetInv, JobInv, Working
    <3> QED BY <3>1, <3>2
  <2>2. \A k \in Jobs : \A i \in job'[k].ids : row'[i].st # "fresh"
    BY <2>1 DEF FleetInv, JobInv
  <2>3. \A k, m \in Jobs : k # m => job'[k].ids \cap job'[m].ids = {}
    BY <2>1 DEF FleetInv, JobInv
  <2> QED BY <2>1, <2>2, <2>3 DEF JobInv
<1>4. ASSUME ~tangled PROVE AloneInv'
  <2>1. AloneInv
    BY <1>4 DEF FleetInv
  <2>2. \A k \in Jobs : job'[k].ph # "idle" => job[k].ph # "idle"
    BY DEF Working
  <2>3. \A k, m \in Jobs : job'[k].ph # "idle" /\ job'[m].ph # "idle" => k = m
    BY <2>1, <2>2 DEF AloneInv
  <2>4. ASSUME NEW k \in Jobs
        PROVE  /\ job'[k].ph = "geo" => \A i \in Ids : ~Exists(i)'
               /\ job'[k].ph \in Working => \A i \in Ids : Exists(i)' => i \in job'[k].ids
               /\ job'[k].ph = "agent" => job'[k].ids \subseteq deployed'
    <3>1. CASE k # j
      BY <1>2, <2>1, <3>1 DEF AloneInv
    <3>2. CASE k = j
      BY <1>2, <2>1, <3>2 DEF AloneInv, Working
    <3> QED BY <3>1, <3>2
  <2>5. AgentOnline' => \A i \in Ids : Exists(i)' => i \in deployed'
    <3>1. CASE agent' = agent
      BY <2>1, <3>1 DEF AloneInv, AgentOnline, Exists
    <3>2. CASE job[j].ph = "agent"
      BY <1>2, <2>1, <3>2 DEF AloneInv, Working, Phases
    <3> QED BY <3>1, <3>2
  <2>6. \A i, k \in Ids : Exists(i)' /\ Exists(k)' =>
          (i # k => row'[i].proto # row'[k].proto) /\ row'[i].st = row'[k].st
    BY <1>2, <2>1 DEF AloneInv
  <2>7. \A i \in Ids : On(i)' => i \in deployed'
    BY <2>1 DEF AloneInv, On
  <2> QED BY <2>3, <2>4, <2>5, <2>6, <2>7 DEF AloneInv
<1> QED BY <1>1, <1>3, <1>4 DEF FleetInv

\* Rows change their states alike: all rows that exist, or those of the only
\* deployment.
LEMMA StatesMove ==
  ASSUME FleetInv, NEW ids \in SUBSET Ids, NEW st \in {"on", "off"}, SetActive(ids, st),
         UNCHANGED <<agent, del, tangled>>, deployed \subseteq deployed',
         \A k \in Jobs :
           \/ job'[k].ph = "idle" /\ job'[k].ids = {}
           \/ job'[k] = job[k]
           \/ /\ job[k].ph \in Working /\ job'[k].ph \in Working
              /\ job'[k].ids = job[k].ids /\ job'[k].kind = job[k].kind
              /\ job[k].ids \subseteq deployed',
         Types',
         ~tangled => \A i \in Ids : Exists(i) => i \in ids /\ (st = "on" => i \in deployed')
  PROVE  FleetInv'
<1>1. /\ FreshInv'
      /\ \A i \in Ids :
           /\ Exists(i)' <=> Exists(i)
           /\ row'[i].proto = row[i].proto
           /\ row'[i].st = IF i \in ids /\ Exists(i) THEN st ELSE row[i].st
           /\ row'[i].st = "fresh" <=> row[i].st = "fresh"
  BY Activated
<1>2. JobInv'
  <2>1. ASSUME NEW k \in Jobs
        PROVE  /\ job'[k].ph # "idle" => job'[k].kind \in Requests
               /\ job'[k].ph \notin Working => job'[k].ids = {}
               /\ job'[k].ph \in Working =>
                    \E n \in Ids : job'[k].ids = RowsFrom(job'[k].kind, n) /\ job'[k].ids \subseteq Ids
               /\ job'[k].ids \subseteq job[k].ids
    <3>1. JobInv
      BY DEF FleetInv
    <3>2. CASE job'[k].ph = "idle" /\ job'[k].ids = {}
      BY <3>2 DEF Working
    <3>3. CASE job'[k].ph # "idle"
      BY <3>1, <3>3 DEF JobInv, Working
    <3> QED BY <3>1, <3>2, <3>3 DEF JobInv
  <2>2. ASSUME NEW k \in Jobs, NEW i \in job'[k].ids PROVE row'[i].st # "fresh"
    <3>1. i \in Ids /\ row[i].st # "fresh"
      BY <2>1 DEF FleetInv, JobInv, Types, JobType
    <3> QED BY <1>1, <3>1
  <2>3. \A k, m \in Jobs : k # m => job'[k].ids \cap job'[m].ids = {}
    BY <2>1 DEF FleetInv, JobInv
  <2> QED BY <2>1, <2>2, <2>3 DEF JobInv
<1>3. AgentInv' /\ DeleteInv'
  <2>1. (agent # 0 => agent \in Ids) /\ (del.row # 0 => del.row \in Ids)
    BY DEF FleetInv, Types, Ids
  <2> QED BY <1>1, <2>1 DEF FleetInv, AgentInv, DeleteInv
<1>4. ASSUME ~tangled PROVE AloneInv'
  <2>1. AloneInv
    BY <1>4 DEF FleetInv
  <2>2. \A i \in Ids : Exists(i)' => i \in ids /\ Exists(i) /\ row'[i].st = st
    BY <1>1, <1>4
  <2>3. \A k, m \in Jobs : job'[k].ph # "idle" /\ job'[m].ph # "idle" => k = m
    BY <2>1 DEF AloneInv, Working
  <2>4. ASSUME NEW k \in Jobs
        PROVE  /\ job'[k].ph = "geo" => \A i \in Ids : ~Exists(i)'
               /\ job'[k].ph \in Working => \A i \in Ids : Exists(i)' => i \in job'[k].ids
               /\ job'[k].ph = "agent" => job'[k].ids \subseteq deployed'
    <3>1. job'[k].ph = "geo" => job[k].ph = "geo"
      BY DEF Working
    <3>2. job'[k].ph \in Working => job[k].ph \in Working /\ job'[k].ids = job[k].ids
      BY DEF Working
    <3>3. job'[k].ph = "agent" =>
            job[k].ids \subseteq deployed' \/ (job[k].ph = "agent" /\ job'[k].ids = job[k].ids)
      OBVIOUS
    <3> QED BY <1>1, <2>1, <3>1, <3>2, <3>3 DEF AloneInv, Working, Phases
  <2>5. AgentOnline' => \A i \in Ids : Exists(i)' => i \in deployed'
    <3>1. agent # 0 => agent \in Ids
      BY DEF FleetInv, Types, Ids
    <3>2. AgentOnline' => AgentOnline
      BY <1>1, <3>1 DEF AgentOnline
    <3> QED BY <1>1, <2>1, <3>2 DEF AloneInv
  <2>6. \A i, k \in Ids : Exists(i)' /\ Exists(k)' =>
          (i # k => row'[i].proto # row'[k].proto) /\ row'[i].st = row'[k].st
    BY <1>1, <2>1, <2>2 DEF AloneInv
  <2>7. \A i \in Ids : On(i)' => i \in deployed'
    <3> SUFFICES ASSUME NEW i \in Ids, On(i)' PROVE i \in deployed'
      OBVIOUS
    <3>1. Exists(i)' /\ row'[i].st = "on"
      BY DEF On, Exists
    <3> QED BY <1>1, <1>4, <2>2, <3>1
  <2> QED BY <2>3, <2>4, <2>5, <2>6, <2>7 DEF AloneInv
<1> QED BY <1>1, <1>2, <1>3, <1>4 DEF FleetInv

LEMMA SubmitStep ==
  ASSUME FleetInv,
         \/ \E j \in Jobs, kind \in Kinds : Submit(j, kind)
         \/ \E j, k \in Jobs : SubmitSmart(j, k)
  PROVE  FleetInv'
<1>1. /\ \A i \in Ids : ~Exists(i)
      /\ UNCHANGED <<row, file, live, agent, reported, push, del, ver, deployed, faults>>
      /\ tangled' \in BOOLEAN
      /\ ~tangled' => ~tangled
  BY DEF Submit, SubmitSmart, machine
<1>2. \A kind \in Requests : Asked(kind) \in JobType /\ Asked(kind).ph = "geo"
                             /\ Asked(kind).kind = kind /\ Asked(kind).ids = {}
  BY DEF Asked, JobType, Requests, Phases, Protocols
<1>3. /\ job' \in [Jobs -> JobType]
      /\ \A j \in Jobs : \/ job'[j] = job[j]
                         \/ \E kind \in Requests : job'[j] = Asked(kind)
      /\ ~tangled' => \A j, k \in Jobs : job'[j].ph # "idle" /\ job'[k].ph # "idle" => j = k
  <2>1. job \in [Jobs -> JobType]
    BY DEF FleetInv, Types
  <2>2. ASSUME NEW j \in Jobs, NEW kind \in Kinds, Submit(j, kind)
        PROVE  <1>3!1 /\ <1>3!2 /\ <1>3!3
    <3>1. kind \in Requests
      BY <2>2 DEF Submit, Requests
    <3>2. job' = [job EXCEPT ![j] = Asked(kind)] /\ (~tangled' => Deploying = {})
      BY <2>2 DEF Submit
    <3>3. ~tangled' => \A k \in Jobs : k # j => job'[k].ph = "idle"
      BY <2>1, <3>2 DEF Deploying
    <3> QED BY <1>2, <2>1, <3>1, <3>2, <3>3
  <2>3. ASSUME NEW j \in Jobs, NEW k \in Jobs, SubmitSmart(j, k)
        PROVE  <1>3!1 /\ <1>3!2 /\ <1>3!3
    <3>1. {"hy2"} \in Requests /\ {"vless"} \in Requests
      BY DEF Requests
    <3>2. /\ j # k /\ tangled' = TRUE
          /\ job' = [job EXCEPT ![j] = Asked({"hy2"}), ![k] = Asked({"vless"})]
      BY <2>3 DEF SubmitSmart
    <3> QED BY <1>2, <2>1, <3>1, <3>2
  <2> QED BY <2>2, <2>3
<1>4. Types'
  BY <1>1, <1>3 DEF FleetInv, Types
<1>5. FreshInv' /\ AgentInv' /\ DeleteInv'
  BY <1>1 DEF FleetInv, FreshInv, AgentInv, DeleteInv
<1>6. JobInv'
  <2>1. ASSUME NEW k \in Jobs
        PROVE  /\ job'[k].ph # "idle" => job'[k].kind \in Requests
               /\ job'[k].ph \notin Working => job'[k].ids = {}
               /\ job'[k].ph \in Working =>
                    \E n \in Ids : job'[k].ids = RowsFrom(job'[k].kind, n) /\ job'[k].ids \subseteq Ids
               /\ job'[k].ids \subseteq job[k].ids
    <3>1. CASE job'[k] = job[k]
      BY <3>1 DEF FleetInv, JobInv
    <3>2. ASSUME NEW kind \in Requests, job'[k] = Asked(kind)
          PROVE  <2>1!2
      BY <1>2, <3>2 DEF Working
    <3> QED BY <1>3, <3>1, <3>2
  <2> QED BY <1>1, <2>1 DEF FleetInv, JobInv
<1>7. ASSUME ~tangled' PROVE AloneInv'
  <2>1. AloneInv
    BY <1>1, <1>7 DEF FleetInv
  <2>2. \A i \in Ids : ~Exists(i)' /\ ~On(i)'
    BY <1>1 DEF Exists, On
  <2>3. AgentOnline' => AgentOnline
    BY <1>1 DEF AgentOnline, Exists
  <2>4. \A k \in Jobs : job'[k].ph = "agent" => job'[k].ids \subseteq deployed'
    BY <1>1, <1>2, <1>3, <2>1 DEF AloneInv
  <2> QED BY <1>3, <1>7, <2>1, <2>2, <2>3, <2>4 DEF AloneInv
<1> QED BY <1>4, <1>5, <1>6, <1>7 DEF FleetInv

\* There is room for the rows of a deployment; they are the first fresh ones,
\* and have its protocols.
LEMMA NewRows ==
  ASSUME FleetInv, NEW kind \in Requests, Room(kind)
  PROVE  /\ \E n \in Ids : /\ NewIds(kind) = RowsFrom(kind, n) /\ NewIds(kind) \subseteq Ids
                           /\ \A i \in Ids : row[i].st = "fresh" <=> i >= n
         /\ \A i \in NewIds(kind) : ProtoOf(kind, i) \in Protocols
         /\ \A i, k \in NewIds(kind) : i # k => ProtoOf(kind, i) # ProtoOf(kind, k)
<1>1. PICK n \in 1..(MaxRows + 1) : \A i \in Ids : row[i].st = "fresh" <=> i >= n
  BY DEF FleetInv, FreshInv
<1>2. Fresh = n..MaxRows
  BY <1>1 DEF Fresh, Ids
<1>3. Cardinality(Fresh) = IF n > MaxRows THEN 0 ELSE MaxRows - n + 1
  BY <1>2, FS_Interval
<1>4. Cardinality(kind) = IF kind = {"vless", "ss"} THEN 2 ELSE 1
  BY RowSizes DEF Requests
<1>5. n \in Ids /\ n + Cardinality(kind) - 1 <= MaxRows
  BY <1>3, <1>4 DEF Room, Ids
<1>6. NextId = n
  <2>1. n \in Fresh /\ \A k \in Fresh : n <= k
    BY <1>2, <1>5 DEF Ids
  <2>2. NextId \in Fresh /\ \A k \in Fresh : NextId <= k
    BY <2>1 DEF NextId
  <2> QED BY <1>2, <2>1, <2>2
<1>7. NewIds(kind) = n..(n + Cardinality(kind) - 1)
  BY <1>6 DEF NewIds
<1>8. NewIds(kind) = RowsFrom(kind, n) /\ NewIds(kind) \subseteq Ids
  <2>1. CASE kind = {"vless", "ss"}
    <3>1. NewIds(kind) = n..(n + 1)
      BY <1>4, <1>7, <2>1
    <3>2. NewIds(kind) = {n, n + 1}
      BY <3>1 DEF Ids
    <3>3. n + 1 \in Ids
      BY <1>4, <1>5, <2>1 DEF Ids
    <3> QED BY <1>5, <2>1, <3>2, <3>3 DEF RowsFrom
  <2>2. CASE kind # {"vless", "ss"}
    <3>1. NewIds(kind) = n..n
      BY <1>4, <1>7, <2>2
    <3>2. NewIds(kind) = {n}
      BY <3>1 DEF Ids
    <3> QED BY <1>5, <2>2, <3>2 DEF RowsFrom
  <2> QED BY <2>1, <2>2
<1>9. ASSUME kind # {"vless", "ss"}
      PROVE  /\ \A i \in NewIds(kind) : ProtoOf(kind, i) \in Protocols
             /\ \A i, k \in NewIds(kind) : i = k
  BY <1>4, <1>8, <1>9 DEF ProtoOf, Requests, Protocols, RowsFrom
<1>10. ASSUME kind = {"vless", "ss"}
       PROVE  /\ \A i \in NewIds(kind) : ProtoOf(kind, i) \in Protocols
              /\ \A i, k \in NewIds(kind) : i # k => ProtoOf(kind, i) # ProtoOf(kind, k)
  <2>1. \A i : ProtoOf(kind, i) = IF i = n THEN "vless" ELSE "ss"
    BY <1>4, <1>6, <1>10 DEF ProtoOf
  <2>2. NewIds(kind) = {n, n + 1}
    BY <1>8, <1>10 DEF RowsFrom
  <2> QED BY <1>5, <2>1, <2>2 DEF Protocols, Ids
<1> QED BY <1>1, <1>5, <1>8, <1>9, <1>10

LEMMA InsertStep ==
  ASSUME FleetInv, NEW j \in Jobs, Insert(j)
  PROVE  FleetInv'
<1>0. PICK kind, new, proto : /\ kind = job[j].kind /\ new = NewIds(job[j].kind)
                              /\ proto = [i \in new |-> ProtoOf(job[j].kind, i)]
  OBVIOUS
<1>1. /\ job[j].ph = "geo" /\ Room(kind)
      /\ row' = [i \in Ids |-> IF i \in new THEN [st |-> "off", proto |-> proto[i]]
                                           ELSE row[i]]
      /\ job' = [job EXCEPT ![j] = [@ EXCEPT !.ph = "install", !.ids = new]]
      /\ UNCHANGED <<file, live, agent, reported, push, del, ver, deployed, tangled, faults>>
  BY <1>0 DEF Insert, machine, history
<1>2. row \in [Ids -> RowType] /\ job \in [Jobs -> JobType]
  BY DEF FleetInv, Types
<1>3. kind \in Requests
  BY <1>0, <1>1 DEF FleetInv, JobInv
<1>4. PICK n \in Ids : /\ new = RowsFrom(kind, n) /\ new \subseteq Ids
                       /\ \A i \in Ids : row[i].st = "fresh" <=> i >= n
  BY <1>0, <1>1, <1>3, NewRows
<1>5. /\ \A i \in new : proto[i] \in Protocols
      /\ \A i, k \in new : i # k => proto[i] # proto[k]
  BY <1>0, <1>1, <1>3, NewRows
<1>6. ASSUME NEW i \in Ids
      PROVE  /\ i \in new => (row'[i].st = "off" /\ row'[i].proto = proto[i])
             /\ i \notin new => row'[i] = row[i]
  BY <1>1
<1>7. row' \in [Ids -> RowType]
  BY <1>1, <1>2, <1>5 DEF RowType
<1>8. /\ job' \in [Jobs -> JobType]
      /\ job'[j].ph = "install" /\ job'[j].kind = kind /\ job'[j].ids = new
      /\ \A k \in Jobs : k # j => job'[k] = job[k]
  <2>1. job[j] \in JobType /\ new \in SUBSET Ids
    BY <1>2, <1>4
  <2>2. job'[j] = [job[j] EXCEPT !.ph = "install", !.ids = new]
    BY <1>1, <1>2
  <2>3. /\ job'[j] \in JobType
        /\ job'[j].ph = "install" /\ job'[j].kind = job[j].kind /\ job'[j].ids = new
    BY <2>1, <2>2 DEF JobType, Phases
  <2> QED BY <1>0, <1>1, <1>2, <2>3
<1>9. Types'
  BY <1>1, <1>7, <1>8 DEF FleetInv, Types
<1>10. \A i \in new : i \in Ids /\ row[i].st = "fresh"
  BY <1>4 DEF RowsFrom, Ids
<1>11. ASSUME NEW i \in Ids
       PROVE  row'[i].st = "fresh" <=> (row[i].st = "fresh" /\ i \notin new)
  <2>1. CASE i \in new
    BY <1>6, <2>1
  <2>2. CASE i \notin new
    BY <1>6, <2>2
  <2> QED BY <2>1, <2>2
<1>12. FreshInv'
  <2>1. CASE kind = {"vless", "ss"}
    <3>1. n + 2 \in 1..(MaxRows + 1) /\ new = {n, n + 1}
      BY <1>4, <2>1 DEF RowsFrom, Ids
    <3>2. \A i \in Ids : row'[i].st = "fresh" <=> i >= n + 2
      BY <1>4, <1>11, <3>1 DEF Ids
    <3> QED BY <3>1, <3>2 DEF FreshInv
  <2>2. CASE kind # {"vless", "ss"}
    <3>1. n + 1 \in 1..(MaxRows + 1) /\ new = {n}
      BY <1>4, <2>2 DEF RowsFrom, Ids
    <3>2. \A i \in Ids : row'[i].st = "fresh" <=> i >= n + 1
      BY <1>4, <1>11, <3>1 DEF Ids
    <3> QED BY <3>1, <3>2 DEF FreshInv
  <2> QED BY <2>1, <2>2
<1>13. AgentInv' /\ DeleteInv'
  <2>1. (agent # 0 => agent \in Ids) /\ (del.row # 0 => del.row \in Ids)
    BY DEF FleetInv, Types, Ids
  <2> QED BY <1>1, <1>11, <2>1 DEF FleetInv, AgentInv, DeleteInv
<1>14. JobInv'
  <2>1. JobInv
    BY DEF FleetInv
  <2>2. ASSUME NEW k \in Jobs
        PROVE  /\ job'[k].ph # "idle" => job'[k].kind \in Requests
               /\ job'[k].ph \notin Working => job'[k].ids = {}
               /\ job'[k].ph \in Working =>
                    \E m \in Ids : job'[k].ids = RowsFrom(job'[k].kind, m) /\ job'[k].ids \subseteq Ids
    <3>1. CASE k # j
      BY <1>8, <2>1, <3>1 DEF JobInv
    <3>2. CASE k = j
      BY <1>3, <1>4, <1>8, <3>2 DEF Working, Phases
    <3> QED BY <3>1, <3>2
  <2>3. ASSUME NEW k \in Jobs, NEW i \in job'[k].ids PROVE row'[i].st # "fresh"
    <3>1. CASE k # j
      <4>1. i \in Ids /\ row[i].st # "fresh"
        BY <1>2, <1>8, <2>1, <3>1 DEF JobInv, JobType
      <4> QED BY <1>11, <4>1
    <3>2. CASE k = j
      BY <1>8, <1>10, <1>11, <3>2
    <3> QED BY <3>1, <3>2
  <2>4. ASSUME NEW k \in Jobs, k # j PROVE job'[k].ids \cap new = {}
    BY <1>8, <1>10, <2>1, <2>4 DEF JobInv
  <2>5. \A k, m \in Jobs : k # m => job'[k].ids \cap job'[m].ids = {}
    BY <1>8, <2>1, <2>4 DEF JobInv
  <2> QED BY <2>2, <2>3, <2>5 DEF JobInv
<1>15. ASSUME ~tangled PROVE AloneInv'
  <2>1. AloneInv /\ \A i \in Ids : ~Exists(i)
    BY <1>1, <1>15 DEF FleetInv, AloneInv
  <2>2. \A i \in Ids : /\ Exists(i)' <=> i \in new
                       /\ i \in new => row'[i].st = "off" /\ row'[i].proto = proto[i]
                       /\ ~On(i)'
    BY <1>6, <2>1 DEF Exists, On
  <2>3. ~AgentOnline'
    <3>1. agent # 0 => agent \in Ids /\ agent \notin new
      BY <1>10 DEF FleetInv, Types, Ids, AgentInv
    <3> QED BY <1>1, <2>2, <3>1 DEF AgentOnline
  <2>4. \A k \in Jobs : k # j => job'[k].ph = "idle"
    BY <1>1, <1>8, <2>1 DEF AloneInv
  <2>5. \A k, m \in Jobs : job'[k].ph # "idle" /\ job'[m].ph # "idle" => k = m
    BY <2>4
  <2>6. ASSUME NEW k \in Jobs
        PROVE  /\ job'[k].ph = "geo" => \A i \in Ids : ~Exists(i)'
               /\ job'[k].ph \in Working => \A i \in Ids : Exists(i)' => i \in job'[k].ids
               /\ job'[k].ph = "agent" => job'[k].ids \subseteq deployed'
    BY <1>8, <2>2, <2>4 DEF Working
  <2>7. \A i, k \in Ids : Exists(i)' /\ Exists(k)' =>
          (i # k => row'[i].proto # row'[k].proto) /\ row'[i].st = row'[k].st
    BY <1>5, <2>2
  <2> QED BY <2>2, <2>3, <2>5, <2>6, <2>7 DEF AloneInv
<1> QED BY <1>1, <1>9, <1>12, <1>13, <1>14, <1>15 DEF FleetInv

LEMMA DeployStep ==
  ASSUME FleetInv, NEW j \in Jobs, Deploy(j)
  PROVE  FleetInv'
<1>1. /\ row \in [Ids -> RowType] /\ job \in [Jobs -> JobType] /\ job[j] \in JobType
      /\ file \in [Services -> SUBSET Inbounds] /\ live \in [Services -> SUBSET Inbounds]
      /\ Idle \in JobType /\ JobService(j) \in Services
  BY DEF FleetInv, Types, Idle, JobType, Phases, JobService, Services
<1>2. CASE Insert(j)
  BY <1>2, InsertStep
<1>3. CASE Install(j)
  <2>1. job[j].ph \in Working /\ JobConf(j) \in SUBSET Inbounds
    BY <1>3, JobConfType DEF Install, Working, Phases
  <2>2. job' = [job EXCEPT ![j] = [@ EXCEPT !.ph = "write", !.conf = JobConf(j)]]
    BY <1>3 DEF Install
  <2>3. job'[j] = [job[j] EXCEPT !.ph = "write", !.conf = JobConf(j)]
    BY <1>1, <2>2
  <2>4. /\ job'[j] \in JobType /\ job'[j].ph = "write"
        /\ job'[j].kind = job[j].kind /\ job'[j].ids = job[j].ids
    BY <1>1, <2>1, <2>3 DEF JobType, Phases
  <2>5. job' \in [Jobs -> JobType]
    BY <1>1, <2>2, <2>4
  <2>6. Types'
    BY <1>3, <2>5 DEF FleetInv, Types, Install, machine, history
  <2>7. \A k \in Jobs \ {j} : job'[k] = job[k]
    BY <1>1, <2>2
  <2>8. job'[j].ph \in Working \ {"agent"}
    BY <2>4 DEF Working, Phases
  <2> QED BY <1>3, <2>1, <2>4, <2>6, <2>7, <2>8, JobMoves DEF Install, machine, history
<1>4. CASE Write(j) \/ Start(j)
  <2>1. PICK ph \in {"start", "started"} : job' = [job EXCEPT ![j].ph = ph]
    BY <1>4 DEF Write, Start
  <2>2. /\ job'[j] \in JobType /\ job'[j].ph = ph
        /\ job'[j].kind = job[j].kind /\ job'[j].ids = job[j].ids
        /\ \A k \in Jobs \ {j} : job'[k] = job[k]
    BY <1>1, <2>1 DEF JobType, Phases
  <2>3. job' \in [Jobs -> JobType]
    BY <1>1, <2>1, <2>2
  <2>4. file' \in [Services -> SUBSET Inbounds] /\ live' \in [Services -> SUBSET Inbounds]
    BY <1>1, <1>4 DEF Write, Start, JobType
  <2>5. Types'
    BY <1>4, <2>3, <2>4 DEF FleetInv, Types, Write, Start, history
  <2>6. job[j].ph \in Working /\ job'[j].ph \in Working \ {"agent"}
    BY <1>4, <2>1, <2>2 DEF Write, Start, Working, Phases
  <2> QED BY <1>4, <2>2, <2>5, <2>6, JobMoves DEF Write, Start, history
<1>5. CASE StartFails(j) \/ Fail(j) \/ InstallAgent(j)
  <2>1. /\ job' = [job EXCEPT ![j] = Idle]
        /\ UNCHANGED <<row, file, reported, push, del, ver, deployed, tangled>>
    BY <1>5 DEF StartFails, Fail, InstallAgent, machine, history
  <2>2. /\ job' \in [Jobs -> JobType] /\ job'[j] = Idle
        /\ \A k \in Jobs \ {j} : job'[k] = job[k]
    BY <1>1, <2>1
  <2>3. job'[j].ph = "idle" /\ job'[j].ids = {}
    BY <2>2 DEF Idle
  <2>4. live' \in [Services -> SUBSET Inbounds] /\ faults' \in 0..MaxFaults
    <3>1. live' \in [Services -> SUBSET Inbounds]
      BY <1>1, <1>5 DEF StartFails, Fail, InstallAgent, machine
    <3>2. faults' = faults \/ (faults < MaxFaults /\ faults' = faults + 1)
      BY <1>5 DEF StartFails, Fail, InstallAgent, Fault
    <3>3. faults \in 0..MaxFaults
      BY DEF FleetInv, Types
    <3>4. faults' \in 0..MaxFaults
      BY <3>2, <3>3
    <3> QED BY <3>1, <3>4
  <2>5. \/ agent' = agent
        \/ job[j].ph = "agent" /\ agent' \in job[j].ids /\ agent' \in Ids
    <3>1. CASE InstallAgent(j)
      <4>1. job[j].ph \in Working /\ job[j].ph = "agent" /\ agent' = AgentRow(j)
        BY <3>1 DEF InstallAgent, Working, Phases
      <4>2. AgentRow(j) \in job[j].ids /\ job[j].ids \subseteq Ids
        BY <4>1, FirstRow
      <4> QED BY <4>1, <4>2
    <3>2. CASE StartFails(j) \/ Fail(j)
      BY <3>2 DEF StartFails, Fail, machine
    <3> QED BY <1>5, <3>1, <3>2
  <2>6. agent' \in 0..MaxRows
    BY <2>5 DEF FleetInv, Types, Ids
  <2>7. Types'
    BY <2>1, <2>2, <2>4, <2>6 DEF FleetInv, Types
  <2> QED BY <2>1, <2>2, <2>3, <2>5, <2>7, JobMoves
<1>6. CASE Finish(j)
  <2>1. job[j].ph \in Working /\ job[j].ids \in SUBSET Ids
    BY <1>1, <1>6 DEF Finish, Working, Phases, JobType
  <2>2. /\ SetActive(job[j].ids, "on") /\ deployed' = deployed \cup job[j].ids
        /\ UNCHANGED <<file, live, agent, reported, push, del, ver, tangled, faults>>
    BY <1>6 DEF Finish, machine
  <2>3. PICK J : /\ J = IF Exists(AgentRow(j)) THEN [job[j] EXCEPT !.ph = "agent"] ELSE Idle
                 /\ job' = [job EXCEPT ![j] = J]
    BY <1>1, <1>6 DEF Finish
  <2>4. /\ J \in JobType
        /\ \/ J.ph = "idle" /\ J.ids = {}
           \/ J.ph = "agent" /\ J.ids = job[j].ids /\ J.kind = job[j].kind
    <3>1. CASE Exists(AgentRow(j))
      BY <1>1, <2>3, <3>1 DEF JobType, Phases
    <3>2. CASE ~Exists(AgentRow(j))
      BY <1>1, <2>3, <3>2 DEF Idle
    <3> QED BY <3>1, <3>2
  <2>5. job' \in [Jobs -> JobType] /\ job'[j] = J /\ \A k \in Jobs \ {j} : job'[k] = job[k]
    BY <1>1, <2>3, <2>4
  <2>6. row' \in [Ids -> RowType]
    BY <2>1, <2>2, Activated
  <2>7. Types'
    BY <2>1, <2>2, <2>5, <2>6 DEF FleetInv, Types
  <2>8. ASSUME NEW k \in Jobs
        PROVE  \/ job'[k].ph = "idle" /\ job'[k].ids = {}
               \/ job'[k] = job[k]
               \/ /\ job[k].ph \in Working /\ job'[k].ph \in Working
                  /\ job'[k].ids = job[k].ids /\ job'[k].kind = job[k].kind
                  /\ job[k].ids \subseteq deployed'
    BY <2>1, <2>2, <2>4, <2>5 DEF Working, Phases
  <2>9. ~tangled => \A i \in Ids : Exists(i) => i \in job[j].ids /\ i \in deployed'
    BY <2>1, <2>2 DEF FleetInv, AloneInv
  <2> QED BY <2>1, <2>2, <2>7, <2>8, <2>9, StatesMove
<1> QED BY <1>2, <1>3, <1>4, <1>5, <1>6 DEF Deploy

----------------------------------------------------------------------------
(* Reports, pushes, deletions, restarts *)

\* A report or the stale watch acts on all rows of the machine.
LEMMA ReportStep ==
  ASSUME FleetInv, Report \/ \E i \in Ids : Stale(i)
  PROVE  FleetInv'
<1>1. CASE Report
  <2>1. PICK st \in {"on", "off"} : SetActive({agent} \cup Peers(agent), st)
    BY <1>1 DEF Report
  <2>2. /\ AgentOnline /\ reported' = reported \cup {agent} \cup Peers(agent)
        /\ UNCHANGED <<job, file, live, agent, push, del, ver, deployed, tangled, faults>>
    BY <1>1 DEF Report, machine, history
  <2>3. agent \in Ids /\ {agent} \cup Peers(agent) \in SUBSET Ids
    BY <2>2 DEF FleetInv, Types, AgentOnline, Peers, Ids
  <2>4. row' \in [Ids -> RowType]
    BY <2>1, <2>3, Activated
  <2>5. Types'
    BY <2>2, <2>3, <2>4 DEF FleetInv, Types
  <2>6. ASSUME ~tangled, NEW i \in Ids, Exists(i)
        PROVE  i \in {agent} \cup Peers(agent) /\ i \in deployed'
    <3>1. AloneInv /\ Exists(agent)
      BY <2>2, <2>6 DEF FleetInv, AgentOnline
    <3>2. i \in deployed'
      BY <2>2, <2>6, <3>1 DEF AloneInv
    <3>3. i # agent => row[i].proto # row[agent].proto
      BY <2>3, <2>6, <3>1 DEF AloneInv
    <3> QED BY <2>6, <3>2, <3>3 DEF Peers
  <2> QED BY <2>1, <2>2, <2>3, <2>5, <2>6, StatesMove
<1>2. ASSUME NEW i \in Ids, Stale(i) PROVE FleetInv'
  <2>1. /\ On(i) /\ SetActive({i} \cup Peers(i), "off") /\ {i} \cup Peers(i) \in SUBSET Ids
        /\ UNCHANGED <<job, file, live, agent, reported, push, del, ver, deployed, tangled, faults>>
    BY <1>2 DEF Stale, machine, history, Peers
  <2>2. row' \in [Ids -> RowType]
    BY <2>1, Activated
  <2>3. Types'
    BY <2>1, <2>2 DEF FleetInv, Types
  <2>4. ASSUME ~tangled, NEW k \in Ids, Exists(k) PROVE k \in {i} \cup Peers(i)
    <3>1. AloneInv /\ Exists(i)
      BY <2>1, <2>4 DEF FleetInv, On, Exists
    <3>2. k # i => row[k].proto # row[i].proto
      BY <2>4, <3>1 DEF AloneInv
    <3> QED BY <2>4, <3>2 DEF Peers
  <2> QED BY <2>1, <2>3, <2>4, StatesMove
<1> QED BY <1>1, <1>2

LEMMA FaultType == ASSUME Types, Fault PROVE faults' \in 0..MaxFaults
<1>1. faults \in 0..MaxFaults /\ faults < MaxFaults /\ faults' = faults + 1
  BY DEF Types, Fault
<1> QED BY <1>1

\* What happens to the machine alone.
LEMMA MachineStep ==
  ASSUME FleetInv, Revive \/ \E s \in Services : Crash(s)
  PROVE  FleetInv'
<1>1. UNCHANGED <<row, job, file, agent, reported, push, del, ver, deployed, tangled>>
  BY DEF Revive, Crash, history
<1>2. live' \in [Services -> SUBSET Inbounds]
  BY DEF FleetInv, Types, Revive, Crash
<1>3. faults' \in 0..MaxFaults
  BY FaultType DEF FleetInv, Types, Revive, Crash
<1>4. Types'
  BY <1>1, <1>2, <1>3 DEF FleetInv, Types
<1> QED BY <1>1, <1>4, RowsStand

\* The configuration of a push is made of rows of the table.
LEMMA ConfigType ==
  ASSUME Types, NEW i \in Ids
  PROVE  ConfigOf(i) \subseteq SUBSET Inbounds
<1>1. \A k \in Ids : Inbound(k) \in Inbounds
  BY InboundType
<1>2. PushPeers(i) \subseteq Ids
  BY DEF PushPeers
<1>3. /\ BuildXray(i) \in SUBSET Inbounds /\ BuildSs(i) \in SUBSET Inbounds
      /\ BuildHy2(i) \in SUBSET Inbounds
      /\ \A k \in PushPeers(i) : /\ BuildDual(k, i) \in SUBSET Inbounds
                                 /\ BuildDual(i, k) \in SUBSET Inbounds
  BY <1>1, <1>2 DEF BuildXray, BuildSs, BuildHy2, BuildDual
<1>4. CASE row[i].proto = "hy2"
  <2>1. ConfigOf(i) = {BuildHy2(i)}
    BY <1>4 DEF ConfigOf
  <2> QED BY <1>3, <2>1
<1>5. CASE row[i].proto = "ss"
  <2>1. ConfigOf(i) = IF PushPeers(i) = {} THEN {BuildSs(i)}
                      ELSE {BuildDual(k, i) : k \in PushPeers(i)}
    BY <1>5 DEF ConfigOf
  <2> QED BY <1>3, <2>1
<1>6. CASE row[i].proto \notin {"hy2", "ss"}
  <2>1. ConfigOf(i) = IF PushPeers(i) = {} THEN {BuildXray(i)}
                      ELSE {BuildDual(i, k) : k \in PushPeers(i)}
    BY <1>6 DEF ConfigOf
  <2> QED BY <1>3, <2>1
<1> QED BY <1>4, <1>5, <1>6

\* Users, pushes, and the beginning of a deletion.
LEMMA PanelStep ==
  ASSUME FleetInv,
         \/ Change \/ SyncBegin \/ PushWrite \/ PushFails
         \/ \E i \in Ids : PushRead(i) \/ DeleteBegin(i)
  PROVE  FleetInv'
<1>1. UNCHANGED <<row, job, agent, reported, deployed, tangled>>
  BY DEF Change, SyncBegin, PushRead, PushWrite, PushFails, DeleteBegin, machine, history
<1>2. ver' \in 1..MaxVer
  <2>1. ver' = ver \/ (ver < MaxVer /\ ver' = ver + 1)
    BY DEF Change, SyncBegin, PushRead, PushWrite, PushFails, DeleteBegin
  <2>2. ver \in 1..MaxVer
    BY DEF FleetInv, Types
  <2> QED BY <2>1, <2>2
<1>3. faults' \in 0..MaxFaults
  BY FaultType
  DEF FleetInv, Types, Change, SyncBegin, PushRead, PushWrite, PushFails, DeleteBegin
<1>4. /\ file' \in [Services -> SUBSET Inbounds] /\ live' \in [Services -> SUBSET Inbounds]
  <2>1. CASE PushWrite
    BY <2>1 DEF FleetInv, Types, PushWrite
  <2>2. CASE UNCHANGED <<file, live>>
    BY <2>2 DEF FleetInv, Types
  <2> QED BY <2>1, <2>2 DEF Change, SyncBegin, PushRead, PushFails, DeleteBegin, machine
<1>5. push' \in [todo : SUBSET Ids, cur : 0..MaxRows, conf : SUBSET Inbounds]
  <2>1. push \in [todo : SUBSET Ids, cur : 0..MaxRows, conf : SUBSET Inbounds] /\ 0 \in 0..MaxRows
    BY DEF FleetInv, Types
  <2>2. CASE SyncBegin
    <3>1. push' = [todo |-> {i \in Ids : On(i)}, cur |-> 0, conf |-> {}]
      BY <2>2 DEF SyncBegin
    <3> QED BY <2>1, <3>1
  <2>3. CASE PushWrite \/ PushFails
    <3>1. push' = [push EXCEPT !.cur = 0, !.conf = {}]
      BY <2>3 DEF PushWrite, PushFails
    <3> QED BY <2>1, <3>1
  <2>4. ASSUME NEW i \in Ids, PushRead(i)
        PROVE  push' \in [todo : SUBSET Ids, cur : 0..MaxRows, conf : SUBSET Inbounds]
    <3>1. PICK c \in ConfigOf(i) : push' = [todo |-> push.todo \ {i}, cur |-> i, conf |-> c]
      BY <2>4 DEF PushRead
    <3>2. c \in SUBSET Inbounds /\ i \in 0..MaxRows /\ push.todo \ {i} \in SUBSET Ids
      BY <2>1, ConfigType DEF FleetInv, Ids
    <3> QED BY <3>1, <3>2
  <2>5. CASE push' = push
    BY <2>1, <2>5
  <2> QED BY <2>2, <2>3, <2>4, <2>5 DEF Change, DeleteBegin
<1>6. /\ del' = del \/ Exists(del'.row)
      /\ del' \in [row : 0..MaxRows, via : {"none", "agent", "ssh"}]
  <2>1. ASSUME NEW i \in Ids, DeleteBegin(i) PROVE <1>6!1 /\ <1>6!2
    <3>1. /\ Exists(i) /\ i \in 0..MaxRows
          /\ del' = [row |-> i, via |-> IF AgentOnline THEN "agent" ELSE "ssh"]
      BY <2>1 DEF DeleteBegin, Ids
    <3> QED BY <3>1
  <2>2. CASE del' = del
    BY <2>2 DEF FleetInv, Types
  <2> QED BY <2>1, <2>2 DEF Change, SyncBegin, PushRead, PushWrite, PushFails
<1>7. Types'
  BY <1>1, <1>2, <1>3, <1>4, <1>5, <1>6 DEF FleetInv, Types
<1> QED BY <1>1, <1>6, <1>7, RowsStand

\* A row that goes leaves what is said of the others as it was.
LEMMA DeleteStep ==
  ASSUME FleetInv, DeleteEnd
  PROVE  FleetInv'
<1>1. PICK d : d = del.row /\ d \in Ids /\ row[d].st # "fresh"
  BY DEF FleetInv, Types, DeleteInv, DeleteEnd, Ids
<1>2. /\ del' = NoDel /\ reported' = reported \ {d}
      /\ UNCHANGED <<job, file, push, ver, deployed, tangled>>
      /\ agent' = agent \/ agent' = 0
      /\ row' = [row EXCEPT ![d].st = "gone"]
  BY <1>1 DEF DeleteEnd, history
<1>3. row \in [Ids -> RowType]
  BY DEF FleetInv, Types
<1>4. /\ row' \in [Ids -> RowType]
      /\ \A i \in Ids : /\ row'[i].proto = row[i].proto
                        /\ row'[i].st = IF i = d THEN "gone" ELSE row[i].st
  BY <1>1, <1>2, <1>3 DEF RowType
<1>5. ASSUME NEW i \in Ids
      PROVE  /\ row'[i].st = "fresh" <=> row[i].st = "fresh"
             /\ Exists(i)' => (Exists(i) /\ i # d)
             /\ On(i)' => On(i)
  BY <1>1, <1>4 DEF Exists, On
<1>6. live' \in [Services -> SUBSET Inbounds] /\ faults' \in 0..MaxFaults
  <2>1. live' \in [Services -> SUBSET Inbounds]
    BY DEF FleetInv, Types, DeleteEnd
  <2>2. faults' \in 0..MaxFaults
    BY FaultType DEF FleetInv, Types, DeleteEnd
  <2> QED BY <2>1, <2>2
<1>7. Types'
  <2>1. agent' \in 0..MaxRows
    BY <1>2 DEF FleetInv, Types
  <2>2. NoDel \in [row : 0..MaxRows, via : {"none", "agent", "ssh"}]
    BY DEF NoDel
  <2> QED BY <1>2, <1>4, <1>6, <2>1, <2>2 DEF FleetInv, Types
<1>8. FreshInv'
  BY <1>5 DEF FleetInv, FreshInv
<1>9. JobInv'
  <2>1. ASSUME NEW j \in Jobs, NEW i \in job[j].ids PROVE row'[i].st # "fresh"
    <3>1. i \in Ids /\ row[i].st # "fresh"
      BY DEF FleetInv, JobInv, Types, JobType
    <3> QED BY <1>5, <3>1
  <2> QED BY <1>2, <2>1 DEF FleetInv, JobInv
<1>10. agent # 0 => agent \in Ids
  BY DEF FleetInv, Types, Ids
<1>11. AgentInv' /\ DeleteInv'
  BY <1>2, <1>5, <1>10 DEF FleetInv, AgentInv, DeleteInv, NoDel
<1>12. ASSUME ~tangled PROVE AloneInv'
  <2>1. AloneInv
    BY <1>12 DEF FleetInv
  <2>2. AgentOnline' => AgentOnline
    BY <1>2, <1>5, <1>10 DEF AgentOnline
  <2>3. \A i, k \in Ids : Exists(i)' /\ Exists(k)' =>
          (i # k => row'[i].proto # row'[k].proto) /\ row'[i].st = row'[k].st
    BY <1>4, <1>5, <2>1 DEF AloneInv
  <2> QED BY <1>2, <1>5, <2>1, <2>2, <2>3 DEF AloneInv
<1> QED BY <1>2, <1>7, <1>8, <1>9, <1>11, <1>12 DEF FleetInv

LEMMA RestartStep ==
  ASSUME FleetInv, Restart
  PROVE  FleetInv'
<1>1. /\ job' = [j \in Jobs |-> Idle] /\ push' = NoPush /\ del' = NoDel
      /\ UNCHANGED <<row, file, live, agent, reported, ver, deployed, tangled>>
  BY DEF Restart, machine, history
<1>2. \A j \in Jobs : job'[j].ph = "idle" /\ job'[j].ids = {}
  BY <1>1 DEF Idle
<1>3. Types'
  <2>1. Idle \in JobType
    BY DEF Idle, JobType, Phases
  <2>2. /\ NoPush \in [todo : SUBSET Ids, cur : 0..MaxRows, conf : SUBSET Inbounds]
        /\ NoDel \in [row : 0..MaxRows, via : {"none", "agent", "ssh"}]
    BY DEF NoPush, NoDel
  <2>3. faults' \in 0..MaxFaults
    BY FaultType DEF FleetInv, Restart
  <2> QED BY <1>1, <2>1, <2>2, <2>3 DEF FleetInv, Types
<1>4. FreshInv' /\ JobInv' /\ AgentInv' /\ DeleteInv'
  BY <1>1, <1>2 DEF FleetInv, FreshInv, JobInv, AgentInv, DeleteInv, NoDel, Working
<1>5. ~tangled => AloneInv'
  BY <1>1, <1>2 DEF FleetInv, AloneInv, Working, AgentOnline, Exists, On
<1> QED BY <1>1, <1>3, <1>4, <1>5 DEF FleetInv

----------------------------------------------------------------------------
LEMMA FleetInit == Init => FleetInv
<1> SUFFICES ASSUME Init PROVE FleetInv
  OBVIOUS
<1>1. \A i \in Ids : row[i] = [st |-> "fresh", proto |-> "vless"]
  BY DEF Init
<1>2. \A j \in Jobs : job[j] = Idle
  BY DEF Init
<1>3. /\ Idle \in JobType /\ Idle.ph = "idle" /\ Idle.ids = {}
      /\ NoPush \in [todo : SUBSET Ids, cur : 0..MaxRows, conf : SUBSET Inbounds]
      /\ NoDel \in [row : 0..MaxRows, via : {"none", "agent", "ssh"}] /\ NoDel.row = 0
  BY DEF Idle, JobType, Phases, NoPush, NoDel
<1>4. Types
  <2>1. row \in [Ids -> RowType]
    BY DEF Init, RowType, Protocols
  <2>2. job \in [Jobs -> JobType]
    BY <1>3 DEF Init
  <2>3. /\ file \in [Services -> SUBSET Inbounds] /\ live \in [Services -> SUBSET Inbounds]
        /\ agent \in 0..MaxRows /\ reported \subseteq Ids /\ deployed \subseteq Ids
        /\ ver \in 1..MaxVer /\ tangled \in BOOLEAN /\ faults \in 0..MaxFaults
    <3>1. /\ file \in [Services -> SUBSET Inbounds] /\ live \in [Services -> SUBSET Inbounds]
          /\ reported \subseteq Ids /\ deployed \subseteq Ids /\ tangled \in BOOLEAN
      BY DEF Init
    <3>2. agent = 0 /\ ver = 1 /\ faults = 0
      BY DEF Init
    <3>3. agent \in 0..MaxRows /\ ver \in 1..MaxVer /\ faults \in 0..MaxFaults
      BY <3>2
    <3> QED BY <3>1, <3>3
  <2> QED BY <1>3, <2>1, <2>2, <2>3 DEF Init, Types
<1>5. FreshInv
  <2>1. 1 \in 1..(MaxRows + 1) /\ \A i \in Ids : i >= 1
    BY DEF Ids
  <2> QED BY <1>1, <2>1 DEF FreshInv
<1>6. JobInv
  BY <1>2, <1>3 DEF JobInv, Working
<1>7. AgentInv /\ DeleteInv
  BY <1>3 DEF AgentInv, DeleteInv, Init
<1>8. AloneInv
  BY <1>1, <1>2, <1>3 DEF Init, AloneInv, Exists, On, Working, AgentOnline
<1> QED BY <1>4, <1>5, <1>6, <1>7, <1>8 DEF FleetInv

LEMMA FleetNext == FleetInv /\ [Next]_vars => FleetInv'
<1> SUFFICES ASSUME FleetInv, [Next]_vars PROVE FleetInv'
  OBVIOUS
<1>1. CASE UNCHANGED vars
  BY <1>1 DEF vars, FleetInv, Types, FreshInv, JobInv, AgentInv, DeleteInv, AloneInv,
              Exists, On, AgentOnline
<1>2. CASE Next
  <2>1. CASE (\E j \in Jobs, kind \in Kinds : Submit(j, kind)) \/ \E j, k \in Jobs : SubmitSmart(j, k)
    BY <2>1, SubmitStep
  <2>2. CASE \E j \in Jobs : Deploy(j)
    BY <2>2, DeployStep
  <2>3. CASE Report \/ \E i \in Ids : Stale(i)
    BY <2>3, ReportStep
  <2>4. CASE Revive \/ \E s \in Services : Crash(s)
    BY <2>4, MachineStep
  <2>5. CASE \/ Change \/ SyncBegin \/ PushWrite \/ PushFails
             \/ \E i \in Ids : PushRead(i) \/ DeleteBegin(i)
    BY <2>5, PanelStep
  <2>6. CASE DeleteEnd
    BY <2>6, DeleteStep
  <2>7. CASE Restart
    BY <2>7, RestartStep
  <2> QED BY <1>2, <2>1, <2>2, <2>3, <2>4, <2>5, <2>6, <2>7
          DEF Next, DeployNode, DeploySsNode, DeployDualNode, DeployHy2Node
<1> QED BY <1>1, <1>2

\* Rows are active only after their deployment succeeded, and together, for
\* any number of rows, versions and faults (deploy.js:620, health.js:272, 289).
THEOREM RowsTrue == Spec => []RowsAreTrue
<1>1. FleetInv => RowsAreTrue
  <2> SUFFICES ASSUME FleetInv PROVE RowsAreTrue
    OBVIOUS
  <2>1. ASSUME NEW j \in Jobs
        PROVE  /\ job[j].ph \notin {"idle", "geo"} => job[j].ids # {}
               /\ \A i \in job[j].ids : row[i].st # "fresh"
               /\ \A k \in Jobs \ {j} : job[j].ids \cap job[k].ids = {}
    <3>1. job[j].ph \in Phases
      BY DEF FleetInv, Types, JobType
    <3>2. ASSUME job[j].ph \in Working PROVE job[j].ids # {}
      <4>1. \E n \in Ids : job[j].ids = RowsFrom(job[j].kind, n)
        BY <3>2 DEF FleetInv, JobInv
      <4> QED BY <4>1 DEF RowsFrom
    <3> QED BY <3>1, <3>2 DEF FleetInv, JobInv, Working
  <2>2. TypeOK
    BY <2>1 DEF FleetInv, Types, TypeOK, RowType, JobType, Phases
  <2>3. ActiveWasDeployed /\ TwinsAgree
    BY DEF FleetInv, AloneInv, ActiveWasDeployed, TwinsAgree
  <2> QED BY <2>2, <2>3 DEF RowsAreTrue
<1> QED BY <1>1, FleetInit, FleetNext, PTL DEF Spec
=============================================================================
