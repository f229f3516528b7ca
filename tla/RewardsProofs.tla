---------------------------- MODULE RewardsProofs -----------------------------
(***************************************************************************)
(* Theorems about what users gain, for any sets of users, any groups and   *)
(* any limits: the farm of module Rewards, and the accounts themselves,    *)
(* the registration of module Signup.                                      *)
(*                                                                         *)
(* That a crop is given away once is inductive only together with the      *)
(* times (PastInv): a crop is known by when it was planted, and a plot     *)
(* that is planted again carries a later time than any crop that was       *)
(* stolen from, harvested or announced, because that one was ripe.         *)
(*                                                                         *)
(* That an invitation lets one account in is inductive only together with  *)
(* the mark of the row: one that is unused has let nobody in (JoinedInv).  *)
(***************************************************************************)
EXTENDS MCRecords, FiniteSetTheorems, SequenceTheorems, WellFoundedInduction, TLAPS

----------------------------------------------------------------------------
(* Counting, division and the group a number of check-ins leads to          *)

\* Rewards counts as the library does.
LEMMA SameCount == \A Z : W!Cardinality(Z) = Cardinality(Z)
  BY DEF W!Cardinality, Cardinality

\* A set gains at most one element at a time.
LEMMA OneMore ==
  ASSUME NEW A, IsFiniteSet(A), NEW x
  PROVE  /\ Cardinality(A) \in Nat /\ Cardinality(A \cup {x}) \in Nat
         /\ Cardinality(A \cup {x}) <= Cardinality(A) + 1
<1>1. Cardinality(A) \in Nat
  BY FS_CardinalityType
<1>2. Cardinality(A \cup {x}) = IF x \in A THEN Cardinality(A) ELSE Cardinality(A) + 1
  BY FS_AddElement
<1> QED BY <1>1, <1>2

\* What was, was on this day or an earlier one.
LEMMA DaysGoOn ==
  ASSUME NEW a \in Nat, NEW b \in Nat, a <= b, NEW d \in Nat, d > 0
  PROVE  a \div d \in Nat /\ b \div d \in Nat /\ a \div d <= b \div d
  BY Z3

\* A set of numbers that has a bound and a member has a greatest member.
LEMMA Greatest ==
  ASSUME NEW b \in Nat, NEW K, K \subseteq 0..b, K # {}
  PROVE  \E k \in K : \A j \in K : j <= k
<1> DEFINE T == {b - k : k \in K}
<1>1. T \subseteq Nat /\ T # {}
  <2>1. PICK k \in K : TRUE
    OBVIOUS
  <2>2. b - k \in T
    BY <2>1
  <2> QED BY <2>2
<1>2. PICK x \in T : \A y \in T : ~ (<<y, x>> \in OpToRel(<, Nat))
  BY <1>1, NatLessThanWellFounded, WFMin, Zenon
<1>3. \A y \in T : x <= y
  <2>1. \A y \in T : y \in Nat /\ x \in Nat => ~(y < x)
    BY <1>2, Zenon DEF OpToRel
  <2> QED BY <1>1, <2>1
<1>4. PICK k \in K : x = b - k
  BY <1>2
<1>5. \A j \in K : b - k <= b - j
  BY <1>3, <1>4
<1> QED BY <1>4, <1>5

\* The groups are those of the code: the number of plots grows up to the last.
LEMMA Groups ==
  /\ W!TopLevel \in Nat /\ W!Levels = 0..W!TopLevel /\ 0 \in W!Levels
  /\ PlotsByLevel \in [W!Levels -> Nat \ {0}]
  /\ \A l \in W!Levels : PlotsByLevel[l] <= PlotsByLevel[W!TopLevel]
  /\ UpgradeAt \in [W!Levels -> Nat]
  BY RewardsAssumption DEF W!GroupsAssumption

LEMMA Limits ==
  /\ Mature \in Nat /\ Day \in Nat /\ Yield \in Nat /\ StealMax \in Nat /\ StealDaily \in Nat
  /\ RpsDaily \in Nat /\ MaxClock \in Nat
  /\ Day > 0 /\ Mature > 0
  BY RewardsAssumption DEF W!FarmAssumption

\* A check-in leads to a group, and never to a lower one.
LEMMA UpgradeUp ==
  ASSUME NEW l \in W!Levels, NEW count \in Nat
  PROVE  W!Upgrade(l, count) \in W!Levels /\ W!Upgrade(l, count) >= l
<1> USE Groups
<1> DEFINE K == {k \in l..W!TopLevel : k = l \/ count >= UpgradeAt[k]}
<1>1. l \in K /\ K \subseteq 0..W!TopLevel
  OBVIOUS
<1>2. PICK k \in K : \A j \in K : j <= k
  <2> HIDE DEF K
  <2> QED BY <1>1, Greatest
<1>3. \A j \in (k + 1)..W!TopLevel : count < UpgradeAt[j]
  <2> SUFFICES ASSUME NEW j \in (k + 1)..W!TopLevel, ~(count < UpgradeAt[j]) PROVE FALSE
    OBVIOUS
  <2>1. j \in l..W!TopLevel /\ UpgradeAt[j] \in Nat
    OBVIOUS
  <2>2. j \in K
    BY <2>1
  <2> QED BY <1>2, <2>2
<1>4. W!Upgrade(l, count) \in l..W!TopLevel
  BY <1>2, <1>3 DEF W!Upgrade
<1> QED BY <1>4

----------------------------------------------------------------------------
(* Types                                                                    *)

UserTypes ==
  /\ clock \in W!Times
  /\ level \in [Users -> W!Levels]
  /\ checkins \in [Users -> 0..UpgradeAt[W!TopLevel]]
  /\ checked \subseteq Users
  /\ seeds \in [Users -> Nat] /\ \A u \in Users : seeds[u] <= PlotsByLevel[W!TopLevel]
  /\ restarts \in Nat
FarmTypes ==
  /\ planted \in [Users -> [W!Slots -> W!Times \cup {-1}]]
  /\ marked \subseteq Users \X W!Slots
  /\ steals \subseteq [thief : Users, victim : Users, slot : W!Slots, at : W!Times, day : Nat]
  /\ harvests \subseteq [owner : Users, slot : W!Slots, at : W!Times, day : Nat, gb : Int]
GameTypes ==
  /\ spun \subseteq Players
  /\ plays \in [Users -> 0..RpsDaily]
  /\ cards \in [Users -> SUBSET Cards]
JobTypes ==
  /\ job \in [Runners -> SUBSET W!Crops]
  /\ told \subseteq W!Crops
  /\ repeated \in BOOLEAN
Types == UserTypes /\ FarmTypes /\ GameTypes /\ JobTypes

LEMMA TypesAreTypeOK == Types <=> W!TypeOK
  BY DEF Types, UserTypes, FarmTypes, GameTypes, JobTypes, W!TypeOK

LEMMA RewardsInit == W!Init => Types
<1> SUFFICES ASSUME W!Init PROVE Types
  OBVIOUS
<1> USE Groups, Limits DEF W!Init
<1>1. UserTypes BY DEF UserTypes, W!Times
<1>2. FarmTypes BY DEF FarmTypes
<1>3. GameTypes BY DEF GameTypes
<1>4. JobTypes  BY DEF JobTypes
<1> QED BY <1>1, <1>2, <1>3, <1>4 DEF Types

\* Today is a day.
LEMMA TodayIsDay == ASSUME Types PROVE W!Today \in Nat
  BY DaysGoOn, Limits DEF Types, UserTypes, W!Times, W!Today

\* A ripe crop stands on its plot since a time that is past.
LEMMA RipeCrop ==
  ASSUME Types, NEW u \in Users, NEW s \in W!Slots, W!Ripe(u, s)
  PROVE  planted[u][s] \in W!Times /\ planted[u][s] + Mature <= clock
  BY Limits DEF Types, FarmTypes, UserTypes, W!Ripe, W!Times

\* Farm actions only change what they name.
LEMMA PlantChanges ==
  ASSUME Types, NEW u \in Users, NEW s \in W!Slots, W!Plant(u, s)
  PROVE  /\ planted' \in [Users -> [W!Slots -> W!Times \cup {-1}]]
         /\ planted[u][s] = -1 /\ planted'[u][s] = clock
         /\ \A v \in Users, x \in W!Slots : v # u \/ x # s => planted'[v][x] = planted[v][x]
  BY DEF Types, FarmTypes, UserTypes, W!Plant

LEMMA HarvestChanges ==
  ASSUME Types, NEW u \in Users, NEW Z \in SUBSET W!Slots, W!Harvest(u, Z)
  PROVE  /\ planted' \in [Users -> [W!Slots -> W!Times \cup {-1}]]
         /\ \A v \in Users, x \in W!Slots :
              planted'[v][x] = IF v = u /\ x \in Z /\ W!Ripe(u, x) THEN -1 ELSE planted[v][x]
<1> DEFINE ripe == {s \in Z : W!Ripe(u, s)}
<1>1. planted' = [planted EXCEPT ![u] = [s \in W!Slots |-> IF s \in ripe THEN -1 ELSE @[s]]]
  BY DEF W!Harvest
<1>2. planted \in [Users -> [W!Slots -> W!Times \cup {-1}]]
  BY DEF Types, FarmTypes
<1> HIDE DEF ripe
<1>3. [s \in W!Slots |-> IF s \in ripe THEN -1 ELSE planted[u][s]] \in [W!Slots -> W!Times \cup {-1}]
  BY <1>2
<1>4. planted' \in [Users -> [W!Slots -> W!Times \cup {-1}]]
  BY <1>1, <1>2, <1>3
<1>5. \A v \in Users, x \in W!Slots :
        planted'[v][x] = IF v = u /\ x \in ripe THEN -1 ELSE planted[v][x]
  BY <1>1, <1>2
<1> QED BY <1>4, <1>5 DEF ripe

\* The thefts of a crop are finitely many.
LEMMA TheftsFinite ==
  ASSUME IsFiniteSet(steals), NEW u, NEW s, NEW at
  PROVE  IsFiniteSet(W!Thefts(u, s, at)) /\ W!Cardinality(W!Thefts(u, s, at)) \in Nat
<1>1. W!Thefts(u, s, at) \subseteq steals
  BY DEF W!Thefts
<1>2. IsFiniteSet(W!Thefts(u, s, at))
  BY <1>1, FS_Subset
<1> QED BY <1>2, SameCount, FS_CardinalityType

LEMMA HarvestTypes ==
  ASSUME Types, IsFiniteSet(steals), NEW u \in Users, NEW Z \in SUBSET W!Slots, W!Harvest(u, Z)
  PROVE  FarmTypes'
<1>1. planted' \in [Users -> [W!Slots -> W!Times \cup {-1}]]
  BY HarvestChanges
<1>2. marked' \subseteq Users \X W!Slots /\ steals' = steals
  BY DEF W!Harvest, Types, FarmTypes
<1>3. harvests' \subseteq [owner : Users, slot : W!Slots, at : W!Times, day : Nat, gb : Int]
  <2> SUFFICES ASSUME NEW h \in harvests', h \notin harvests
               PROVE  h \in [owner : Users, slot : W!Slots, at : W!Times, day : Nat, gb : Int]
    BY DEF Types, FarmTypes
  <2>1. PICK s \in Z : /\ W!Ripe(u, s)
                       /\ h = [owner |-> u, slot |-> s, at |-> planted[u][s], day |-> W!Today,
                               gb |-> W!Expected(u, s)]
    BY DEF W!Harvest
  <2>2. planted[u][s] \in W!Times
    BY <2>1, RipeCrop
  <2>3. W!Expected(u, s) \in Int
    BY TheftsFinite, Limits DEF W!Expected, W!Stolen
  <2> QED BY <2>1, <2>2, <2>3, TodayIsDay
<1> QED BY <1>1, <1>2, <1>3 DEF FarmTypes, Types

LEMMA StealTypes ==
  ASSUME Types, NEW u \in Users, NEW v \in Users, NEW s \in W!Slots, W!Steal(u, v, s)
  PROVE  FarmTypes'
<1>1. W!Ripe(v, s)
  BY DEF W!Steal, W!CanSteal
<1>2. planted[v][s] \in W!Times
  BY <1>1, RipeCrop
<1>3. [thief |-> u, victim |-> v, slot |-> s, at |-> planted[v][s], day |-> W!Today]
        \in [thief : Users, victim : Users, slot : W!Slots, at : W!Times, day : Nat]
  BY <1>2, TodayIsDay
<1> QED BY <1>3 DEF W!Steal, Types, FarmTypes

LEMMA CheckInTypes ==
  ASSUME Types, NEW u \in Users, W!CheckIn(u) PROVE UserTypes'
<1> USE Groups DEF Types, UserTypes
<1>1. checkins' \in [Users -> 0..UpgradeAt[W!TopLevel]]
  <2>1. UpgradeAt[W!TopLevel] \in Nat
    OBVIOUS
  <2> QED BY <2>1 DEF W!CheckIn
<1>2. checkins'[u] \in Nat
  BY <1>1
<1>3. W!Upgrade(level[u], checkins'[u]) \in W!Levels
  BY <1>2, UpgradeUp
<1>4. level' \in [Users -> W!Levels]
  BY <1>3 DEF W!CheckIn
<1>5. seeds' \in [Users -> Nat] /\ \A v \in Users : seeds'[v] <= PlotsByLevel[W!TopLevel]
  <2> DEFINE cap == PlotsByLevel[level'[u]]
  <2>1. cap \in Nat /\ cap <= PlotsByLevel[W!TopLevel]
    BY <1>4
  <2>2. seeds' = [seeds EXCEPT ![u] = IF @ + cap <= cap THEN @ + cap ELSE IF @ >= cap THEN @ ELSE cap]
    BY DEF W!CheckIn
  <2> HIDE DEF cap
  <2>3. seeds[u] \in Nat /\ seeds[u] <= PlotsByLevel[W!TopLevel]
    OBVIOUS
  <2>4. seeds'[u] \in Nat /\ seeds'[u] <= PlotsByLevel[W!TopLevel]
    BY <2>1, <2>2, <2>3
  <2> QED BY <2>2, <2>4
<1> QED BY <1>1, <1>4, <1>5 DEF W!CheckIn, W!Times

\* One turn of the notification job touches its rows, which crops they were,
\* and the marks of plots that are planted.
LEMMA TellTypes ==
  ASSUME Types, NEW r \in Runners, NEW rows \in SUBSET W!Crops, W!Tell(r, rows)
  PROVE  Types'
<1>1. PICK row \in rows :
        /\ marked' = IF planted[row[1]][row[2]] = -1 THEN marked ELSE marked \cup {<<row[1], row[2]>>}
        /\ told' = told \cup {row}
        /\ repeated' = (repeated \/ row \in told)
        /\ job' = [job EXCEPT ![r] = rows \ {row}]
        /\ UNCHANGED <<clock, seeds, planted, steals, harvests, W!gameVars, W!userVars, restarts>>
  BY DEF W!Tell
<1>2. <<row[1], row[2]>> \in Users \X W!Slots
  BY <1>1 DEF W!Crops
<1>3. JobTypes'
  <2>1. job' \in [Runners -> SUBSET W!Crops]
    BY <1>1 DEF Types, JobTypes
  <2>2. repeated' \in BOOLEAN
    BY <1>1
  <2> QED BY <1>1, <2>1, <2>2 DEF Types, JobTypes
<1>4. FarmTypes'
  BY <1>1, <1>2 DEF Types, FarmTypes
<1>5. UserTypes' /\ GameTypes'
  BY <1>1 DEF Types, UserTypes, GameTypes, W!gameVars, W!userVars
<1> QED BY <1>3, <1>4, <1>5 DEF Types

\* The rows an execution reads are ripe crops.
RipeRows(rows) == \A row \in rows : row \in W!Crops /\ row[3] + Mature <= clock
LEMMA NotifyReads ==
  ASSUME Types, NEW r \in Runners, W!NotifyStart(r)
  PROVE  \E rows : W!Tell(r, rows) /\ RipeRows(rows)
<1> DEFINE rows == {<<p[1], p[2], planted[p[1]][p[2]]>> :
                      p \in {q \in Users \X W!Slots : W!Ripe(q[1], q[2]) /\ q \notin marked}}
<1>1. W!Tell(r, rows)
  BY DEF W!NotifyStart
<1>2. ASSUME NEW row \in rows PROVE row \in W!Crops /\ row[3] + Mature <= clock
  <2>1. PICK p \in Users \X W!Slots : /\ W!Ripe(p[1], p[2])
                                      /\ row = <<p[1], p[2], planted[p[1]][p[2]]>>
    OBVIOUS
  <2>2. p[1] \in Users /\ p[2] \in W!Slots
    OBVIOUS
  <2>3. planted[p[1]][p[2]] \in W!Times /\ planted[p[1]][p[2]] + Mature <= clock
    BY <2>1, <2>2, RipeCrop
  <2> QED BY <2>1, <2>2, <2>3 DEF W!Crops
<1> HIDE DEF rows
<1> QED BY <1>1, <1>2 DEF RipeRows

LEMMA TypesStep == Types /\ IsFiniteSet(steals) /\ W!Next => Types'
<1> SUFFICES ASSUME Types, IsFiniteSet(steals), W!Next PROVE Types'
  OBVIOUS
<1>u. Farmers \subseteq Users /\ Players \subseteq Users
  BY RewardsAssumption DEF W!PlayersAssumption
<1>1. ASSUME NEW u \in Users, W!CheckIn(u) PROVE Types'
  <2>1. FarmTypes' /\ GameTypes' /\ JobTypes'
    BY <1>1 DEF Types, FarmTypes, GameTypes, JobTypes, W!CheckIn, W!gameVars, W!jobVars
  <2> QED BY <1>1, <2>1, CheckInTypes DEF Types
<1>2. ASSUME NEW u \in Users, NEW s \in W!Slots, W!Plant(u, s) PROVE Types'
  <2>1. seeds' \in [Users -> Nat] /\ \A v \in Users : seeds'[v] <= PlotsByLevel[W!TopLevel]
    BY <1>2, Groups DEF Types, UserTypes, W!Plant
  <2>2. FarmTypes'
    BY <1>2, PlantChanges DEF Types, FarmTypes, W!Plant
  <2>3. UserTypes'
    BY <1>2, <2>1 DEF Types, UserTypes, W!Plant, W!userVars
  <2>4. GameTypes' /\ JobTypes'
    BY <1>2 DEF Types, GameTypes, JobTypes, W!Plant, W!gameVars, W!jobVars
  <2> QED BY <2>2, <2>3, <2>4 DEF Types
<1>3. ASSUME NEW u \in Users, NEW Z \in SUBSET W!Slots, W!Harvest(u, Z) PROVE Types'
  <2>1. UserTypes' /\ GameTypes' /\ JobTypes'
    BY <1>3 DEF Types, UserTypes, GameTypes, JobTypes, W!Harvest, W!gameVars, W!jobVars, W!userVars
  <2> QED BY <1>3, <2>1, HarvestTypes DEF Types
<1>4. ASSUME NEW u \in Users, NEW v \in Users, NEW s \in W!Slots, W!Steal(u, v, s) PROVE Types'
  <2>1. UserTypes' /\ GameTypes' /\ JobTypes'
    BY <1>4 DEF Types, UserTypes, GameTypes, JobTypes, W!Steal, W!gameVars, W!jobVars, W!userVars
  <2> QED BY <1>4, <2>1, StealTypes DEF Types
<1>5. ASSUME NEW u \in Players, W!Play(u) PROVE Types'
  <2>1. GameTypes'
    <3>1. CASE W!LuckySpin(u)
      BY <1>5, <3>1 DEF W!LuckySpin, Types, GameTypes
    <3>2. CASE W!RpsPlay(u)
      BY <1>u, <3>2, Limits DEF W!RpsPlay, Types, GameTypes
    <3>3. ASSUME NEW c \in Cards, W!FlipDraw(u, c) PROVE GameTypes'
      BY <1>u, <3>3 DEF W!FlipDraw, Types, GameTypes
    <3> QED BY <1>5, <3>1, <3>2, <3>3 DEF W!Play
  <2>2. UserTypes' /\ FarmTypes' /\ JobTypes'
    BY <1>5 DEF W!Play, W!LuckySpin, W!RpsPlay, W!FlipDraw, W!farmVars, W!userVars, W!jobVars,
       Types, UserTypes, FarmTypes, JobTypes
  <2> QED BY <2>1, <2>2 DEF Types
<1>6. ASSUME NEW r \in Runners, W!NotifyStart(r) \/ W!NotifyNext(r) PROVE Types'
  <2>1. CASE W!NotifyStart(r)
    <3>1. PICK rows : W!Tell(r, rows) /\ RipeRows(rows)
      BY <2>1, NotifyReads
    <3>2. rows \in SUBSET W!Crops
      BY <3>1 DEF RipeRows
    <3> QED BY <3>1, <3>2, TellTypes
  <2>2. CASE W!NotifyNext(r)
    <3>1. job[r] \in SUBSET W!Crops
      BY DEF Types, JobTypes
    <3> QED BY <2>2, <3>1, TellTypes DEF W!NotifyNext
  <2> QED BY <1>6, <2>1, <2>2
<1>7. CASE W!Tick
  <2>1. clock' \in W!Times
    BY <1>7, Limits DEF W!Tick, W!Times, Types, UserTypes
  <2>2. checked' \subseteq Users
    BY <1>7 DEF W!Tick, Types, UserTypes
  <2>3. UserTypes'
    BY <1>7, <2>1, <2>2 DEF W!Tick, W!farmVars, Types, UserTypes
  <2>4. GameTypes'
    BY <1>7, Limits DEF W!Tick, W!gameVars, Types, GameTypes
  <2>5. FarmTypes' /\ JobTypes'
    BY <1>7 DEF W!Tick, W!farmVars, W!jobVars, Types, FarmTypes, JobTypes
  <2> QED BY <2>3, <2>4, <2>5 DEF Types
<1>8. CASE W!Restart
  <2>1. job' \in [Runners -> SUBSET W!Crops]
    BY <1>8 DEF W!Restart
  <2>2. JobTypes'
    BY <1>8, <2>1 DEF W!Restart, Types, JobTypes
  <2>3. restarts' \in Nat
    BY <1>8 DEF W!Restart, Types, UserTypes
  <2>4. UserTypes'
    BY <1>8, <2>3 DEF W!Restart, W!farmVars, W!userVars, Types, UserTypes
  <2>5. FarmTypes' /\ GameTypes'
    BY <1>8 DEF W!Restart, W!farmVars, W!gameVars, Types, FarmTypes, GameTypes
  <2> QED BY <2>2, <2>4, <2>5 DEF Types
<1> QED BY <1>u, <1>1, <1>2, <1>3, <1>4, <1>5, <1>6, <1>7, <1>8 DEF W!Next, W!Farm

----------------------------------------------------------------------------
(* The farm                                                                 *)

\* Everything recorded of a crop was recorded when it was ripe.
PastInv ==
  /\ \A t \in steals : t.at + Mature <= clock /\ t.day <= W!Today
  /\ \A h \in harvests : h.at + Mature <= clock
  /\ \A u \in Users, s \in W!Slots : planted[u][s] <= clock
  /\ RipeRows(told) /\ \A r \in Runners : RipeRows(job[r])

FarmInv ==
  /\ Types /\ IsFiniteSet(steals)
  /\ PastInv
  /\ W!ZeroSum
  /\ W!StealsBounded
  /\ W!ToldIsMarked

LEMMA FarmInit == W!Init => FarmInv
<1> SUFFICES ASSUME W!Init PROVE FarmInv
  OBVIOUS
<1> USE DEF W!Init
<1>1. Types /\ IsFiniteSet(steals)
  BY RewardsInit, FS_EmptySet
<1>2. PastInv
  BY DEF PastInv, RipeRows
<1>3. W!ZeroSum /\ W!ToldIsMarked
  BY DEF W!ZeroSum, W!ToldIsMarked
<1>4. W!StealsBounded
  <2>1. \A u \in Users : W!StolenToday(u) = 0
    <3> SUFFICES ASSUME NEW u \in Users PROVE W!StolenToday(u) = 0
      OBVIOUS
    <3>1. {t \in steals : t.thief = u /\ t.day = W!Today} = {}
      OBVIOUS
    <3> QED BY <3>1, SameCount, FS_EmptySet DEF W!StolenToday
  <2> QED BY <2>1, Limits DEF W!StealsBounded
<1> QED BY <1>1, <1>2, <1>3, <1>4 DEF FarmInv

\* What is neither planted, stolen nor harvested leaves the farm's promises.
LEMMA FarmAlone ==
  ASSUME FarmInv, Types', UNCHANGED <<clock, planted, steals, harvests>>,
         marked \subseteq marked',
         RipeRows(told'), \A r \in Runners : RipeRows(job'[r]),
         \A row \in told' \ told : planted[row[1]][row[2]] = row[3] => <<row[1], row[2]>> \in marked'
  PROVE  FarmInv'
<1> USE DEF FarmInv
<1>1. PastInv'
  BY DEF PastInv, RipeRows, W!Today
<1>2. W!ZeroSum'
  BY DEF W!ZeroSum, W!Thefts
<1>3. W!StealsBounded'
  BY DEF W!StealsBounded, W!Thefts, W!StolenToday, W!Today
<1>4. W!ToldIsMarked'
  BY DEF W!ToldIsMarked
<1> QED BY <1>1, <1>2, <1>3, <1>4

\* A crop is planted at a time no recorded crop has.
LEMMA PlantStep ==
  ASSUME FarmInv, Types', NEW u \in Users, NEW s \in W!Slots, W!Plant(u, s) PROVE FarmInv'
<1> USE DEF FarmInv
<1>c. clock \in Nat /\ Mature \in Nat /\ Mature > 0 /\ W!Times \subseteq Nat
  BY Limits DEF Types, UserTypes, W!Times
<1>u. UNCHANGED <<clock, marked, steals, harvests, told, job>>
  BY DEF W!Plant, W!jobVars
<1>p. /\ planted'[u][s] = clock
      /\ \A v \in Users, x \in W!Slots : v # u \/ x # s => planted'[v][x] = planted[v][x]
  BY PlantChanges
<1>1. PastInv'
  <2>1. \A v \in Users, x \in W!Slots : planted'[v][x] <= clock'
    BY <1>c, <1>u, <1>p DEF PastInv
  <2> QED BY <1>u, <2>1 DEF PastInv, RipeRows, W!Today
<1>2. W!ZeroSum'
  <2>1. ASSUME NEW h \in harvests PROVE planted'[h.owner][h.slot] # h.at
    <3>1. h.owner \in Users /\ h.slot \in W!Slots /\ h.at \in Nat /\ h.at + Mature <= clock
      BY <1>c DEF PastInv, Types, FarmTypes
    <3>2. planted[h.owner][h.slot] # h.at
      BY DEF W!ZeroSum
    <3> QED BY <1>c, <1>p, <3>1, <3>2
  <2> QED BY <1>u, <2>1 DEF W!ZeroSum, W!Thefts
<1>3. W!StealsBounded'
  BY <1>u DEF W!StealsBounded, W!Thefts, W!StolenToday, W!Today
<1>4. W!ToldIsMarked'
  <2> SUFFICES ASSUME NEW row \in told, planted'[row[1]][row[2]] = row[3]
               PROVE  <<row[1], row[2]>> \in marked
    BY <1>u DEF W!ToldIsMarked
  <2>1. row[1] \in Users /\ row[2] \in W!Slots /\ row[3] \in Nat /\ row[3] + Mature <= clock
    BY <1>c DEF PastInv, RipeRows, W!Crops
  <2>2. planted[row[1]][row[2]] = row[3]
    BY <1>c, <1>p, <2>1
  <2> QED BY <2>2 DEF W!ToldIsMarked
<1> QED BY <1>u, <1>1, <1>2, <1>3, <1>4

\* The owner gets what the thieves left, and the plot is empty.
LEMMA HarvestStep ==
  ASSUME FarmInv, Types', NEW u \in Users, NEW Z \in SUBSET W!Slots, W!Harvest(u, Z) PROVE FarmInv'
<1> USE DEF FarmInv
<1>c. clock \in Nat /\ Mature \in Nat /\ Mature > 0 /\ W!Times \subseteq Nat /\ Yield \in Nat
  BY Limits DEF Types, UserTypes, W!Times
<1>u. UNCHANGED <<clock, steals, told, job>>
  BY DEF W!Harvest, W!jobVars
<1>p. \A v \in Users, x \in W!Slots :
        planted'[v][x] = IF v = u /\ x \in Z /\ W!Ripe(u, x) THEN -1 ELSE planted[v][x]
  BY HarvestChanges
<1>h. ASSUME NEW h \in harvests'
      PROVE  \/ h \in harvests /\ h.owner \in Users /\ h.slot \in W!Slots /\ h.at \in Nat
             \/ /\ h.owner = u /\ h.slot \in Z /\ W!Ripe(u, h.slot) /\ h.at = planted[u][h.slot]
                /\ h = [owner |-> u, slot |-> h.slot, at |-> planted[u][h.slot], day |-> W!Today,
                        gb |-> W!Expected(u, h.slot)]
                /\ h.at \in Nat /\ h.at + Mature <= clock
  <2>1. CASE h \in harvests
    BY <1>c, <2>1 DEF Types, FarmTypes
  <2>2. CASE h \notin harvests
    <3>1. PICK s \in Z : /\ W!Ripe(u, s)
                         /\ h = [owner |-> u, slot |-> s, at |-> planted[u][s], day |-> W!Today,
                                 gb |-> W!Expected(u, s)]
      BY <2>2 DEF W!Harvest
    <3>2. planted[u][s] \in Nat /\ planted[u][s] + Mature <= clock
      BY <1>c, <3>1, RipeCrop
    <3> QED BY <3>1, <3>2
  <2> QED BY <2>1, <2>2
<1>1. PastInv'
  <2>1. \A v \in Users, x \in W!Slots : planted'[v][x] <= clock'
    BY <1>c, <1>u, <1>p DEF PastInv
  <2>2. \A h \in harvests' : h.at + Mature <= clock'
    BY <1>h, <1>u DEF PastInv
  <2> QED BY <1>u, <2>1, <2>2 DEF PastInv, RipeRows, W!Today
<1>2. W!ZeroSum'
  <2>1. ASSUME NEW h \in harvests' PROVE planted'[h.owner][h.slot] # h.at
    <3>1. CASE h \in harvests
      <4>1. h.owner \in Users /\ h.slot \in W!Slots /\ h.at \in Nat
        BY <1>c, <3>1 DEF Types, FarmTypes
      <4>2. planted[h.owner][h.slot] # h.at
        BY <3>1 DEF W!ZeroSum
      <4> QED BY <1>p, <4>1, <4>2
    <3>2. CASE h \notin harvests
      <4>1. h.owner = u /\ h.slot \in Z /\ W!Ripe(u, h.slot) /\ h.at \in Nat
        BY <1>h, <3>2
      <4>2. planted'[u][h.slot] = -1
        BY <1>p, <4>1
      <4> QED BY <4>1, <4>2
    <3> QED BY <3>1, <3>2
  <2>2. ASSUME NEW h \in harvests' PROVE h.gb + W!Cardinality(W!Thefts(h.owner, h.slot, h.at)) = Yield
    <3>1. CASE h \in harvests
      BY <3>1 DEF W!ZeroSum
    <3>2. CASE h \notin harvests
      <4>1. /\ h.owner = u /\ h.at = planted[u][h.slot]
            /\ h.gb = W!Expected(u, h.slot)
        BY <1>h, <3>2
      <4>2. h.gb = Yield - W!Cardinality(W!Thefts(u, h.slot, planted[u][h.slot]))
        BY <4>1 DEF W!Expected, W!Stolen
      <4> QED BY <1>c, <4>1, <4>2, TheftsFinite
    <3> QED BY <3>1, <3>2
  <2>3. ASSUME NEW h \in harvests', NEW k \in harvests',
               h.owner = k.owner /\ h.slot = k.slot /\ h.at = k.at PROVE h = k
    <3>1. CASE h \in harvests /\ k \in harvests
      BY <2>3, <3>1 DEF W!ZeroSum
    <3>2. CASE h \in harvests /\ k \notin harvests
      BY <1>h, <2>3, <3>2 DEF W!ZeroSum
    <3>3. CASE h \notin harvests /\ k \in harvests
      BY <1>h, <2>3, <3>3 DEF W!ZeroSum
    <3>4. CASE h \notin harvests /\ k \notin harvests
      BY <1>h, <2>3, <3>4
    <3> QED BY <3>1, <3>2, <3>3, <3>4
  <2> QED BY <1>u, <2>1, <2>2, <2>3 DEF W!ZeroSum, W!Thefts
<1>3. W!StealsBounded'
  BY <1>u DEF W!StealsBounded, W!Thefts, W!StolenToday, W!Today
<1>4. W!ToldIsMarked'
  <2> SUFFICES ASSUME NEW row \in told, planted'[row[1]][row[2]] = row[3]
               PROVE  <<row[1], row[2]>> \in marked'
    BY <1>u DEF W!ToldIsMarked
  <2>1. row[1] \in Users /\ row[2] \in W!Slots /\ row[3] \in Nat
    BY <1>c DEF PastInv, RipeRows, W!Crops
  <2>2. planted[row[1]][row[2]] = row[3] /\ ~(row[1] = u /\ row[2] \in Z /\ W!Ripe(u, row[2]))
    BY <1>p, <2>1
  <2>3. <<row[1], row[2]>> \in marked
    BY <2>2 DEF W!ToldIsMarked
  <2> QED BY <2>2, <2>3 DEF W!Harvest
<1> QED BY <1>u, <1>1, <1>2, <1>3, <1>4

\* A theft adds one row: to a crop that has not lost its part, of a thief who
\* took nothing of it, on a day that admits it.
LEMMA StealStep ==
  ASSUME FarmInv, Types', NEW u \in Users, NEW v \in Users, NEW s \in W!Slots, W!Steal(u, v, s)
  PROVE  FarmInv'
<1> USE DEF FarmInv
<1> DEFINE at  == planted[v][s]
           row == [thief |-> u, victim |-> v, slot |-> s, at |-> at, day |-> W!Today]
<1>c. clock \in Nat /\ Mature \in Nat /\ W!Times \subseteq Nat /\ StealMax \in Nat /\ StealDaily \in Nat
  BY Limits DEF Types, UserTypes, W!Times
<1>u. UNCHANGED <<clock, planted, marked, harvests, told, job>>
  BY DEF W!Steal, W!jobVars
<1>s. /\ steals' = steals \cup {row}
      /\ W!StolenToday(u) < StealDaily
      /\ W!Ripe(v, s)
      /\ W!Cardinality(W!Thefts(v, s, at)) + 1 <= StealMax
      /\ \A t \in W!Thefts(v, s, at) : t.thief # u
  BY DEF W!Steal, W!CanSteal, W!Stolen
<1>a. at \in Nat /\ at + Mature <= clock
  BY <1>c, <1>s, RipeCrop
<1>t. W!Today' = W!Today
  BY <1>u DEF W!Today
<1>f. IsFiniteSet(steals')
  BY <1>s, FS_AddElement
<1>o. \A t \in steals : t = [thief |-> t.thief, victim |-> t.victim, slot |-> t.slot, at |-> t.at, day |-> t.day]
  BY DEF Types, FarmTypes
<1> HIDE DEF at
<1>1. PastInv'
  <2>1. \A t \in steals' : t.at + Mature <= clock /\ t.day <= W!Today
    <3>1. W!Today \in Nat
      BY TodayIsDay
    <3> QED BY <1>s, <1>a, <3>1 DEF PastInv
  <2> QED BY <1>u, <1>t, <2>1 DEF PastInv, RipeRows
<1>e. ASSUME NEW w, NEW x, NEW y
      PROVE  W!Thefts(w, x, y)' = IF w = v /\ x = s /\ y = at THEN W!Thefts(w, x, y) \cup {row}
                                  ELSE W!Thefts(w, x, y)
  <2>1. W!Thefts(w, x, y)' = {t \in steals' : t.victim = w /\ t.slot = x /\ t.at = y}
    BY DEF W!Thefts
  <2> QED BY <1>s, <2>1 DEF W!Thefts
<1>2. W!ZeroSum'
  <2>1. ASSUME NEW h \in harvests PROVE ~(h.owner = v /\ h.slot = s /\ h.at = at)
    BY DEF W!ZeroSum, at
  <2>2. \A h \in harvests : W!Thefts(h.owner, h.slot, h.at)' = W!Thefts(h.owner, h.slot, h.at)
    BY <1>e, <2>1
  <2> QED BY <1>u, <2>2 DEF W!ZeroSum
<1>3. W!StealsBounded'
  <2>1. ASSUME NEW t \in steals' PROVE W!Cardinality(W!Thefts(t.victim, t.slot, t.at)') <= StealMax
    <3>1. CASE t.victim = v /\ t.slot = s /\ t.at = at
      <4>1. W!Thefts(t.victim, t.slot, t.at)' = W!Thefts(v, s, at) \cup {row}
        BY <1>e, <3>1
      <4>2. /\ IsFiniteSet(W!Thefts(v, s, at))
            /\ Cardinality(W!Thefts(v, s, at)) \in Nat
            /\ Cardinality(W!Thefts(v, s, at)) + 1 <= StealMax
        BY <1>s, TheftsFinite, SameCount
      <4>3. /\ Cardinality(W!Thefts(v, s, at) \cup {row}) <= Cardinality(W!Thefts(v, s, at)) + 1
            /\ Cardinality(W!Thefts(v, s, at) \cup {row}) \in Nat
        BY <4>2, OneMore
      <4> QED BY <1>c, <4>1, <4>2, <4>3, SameCount
    <3>2. CASE ~(t.victim = v /\ t.slot = s /\ t.at = at)
      <4>1. W!Thefts(t.victim, t.slot, t.at)' = W!Thefts(t.victim, t.slot, t.at)
        BY <1>e, <3>2
      <4>2. t \in steals
        BY <1>s, <3>2
      <4> QED BY <4>1, <4>2 DEF W!StealsBounded
    <3> QED BY <3>1, <3>2
  <2>2. ASSUME NEW t \in steals', NEW x \in steals',
               t.thief = x.thief /\ t.victim = x.victim /\ t.slot = x.slot /\ t.at = x.at PROVE t = x
    <3>1. CASE t \in steals /\ x \in steals
      BY <2>2, <3>1 DEF W!StealsBounded
    <3>2. CASE t \in steals /\ x = row
      BY <1>s, <2>2, <3>2 DEF W!Thefts
    <3>3. CASE t = row /\ x \in steals
      BY <1>s, <2>2, <3>3 DEF W!Thefts
    <3> QED BY <1>s, <3>1, <3>2, <3>3
  <2>3. ASSUME NEW w \in Users PROVE W!StolenToday(w)' <= StealDaily
    <3> DEFINE mine == {t \in steals : t.thief = w /\ t.day = W!Today}
               then == {t \in steals' : t.thief = w /\ t.day = W!Today'}
    <3>1. /\ IsFiniteSet(mine) /\ Cardinality(mine) \in Nat
          /\ W!StolenToday(w) = Cardinality(mine)
      <4>1. mine \subseteq steals
        OBVIOUS
      <4>2. IsFiniteSet(mine)
        BY <4>1, FS_Subset
      <4> QED BY <4>2, FS_CardinalityType, SameCount DEF W!StolenToday
    <3>2. W!StolenToday(w)' = Cardinality(then)
      BY SameCount DEF W!StolenToday
    <3>3. CASE w = u
      <4>1. then = mine \cup {row}
        BY <1>s, <1>t, <3>3
      <4> HIDE DEF mine, then
      <4>2. Cardinality(then) <= Cardinality(mine) + 1 /\ Cardinality(then) \in Nat
        BY <3>1, <4>1, OneMore
      <4>3. Cardinality(mine) < StealDaily
        BY <1>s, <3>1, <3>3
      <4> QED BY <1>c, <3>1, <3>2, <4>2, <4>3
    <3>4. CASE w # u
      <4>1. then = mine
        BY <1>s, <1>t, <3>4
      <4>2. W!StolenToday(w) <= StealDaily
        BY DEF W!StealsBounded
      <4> HIDE DEF mine, then
      <4> QED BY <3>1, <3>2, <4>1, <4>2
    <3> QED BY <3>3, <3>4
  <2> QED BY <2>1, <2>2, <2>3 DEF W!StealsBounded
<1>4. W!ToldIsMarked'
  BY <1>u DEF W!ToldIsMarked
<1> QED BY <1>f, <1>1, <1>2, <1>3, <1>4

\* An hour later what is past is past, and a new day has seen no theft yet.
LEMMA TickStep == ASSUME FarmInv, Types', W!Tick PROVE FarmInv'
<1> USE DEF FarmInv
<1>u. UNCHANGED <<planted, marked, steals, harvests, job, told>> /\ clock' = clock + 1
  BY DEF W!Tick, W!farmVars, W!jobVars
<1>c. clock \in Nat /\ clock' \in Nat /\ Mature \in Nat /\ Day \in Nat /\ Day > 0 /\ StealDaily \in Nat
      /\ W!Times \subseteq Nat
  BY <1>u, Limits DEF Types, UserTypes, W!Times
<1>d. W!Today \in Nat /\ W!Today' \in Nat /\ W!Today <= W!Today'
  BY <1>u, <1>c, DaysGoOn DEF W!Today
<1>1. PastInv'
  <2>1. \A t \in steals : t.at \in Nat /\ t.day \in Nat
    BY <1>c DEF Types, FarmTypes
  <2>2. \A t \in steals : t.at + Mature <= clock' /\ t.day <= W!Today'
    BY <1>u, <1>c, <1>d, <2>1 DEF PastInv
  <2>3. \A h \in harvests : h.at + Mature <= clock'
    <3>1. \A h \in harvests : h.at \in Nat
      BY <1>c DEF Types, FarmTypes
    <3> QED BY <1>u, <1>c, <3>1 DEF PastInv
  <2>4. \A u \in Users, s \in W!Slots : planted[u][s] <= clock'
    <3> SUFFICES ASSUME NEW u \in Users, NEW s \in W!Slots PROVE planted[u][s] <= clock'
      OBVIOUS
    <3>1. planted[u][s] \in W!Times \cup {-1}
      BY DEF Types, FarmTypes
    <3>2. planted[u][s] \in Int
      <4>1. CASE planted[u][s] = -1
        BY <4>1
      <4>2. CASE planted[u][s] # -1
        <5>1. planted[u][s] \in W!Times
          BY <3>1, <4>2
        <5>2. W!Times \subseteq Nat
          BY <1>c
        <5>3. planted[u][s] \in Nat
          BY <5>1, <5>2, Zenon
        <5> QED BY <5>3
      <4> QED BY <4>1, <4>2
    <3>3. planted[u][s] <= clock
      BY DEF PastInv
    <3> QED BY <1>u, <1>c, <3>2, <3>3
  <2>5. ASSUME NEW rows, RipeRows(rows)
        PROVE  \A row \in rows : row \in W!Crops /\ row[3] + Mature <= clock'
    <3>1. \A row \in rows : row[3] \in Nat
      BY <1>c, <2>5 DEF RipeRows, W!Crops
    <3> QED BY <1>u, <1>c, <2>5, <3>1 DEF RipeRows
  <2>6. RipeRows(told)' /\ \A r \in Runners : RipeRows(job[r])'
    BY <1>u, <2>5 DEF PastInv, RipeRows
  <2> QED BY <1>u, <2>2, <2>3, <2>4, <2>6 DEF PastInv
<1>2. W!ZeroSum'
  BY <1>u DEF W!ZeroSum, W!Thefts
<1>3. W!StealsBounded'
  <2>1. ASSUME NEW u \in Users PROVE W!StolenToday(u)' <= StealDaily
    <3>1. CASE W!Today' = W!Today
      BY <1>u, <3>1 DEF W!StealsBounded, W!StolenToday
    <3>2. CASE W!Today' # W!Today
      <4>1. \A t \in steals : t.day \in Nat /\ t.day <= W!Today
        BY DEF PastInv, Types, FarmTypes
      <4>2. {t \in steals' : t.thief = u /\ t.day = W!Today'} = {}
        BY <1>u, <1>d, <3>2, <4>1
      <4> QED BY <1>c, <4>2, SameCount, FS_EmptySet DEF W!StolenToday
    <3> QED BY <3>1, <3>2
  <2> QED BY <1>u, <2>1 DEF W!StealsBounded, W!Thefts
<1>4. W!ToldIsMarked'
  BY <1>u DEF W!ToldIsMarked
<1> QED BY <1>u, <1>1, <1>2, <1>3, <1>4

\* Who is told of a crop that still stands has it marked.
LEMMA TellStep ==
  ASSUME FarmInv, Types', NEW r \in Runners, NEW rows, W!Tell(r, rows), RipeRows(rows)
  PROVE  FarmInv'
<1>1. PICK row \in rows :
        /\ marked' = IF planted[row[1]][row[2]] = -1 THEN marked ELSE marked \cup {<<row[1], row[2]>>}
        /\ told' = told \cup {row}
        /\ job' = [job EXCEPT ![r] = rows \ {row}]
        /\ UNCHANGED <<clock, planted, steals, harvests>>
  BY DEF W!Tell
<1>2. RipeRows(told')
  BY <1>1 DEF RipeRows, FarmInv, PastInv
<1>3. \A q \in Runners : RipeRows(job'[q])
  BY <1>1 DEF RipeRows, FarmInv, PastInv, Types, JobTypes
<1>4. row[3] \in Nat
  BY Limits DEF RipeRows, W!Crops, W!Times
<1>5. planted[row[1]][row[2]] = row[3] => <<row[1], row[2]>> \in marked'
  BY <1>1, <1>4
<1> QED BY <1>1, <1>2, <1>3, <1>5, FarmAlone

LEMMA FarmStep == FarmInv /\ W!Next => FarmInv'
<1> SUFFICES ASSUME FarmInv, W!Next PROVE FarmInv'
  OBVIOUS
<1>t. Types /\ Types' /\ IsFiniteSet(steals)
  BY TypesStep DEF FarmInv
<1>u. Farmers \subseteq Users /\ Players \subseteq Users
  BY RewardsAssumption DEF W!PlayersAssumption
<1>a. ASSUME UNCHANGED <<clock, planted, steals, harvests, marked, told>>,
             \A r \in Runners : RipeRows(job'[r])
      PROVE  FarmInv'
  BY <1>a, <1>t, FarmAlone DEF FarmInv, PastInv
<1>1. ASSUME NEW u \in Users, W!CheckIn(u) PROVE FarmInv'
  BY <1>1, <1>a DEF W!CheckIn, W!jobVars, FarmInv, PastInv
<1>2. ASSUME NEW u \in Users, NEW s \in W!Slots, W!Plant(u, s) PROVE FarmInv'
  BY <1>2, <1>t, PlantStep
<1>3. ASSUME NEW u \in Users, NEW Z \in SUBSET W!Slots, W!Harvest(u, Z) PROVE FarmInv'
  BY <1>3, <1>t, HarvestStep
<1>4. ASSUME NEW u \in Users, NEW v \in Users, NEW s \in W!Slots, W!Steal(u, v, s) PROVE FarmInv'
  BY <1>4, <1>t, StealStep
<1>5. ASSUME NEW u \in Players, W!Play(u) PROVE FarmInv'
  BY <1>5, <1>a DEF W!Play, W!LuckySpin, W!RpsPlay, W!FlipDraw, W!farmVars, W!jobVars, FarmInv, PastInv
<1>6. ASSUME NEW r \in Runners, W!NotifyStart(r) PROVE FarmInv'
  BY <1>6, <1>t, NotifyReads, TellStep
<1>7. ASSUME NEW r \in Runners, W!NotifyNext(r) PROVE FarmInv'
  <2>1. RipeRows(job[r])
    BY DEF FarmInv, PastInv
  <2> QED BY <1>7, <1>t, <2>1, TellStep DEF W!NotifyNext
<1>8. CASE W!Tick
  BY <1>8, <1>t, TickStep
<1>9. CASE W!Restart
  BY <1>9, <1>a DEF W!Restart, W!farmVars, RipeRows
<1> QED BY <1>u, <1>1, <1>2, <1>3, <1>4, <1>5, <1>6, <1>7, <1>8, <1>9 DEF W!Next, W!Farm

\* What the page offers is what the theft accepts.
LEMMA OfferKept == FarmInv => W!OfferHolds
<1> SUFFICES ASSUME FarmInv, NEW u \in Users, NEW v \in Users, NEW s \in W!Slots,
                    W!ShownStealable(u, v, s), W!StealLeftToday(u) > 0
             PROVE  W!CanSteal(u, v, s)
  BY DEF W!OfferHolds
<1>1. W!Stolen(v, s) \in Nat
  BY TheftsFinite DEF W!Stolen, FarmInv
<1>2. W!Stolen(v, s) + 1 <= StealMax
  BY <1>1, Limits DEF W!ShownStealable
<1>3. W!StolenToday(u) < StealDaily
  BY DEF W!StealLeftToday
<1> QED BY <1>2, <1>3 DEF W!CanSteal, W!ShownStealable

LEMMA FarmUnchanged == FarmInv /\ UNCHANGED rewardVars => FarmInv'
<1> SUFFICES ASSUME FarmInv, UNCHANGED rewardVars PROVE FarmInv'
  OBVIOUS
<1>1. Types'
  BY DEF rewardVars, FarmInv, Types, UserTypes, FarmTypes, GameTypes, JobTypes
<1> QED BY <1>1, FarmAlone DEF rewardVars, FarmInv, PastInv, RipeRows

\* Of every crop the owner and the thieves together get the yield once, no crop
\* loses more than its part and no user takes more than a day admits, what the
\* page offers can be taken, and a crop that was announced stays marked until it
\* is harvested: for any users, groups, limits and overlapping executions of the
\* notification job, in every order of what they do (farm.js:155-366).
THEOREM SharedOut == AllSpec => []CropsAreSharedOut
<1>1. AllInit => (part = "rewards" => FarmInv)
  BY FarmInit DEF AllInit
<1>2. (part = "rewards" => FarmInv) /\ [AllNext]_allVars => (part = "rewards" => FarmInv)'
  <2> SUFFICES ASSUME part = "rewards" => FarmInv, [AllNext]_allVars, part' = "rewards"
               PROVE  FarmInv'
    OBVIOUS
  <2>1. part = "rewards" /\ FarmInv
    BY DEF AllNext, allVars
  <2>2. W!Next \/ UNCHANGED rewardVars
    BY <2>1 DEF AllNext, allVars
  <2> QED BY <2>1, <2>2, FarmStep, FarmUnchanged
<1>3. (part = "rewards" => FarmInv) => CropsAreSharedOut
  <2> SUFFICES ASSUME part = "rewards", FarmInv PROVE W!CropsAreSharedOut
    BY DEF CropsAreSharedOut
  <2>1. W!TypeOK
    BY TypesAreTypeOK DEF FarmInv
  <2> QED BY <2>1, OfferKept DEF W!CropsAreSharedOut, FarmInv
<1> QED BY <1>1, <1>2, <1>3, PTL DEF AllSpec

----------------------------------------------------------------------------
(* Registration *)

\* Signup counts as the library does.
LEMMA SameCountOfAdmins == \A Z : U!Cardinality(Z) = Cardinality(Z)
  BY DEF U!Cardinality, Cardinality

LEMMA SignupLimits == SignupCodes \in Nat /\ Tries \in Nat /\ MaxRestarts \in Nat
  BY SignupAssumption DEF U!SignupAssumption

\* The administrator is the first who registered, and stays.
AdminInv ==
  IF users = <<>> THEN admin = {} ELSE \E x \in U!Rows : admin = {x}

\* An invitation that is not used has let nobody in.
JoinedInv ==
  /\ joined \in [Invites -> 0..1]
  /\ \A i \in Invites : invites[i] # None /\ ~invites[i].used => joined[i] = 0

SignupTypes ==
  /\ users \in Seq(Accounts)
  /\ DOMAIN invites = Invites
  /\ DOMAIN codes = U!Addresses
  /\ U!TypeOK

SignupInv == SignupTypes /\ AdminInv /\ U!AddressHeldOnce /\ JoinedInv /\ U!OneGuestPerWeek

\* A row that is taken out of the table leaves the others in their order.
LEMMA RowLeaves ==
  ASSUME NEW T, NEW s \in Seq(T), NEW k \in 1..Len(s)
  PROVE  LET r == U!RemoveAt(s, k) IN
         /\ r \in Seq(T) /\ Len(r) = Len(s) - 1
         /\ \A i \in 1..Len(r) : r[i] = IF i < k THEN s[i] ELSE s[i + 1]
<1> DEFINE front == SubSeq(s, 1, k - 1)
           rest  == SubSeq(s, k + 1, Len(s))
<1>1. /\ front \in Seq(T) /\ Len(front) = k - 1
      /\ \A i \in 1..(k - 1) : front[i] = s[i]
  OBVIOUS
<1>2. /\ rest \in Seq(T) /\ Len(rest) = Len(s) - k
      /\ \A i \in 1..(Len(s) - k) : rest[i] = s[i + k]
  OBVIOUS
<1>3. U!RemoveAt(s, k) = front \o rest
  BY DEF U!RemoveAt
<1> HIDE DEF front, rest
<1>4. /\ front \o rest \in Seq(T) /\ Len(front \o rest) = Len(s) - 1
      /\ \A i \in 1..(Len(s) - 1) :
           (front \o rest)[i] = IF i <= k - 1 THEN front[i] ELSE rest[i - (k - 1)]
  <2>1. Len(front) + Len(rest) = Len(s) - 1
    BY <1>1, <1>2
  <2>2. front \in Seq(T) /\ rest \in Seq(T)
    BY <1>1, <1>2
  <2>3. /\ front \o rest \in Seq(T)
        /\ Len(front \o rest) = Len(front) + Len(rest)
        /\ \A i \in 1..(Len(front) + Len(rest)) :
             (front \o rest)[i] = IF i <= Len(front) THEN front[i] ELSE rest[i - Len(front)]
    BY <2>2, ConcatProperties, Zenon
  <2> QED BY <1>1, <2>1, <2>3, Zenon
<1>5. ASSUME NEW i \in 1..(Len(s) - 1)
      PROVE  (front \o rest)[i] = IF i < k THEN s[i] ELSE s[i + 1]
  <2>1. CASE i < k
    BY <1>1, <1>4, <2>1
  <2>2. CASE i >= k
    <3>1. i - (k - 1) \in 1..(Len(s) - k) /\ (i - (k - 1)) + k = i + 1
      BY <2>2
    <3>2. ~(i <= k - 1) /\ ~(i < k)
      BY <2>2
    <3> DEFINE j == i - (k - 1)
    <3>3. rest[j] = s[j + k]
      BY <1>2, <3>1
    <3>4. (front \o rest)[i] = rest[j]
      BY <1>4, <3>2
    <3> QED BY <3>1, <3>2, <3>3, <3>4
  <2>3. i < k \/ i >= k
    OBVIOUS
  <2> QED BY <2>1, <2>2, <2>3
<1> QED BY <1>3, <1>4, <1>5

LEMMA RowsAre ==
  ASSUME users \in Seq(Accounts)
  PROVE  /\ DOMAIN users = 1..Len(users) /\ Len(users) \in Nat
         /\ U!Rows = {users[k] : k \in 1..Len(users)}
  BY DEF U!Rows, U!Range

\* What an insertion does to the table.
LEMMA Inserted ==
  ASSUME SignupInv, NEW a \in Accounts, a \notin U!Rows, U!InsertUser(a)
  PROVE  /\ users' \in Seq(Accounts) /\ U!IsInjective(users')
         /\ Len(users') = Len(users) + 1 /\ users'[Len(users) + 1] = a
         /\ \A k \in 1..Len(users) : users'[k] = users[k]
         /\ U!Rows' = U!Rows \cup {a}
         /\ AdminInv' /\ admin \subseteq admin' /\ admin' \subseteq U!Rows'
<1>1. /\ users \in Seq(Accounts) /\ U!IsInjective(users) /\ admin \subseteq U!Rows
      /\ users' = Append(users, a)
  BY DEF SignupInv, SignupTypes, U!TypeOK, U!InsertUser
<1>2. /\ users' \in Seq(Accounts)
      /\ Len(users') = Len(users) + 1 /\ users'[Len(users) + 1] = a
      /\ \A k \in 1..Len(users) : users'[k] = users[k]
      /\ Len(users) \in Nat /\ users' # <<>>
      /\ DOMAIN users = 1..Len(users) /\ DOMAIN users' = 1..(Len(users) + 1)
  BY <1>1
<1>3. U!Rows' = U!Rows \cup {a}
  BY <1>2 DEF U!Rows, U!Range
<1>4. U!IsInjective(users')
  <2>1. \A k \in 1..Len(users) : users[k] # a
    BY <1>2 DEF U!Rows, U!Range
  <2> QED BY <1>1, <1>2, <2>1 DEF U!IsInjective
<1>5. AdminInv' /\ admin \subseteq admin' /\ admin' \subseteq U!Rows'
  <2>1. CASE users = <<>>
    BY <1>2, <1>3, <2>1 DEF SignupInv, AdminInv, U!InsertUser
  <2>2. CASE users # <<>>
    <3>1. admin' = admin
      BY <2>2 DEF U!InsertUser
    <3> QED BY <1>1, <1>2, <1>3, <2>2, <3>1 DEF SignupInv, AdminInv
  <2> QED BY <2>1, <2>2
<1> QED BY <1>2, <1>3, <1>4, <1>5

\* Another account has the new one's address only if the new one is NodeLoc's.
LEMMA AddressKept ==
  ASSUME SignupInv, NEW a \in Accounts, a \notin U!Rows, U!InsertUser(a),
         U!IsRegistered(Address[a]) => Kind[a] = "nodeloc"
  PROVE  U!AddressHeldOnce'
<1>1. /\ Len(users') = Len(users) + 1 /\ users'[Len(users) + 1] = a /\ Len(users) \in Nat
      /\ \A k \in 1..Len(users) : users'[k] = users[k]
  BY Inserted, RowsAre DEF SignupInv, SignupTypes
<1>2. \A k \in 1..Len(users) : Address[users[k]] = Address[a] => Kind[a] = "nodeloc"
  BY RowsAre DEF U!IsRegistered, SignupInv, SignupTypes
<1>3. \A i, j \in 1..Len(users) :
        i < j /\ Address[users[i]] = Address[users[j]] => Kind[users[j]] = "nodeloc"
  BY DEF SignupInv, U!AddressHeldOnce
<1> SUFFICES ASSUME NEW i \in 1..Len(users'), NEW j \in 1..Len(users'), i < j,
                    Address[users'[i]] = Address[users'[j]]
             PROVE  Kind[users'[j]] = "nodeloc"
  BY DEF U!AddressHeldOnce
<1>4. i \in 1..Len(users) /\ users'[i] = users[i]
  BY <1>1
<1>5. CASE j = Len(users) + 1
  BY <1>1, <1>2, <1>4, <1>5
<1>6. CASE j # Len(users) + 1
  <2>1. j \in 1..Len(users) /\ users'[j] = users[j]
    BY <1>1, <1>6
  <2> QED BY <1>3, <1>4, <2>1
<1> QED BY <1>5, <1>6

----------------------------------------------------------------------------
\* Invitations are typed, as far as the table of users goes.
InviteTypes ==
  \A i \in Invites : invites[i] # None =>
    /\ invites[i] \in U!InviteRows
    /\ invites[i].by \in U!Rows /\ invites[i].usedBy \in U!Rows \cup {None}

\* What is mailed and stored.
CodeTypes ==
  /\ DOMAIN codes = U!Addresses
  /\ \A x \in U!Addresses : codes[x] # None => codes[x] \in U!Codes
  /\ mails \subseteq U!Addresses \X (1..SignupCodes)

LEMMA SignupTypesAre ==
  SignupTypes <=>
    /\ users \in Seq(Accounts)
    /\ DOMAIN invites = Invites
    /\ U!Rows \subseteq Accounts /\ U!IsInjective(users) /\ admin \subseteq U!Rows
    /\ InviteTypes /\ CodeTypes
    /\ inviteOnly \in BOOLEAN /\ stops \in 0..MaxRestarts
  BY DEF SignupTypes, U!TypeOK, InviteTypes, CodeTypes

LEMMA SignupTypesThen ==
  /\ users' \in Seq(Accounts)
  /\ DOMAIN invites' = Invites
  /\ U!Rows' \subseteq Accounts /\ U!IsInjective(users') /\ admin' \subseteq U!Rows'
  /\ InviteTypes' /\ CodeTypes'
  /\ inviteOnly' \in BOOLEAN /\ stops' \in 0..MaxRestarts
  => SignupTypes'
  BY DEF SignupTypes, U!TypeOK, InviteTypes, CodeTypes

\* What is stored and mailed is typed after every action.
LEMMA Stored ==
  ASSUME CodeTypes, NEW x \in U!Addresses, NEW c \in 0..SignupCodes, U!Store(x, c)
  PROVE  /\ DOMAIN codes' = U!Addresses
         /\ \A y \in U!Addresses : codes'[y] # None => codes'[y] \in U!Codes
<1>1. [code |-> c, wrong |-> 0, cool |-> FALSE, known |-> c = U!Skip] \in U!Codes
  BY SignupLimits DEF U!Codes
<1> QED BY <1>1 DEF CodeTypes, U!Store

LEMMA Forgotten ==
  ASSUME CodeTypes, NEW x \in U!Addresses, U!Forget(x)
  PROVE  /\ DOMAIN codes' = U!Addresses
         /\ \A y \in U!Addresses : codes'[y] # None => codes'[y] \in U!Codes
  BY DEF CodeTypes, U!Forget

LEMMA Noticed ==
  ASSUME CodeTypes, NEW m \in mails, U!Read(m)
  PROVE  /\ DOMAIN codes' = U!Addresses
         /\ \A y \in U!Addresses : codes'[y] # None => codes'[y] \in U!Codes
<1>1. m[1] \in U!Addresses
  BY DEF CodeTypes
<1>2. ASSUME NEW k \in U!Codes PROVE [k EXCEPT !.known = TRUE] \in U!Codes
  BY DEF U!Codes
<1> QED BY <1>1, <1>2 DEF CodeTypes, U!Read

LEMMA CodesStep == CodeTypes /\ U!Next => CodeTypes'
<1> SUFFICES ASSUME CodeTypes, U!Next PROVE CodeTypes'
  OBVIOUS
<1>n. U!Skip = 0 /\ 0 \in 0..SignupCodes
  BY SignupLimits DEF U!Skip
<1>1. ASSUME NEW x \in U!Addresses, U!SendFirst(x) PROVE CodeTypes'
  <2>1. U!Store(x, 0) /\ mails' = mails
    BY <1>1, <1>n DEF U!SendFirst
  <2> QED BY <1>n, <2>1, Stored DEF CodeTypes
<1>2. ASSUME NEW x \in U!Addresses, U!SendCode(x) PROVE CodeTypes'
  <2>1. PICK c \in U!NewCodes : U!Store(x, c) /\ mails' = mails \cup {<<x, c>>}
    BY <1>2 DEF U!SendCode
  <2>2. c \in 1..SignupCodes
    BY DEF U!NewCodes
  <2> QED BY <2>1, <2>2, SignupLimits, Stored DEF CodeTypes
<1>3. ASSUME NEW m \in mails, U!MailArrives(m) \/ U!MailSent(m) PROVE CodeTypes'
  <2>1. U!Read(m) /\ mails' \subseteq mails
    BY <1>3 DEF U!MailArrives, U!MailSent
  <2> QED BY <2>1, Noticed DEF CodeTypes
<1>4. ASSUME NEW m \in mails, U!MailFails(m) PROVE CodeTypes'
  <2>1. U!Forget(m[1]) /\ mails' \subseteq mails /\ m[1] \in U!Addresses
    BY <1>4 DEF U!MailFails, CodeTypes
  <2> QED BY <2>1, Forgotten DEF CodeTypes
<1>5. ASSUME NEW x \in U!Addresses, U!CodeCools(x) PROVE CodeTypes'
  <2>1. codes[x] \in U!Codes
    BY <1>5 DEF U!CodeCools, CodeTypes
  <2>2. [codes[x] EXCEPT !.cool = TRUE] \in U!Codes
    BY <2>1 DEF U!Codes
  <2> QED BY <1>5, <2>2 DEF U!CodeCools, CodeTypes
<1>6. ASSUME NEW x \in U!Addresses, U!CodeExpires(x) PROVE CodeTypes'
  BY <1>6, Forgotten DEF U!CodeExpires, CodeTypes
<1>7. ASSUME NEW x \in U!Addresses, U!WrongCode(x) PROVE CodeTypes'
  <2>1. CASE U!Forget(x)
    BY <1>7, <2>1, Forgotten DEF U!WrongCode, CodeTypes
  <2>2. CASE ~U!Forget(x)
    <3>1. codes[x] \in U!Codes /\ ~(codes[x].wrong >= Tries) /\ mails' = mails
          /\ codes' = [codes EXCEPT ![x].wrong = @ + 1]
      BY <1>7, <2>2 DEF U!WrongCode, CodeTypes
    <3>2. [codes[x] EXCEPT !.wrong = @ + 1] \in U!Codes
      BY <3>1, SignupLimits DEF U!Codes
    <3> QED BY <3>1, <3>2 DEF CodeTypes
  <2> QED BY <2>1, <2>2
<1>8. ASSUME NEW a \in Accounts, U!EmailRegister(a) PROVE CodeTypes'
  <2>1. Address[a] \in U!Addresses
    BY DEF U!Addresses
  <2> QED BY <1>8, <2>1, Forgotten DEF U!EmailRegister, CodeTypes
<1>9. ASSUME UNCHANGED <<codes, mails>> PROVE CodeTypes'
  BY <1>9 DEF CodeTypes
<1>10. ASSUME NEW a \in Accounts, U!NodeLocRegister(a) \/ U!DeleteUser(a) PROVE CodeTypes'
  BY <1>9, <1>10 DEF U!NodeLocRegister, U!DeleteUser
<1>11. ASSUME NEW a \in Accounts, NEW i \in Invites, U!Generate(a, i) PROVE CodeTypes'
  BY <1>9, <1>11 DEF U!Generate
<1>12. CASE U!Cleanup \/ U!SwitchInvites
  BY <1>9, <1>12 DEF U!Cleanup, U!SwitchInvites
<1>13. CASE U!Restart
  BY <1>13 DEF U!Restart, CodeTypes
<1>14. ASSUME NEW i \in Invites, U!WeekPasses(i) PROVE CodeTypes'
  BY <1>9, <1>14 DEF U!WeekPasses
<1> QED BY <1>1, <1>2, <1>3, <1>4, <1>5, <1>6, <1>7, <1>8, <1>10, <1>11, <1>12, <1>13, <1>14 DEF U!Next

----------------------------------------------------------------------------
\* Invitations of the new state are old ones, no younger and of the same member.
Fade ==
  /\ DOMAIN invites' = Invites
  /\ \A i \in Invites : invites'[i] # None =>
       /\ invites[i] # None /\ invites'[i] \in U!InviteRows
       /\ invites'[i].by = invites[i].by
       /\ invites'[i].young => invites[i].young
       /\ ~invites'[i].used => ~invites[i].used

LEMMA FadingKeepsWeeks ==
  U!OneGuestPerWeek /\ Fade /\ admin \subseteq admin' => U!OneGuestPerWeek'
<1> SUFFICES ASSUME U!OneGuestPerWeek, Fade, admin \subseteq admin', NEW i \in Invites, NEW j \in Invites,
                    invites'[i] # None, invites'[j] # None, i # j,
                    invites'[i].by = invites'[j].by, invites'[i].by \notin admin'
             PROVE  ~(invites'[i].young /\ invites'[j].young)
  BY DEF U!OneGuestPerWeek
<1>1. invites[i] # None /\ invites[j] # None /\ invites[i].by = invites[j].by /\ invites[i].by \notin admin
  BY DEF Fade
<1>2. ~(invites[i].young /\ invites[j].young)
  BY <1>1 DEF U!OneGuestPerWeek
<1> QED BY <1>2 DEF Fade

LEMMA FadingKeepsGuests == JoinedInv /\ Fade /\ UNCHANGED joined => JoinedInv'
  BY DEF JoinedInv, Fade

\* The table of users does not change.
LEMMA TableKept ==
  SignupInv /\ UNCHANGED <<users, admin>> =>
    /\ U!Rows' = U!Rows /\ AdminInv' /\ U!AddressHeldOnce'
    /\ users' \in Seq(Accounts) /\ U!Rows' \subseteq Accounts
    /\ U!IsInjective(users') /\ admin' \subseteq U!Rows'
<1> SUFFICES ASSUME SignupInv, users' = users, admin' = admin
             PROVE  /\ U!Rows' = U!Rows /\ AdminInv' /\ U!AddressHeldOnce'
                    /\ users' \in Seq(Accounts) /\ U!Rows' \subseteq Accounts
                    /\ U!IsInjective(users') /\ admin' \subseteq U!Rows'
  OBVIOUS
<1>1. U!Rows' = U!Rows
  BY DEF U!Rows
<1>2. AdminInv'
  BY <1>1 DEF SignupInv, AdminInv
<1>3. U!AddressHeldOnce'
  BY DEF SignupInv, U!AddressHeldOnce
<1> QED BY <1>1, <1>2, <1>3, SignupTypesAre DEF SignupInv

LEMMA InvitesUnchanged ==
  ASSUME SignupInv, UNCHANGED invites
  PROVE  Fade
  BY SignupTypesAre DEF Fade, SignupInv, InviteTypes

\* A registration.
LEMMA RegisterStep ==
  ASSUME SignupInv, CodeTypes', NEW a \in Accounts, U!EmailRegister(a) \/ U!NodeLocRegister(a)
  PROVE  SignupInv'
<1>1. a \notin U!Rows /\ U!InsertUser(a) /\ UNCHANGED <<inviteOnly, stops>>
  BY DEF U!EmailRegister, U!NodeLocRegister
<1>2. U!IsRegistered(Address[a]) => Kind[a] = "nodeloc"
  BY DEF U!EmailRegister, U!NodeLocRegister
<1>3. /\ users' \in Seq(Accounts) /\ U!IsInjective(users') /\ U!Rows' = U!Rows \cup {a}
      /\ AdminInv' /\ admin \subseteq admin' /\ admin' \subseteq U!Rows'
  BY <1>1, Inserted
<1>4. U!AddressHeldOnce'
  BY <1>1, <1>2, AddressKept
<1>5. ASSUME UNCHANGED <<invites, joined>> PROVE SignupInv'
  <2>1. InviteTypes'
    BY <1>3, <1>5, SignupTypesAre DEF SignupInv, InviteTypes
  <2>2. SignupTypes'
    BY <1>1, <1>3, <1>5, <2>1, SignupTypesAre, SignupTypesThen DEF SignupInv
  <2>3. Fade
    BY <1>5, InvitesUnchanged
  <2> QED BY <1>3, <1>4, <1>5, <2>2, <2>3, FadingKeepsWeeks, FadingKeepsGuests DEF SignupInv
<1>6. ASSUME NEW i \in Invites, U!UseInvite(i, a) PROVE SignupInv'
  <2>1. /\ invites[i] # None /\ ~invites[i].used /\ invites[i] \in U!InviteRows
        /\ invites[i].by \in U!Rows /\ DOMAIN invites = Invites
    BY <1>6, SignupTypesAre DEF SignupInv, U!UseInvite, U!Usable, InviteTypes
  <2> DEFINE row == [invites[i] EXCEPT !.used = TRUE, !.usedBy = a]
  <2>2. row \in U!InviteRows /\ row.by = invites[i].by /\ row.young = invites[i].young
        /\ row.used /\ row.usedBy = a
    BY <2>1 DEF U!InviteRows
  <2>3. invites' = [invites EXCEPT ![i] = row] /\ joined' = [joined EXCEPT ![i] = @ + 1]
    BY <1>6 DEF U!UseInvite
  <2> HIDE DEF row
  <2>4. Fade
    <3>1. DOMAIN invites' = Invites /\ invites'[i] = row
          /\ \A j \in Invites \ {i} : invites'[j] = invites[j]
      BY <2>1, <2>3
    <3>2. InviteTypes
      BY SignupTypesAre DEF SignupInv
    <3> QED BY <2>1, <2>2, <3>1, <3>2 DEF Fade, InviteTypes
  <2>5. InviteTypes'
    <3>1. InviteTypes
      BY SignupTypesAre DEF SignupInv
    <3> QED BY <1>3, <2>1, <2>2, <2>3, <3>1 DEF InviteTypes
  <2>6. JoinedInv'
    <3>1. joined[i] = 0 /\ joined \in [Invites -> 0..1]
      BY <2>1 DEF SignupInv, JoinedInv
    <3>2. joined' = [joined EXCEPT ![i] = 1]
      BY <2>3, <3>1
    <3>3. joined' \in [Invites -> 0..1]
      BY <3>1, <3>2
    <3>4. ASSUME NEW j \in Invites, invites'[j] # None, ~invites'[j].used PROVE joined'[j] = 0
      <4>1. j # i
        BY <2>1, <2>2, <2>3, <3>4
      <4>2. invites'[j] = invites[j] /\ joined'[j] = joined[j]
        BY <2>1, <2>3, <3>1, <3>2, <4>1
      <4> QED BY <3>4, <4>2 DEF SignupInv, JoinedInv
    <3> QED BY <3>3, <3>4 DEF JoinedInv
  <2>7. SignupTypes'
    BY <1>1, <1>3, <2>1, <2>3, <2>5, SignupTypesAre, SignupTypesThen DEF SignupInv
  <2> QED BY <1>3, <1>4, <2>4, <2>6, <2>7, FadingKeepsWeeks DEF SignupInv
<1> QED BY <1>5, <1>6 DEF U!EmailRegister, U!NodeLocRegister, U!inviteVars

\* A member makes an invitation.
LEMMA GenerateStep ==
  ASSUME SignupInv, CodeTypes', NEW a \in Accounts, NEW i \in Invites, U!Generate(a, i)
  PROVE  SignupInv'
<1>1. /\ a \in U!Rows /\ invites[i] = None
      /\ a \in admin \/ \A j \in Invites : invites[j] # None /\ invites[j].by = a => ~invites[j].young
      /\ invites' = [invites EXCEPT ![i] = U!Invitation(a)]
      /\ joined' = [joined EXCEPT ![i] = 0]
      /\ UNCHANGED <<users, admin, inviteOnly, stops>>
  BY DEF U!Generate, U!userVars
<1>2. U!Invitation(a) \in U!InviteRows /\ U!Invitation(a).by = a /\ U!Invitation(a).young
      /\ U!Invitation(a).usedBy = None
  BY DEF U!Invitation, U!InviteRows
<1>3. DOMAIN invites = Invites /\ InviteTypes
  BY SignupTypesAre DEF SignupInv
<1>4. /\ DOMAIN invites' = Invites /\ invites'[i] = U!Invitation(a)
      /\ \A j \in Invites \ {i} : invites'[j] = invites[j]
  BY <1>1, <1>3
<1>5. InviteTypes'
  BY <1>1, <1>2, <1>3, <1>4, TableKept DEF InviteTypes
<1>6. SignupTypes'
  BY <1>1, <1>4, <1>5, TableKept, SignupTypesAre, SignupTypesThen DEF SignupInv
<1>7. JoinedInv'
  BY <1>1, <1>4 DEF SignupInv, JoinedInv
<1>8. U!OneGuestPerWeek'
  <2> SUFFICES ASSUME NEW j \in Invites, NEW k \in Invites, invites'[j] # None, invites'[k] # None, j # k,
                      invites'[j].by = invites'[k].by, invites'[j].by \notin admin,
                      invites'[j].young, invites'[k].young
               PROVE  FALSE
    BY <1>1 DEF U!OneGuestPerWeek
  <2>1. CASE j # i /\ k # i
    BY <1>4, <2>1 DEF SignupInv, U!OneGuestPerWeek
  <2>2. CASE j = i
    BY <1>1, <1>2, <1>4, <2>2
  <2>3. CASE k = i
    BY <1>1, <1>2, <1>4, <2>3
  <2> QED BY <2>1, <2>2, <2>3
<1> QED BY <1>1, <1>6, <1>7, <1>8, TableKept DEF SignupInv

\* Codes get old and are removed.
LEMMA FadeStep ==
  ASSUME SignupInv, CodeTypes', Fade, InviteTypes', UNCHANGED <<users, admin, joined, inviteOnly, stops>>
  PROVE  SignupInv'
<1>1. SignupTypes'
  BY TableKept, SignupTypesAre, SignupTypesThen DEF SignupInv, Fade
<1> QED BY <1>1, TableKept, FadingKeepsWeeks, FadingKeepsGuests DEF SignupInv

LEMMA WeekStep ==
  ASSUME SignupInv, CodeTypes', NEW i \in Invites, U!WeekPasses(i)
  PROVE  SignupInv'
<1>1. /\ invites[i] # None /\ invites' = [invites EXCEPT ![i].young = FALSE]
      /\ UNCHANGED <<users, admin, joined, inviteOnly, stops>>
  BY DEF U!WeekPasses, U!userVars
<1>2. DOMAIN invites = Invites /\ InviteTypes
  BY SignupTypesAre DEF SignupInv
<1> DEFINE row == [invites[i] EXCEPT !.young = FALSE]
<1>3. invites[i] \in U!InviteRows
  BY <1>1, <1>2 DEF InviteTypes
<1>4. row \in U!InviteRows /\ row.by = invites[i].by /\ ~row.young /\ row.used = invites[i].used
      /\ row.usedBy = invites[i].usedBy
  BY <1>3 DEF U!InviteRows
<1>5. /\ DOMAIN invites' = Invites /\ invites'[i] = row
      /\ \A j \in Invites \ {i} : invites'[j] = invites[j]
  BY <1>1, <1>2
<1> HIDE DEF row
<1>6. Fade
  BY <1>1, <1>2, <1>4, <1>5 DEF Fade, InviteTypes
<1>7. InviteTypes'
  BY <1>1, <1>2, <1>4, <1>5, TableKept DEF InviteTypes
<1> QED BY <1>1, <1>6, <1>7, FadeStep

LEMMA CleanupStep ==
  ASSUME SignupInv, CodeTypes', U!Cleanup
  PROVE  SignupInv'
<1>1. /\ \A i \in Invites : invites'[i] \in {None, invites[i]}
      /\ DOMAIN invites' = Invites
      /\ UNCHANGED <<users, admin, joined, inviteOnly, stops>>
  BY DEF U!Cleanup, U!userVars
<1>2. InviteTypes
  BY SignupTypesAre DEF SignupInv
<1>3. Fade
  BY <1>1, <1>2 DEF Fade, InviteTypes
<1>4. InviteTypes'
  BY <1>1, <1>2, TableKept DEF InviteTypes
<1> QED BY <1>1, <1>3, <1>4, FadeStep

\* An account goes, with its invitations.
LEMMA DeleteStep ==
  ASSUME SignupInv, CodeTypes', NEW a \in Accounts, U!DeleteUser(a)
  PROVE  SignupInv'
<1>1. /\ a \in U!Rows \ admin
      /\ UNCHANGED <<admin, joined, inviteOnly, stops>>
  BY DEF U!DeleteUser
<1>2. PICK k \in DOMAIN users : users[k] = a /\ users' = U!RemoveAt(users, k)
  BY DEF U!DeleteUser
<1>3. /\ users \in Seq(Accounts) /\ U!IsInjective(users) /\ admin \subseteq U!Rows
      /\ DOMAIN invites = Invites /\ InviteTypes /\ U!Rows \subseteq Accounts
  BY SignupTypesAre DEF SignupInv
<1>4. Len(users) \in Nat /\ DOMAIN users = 1..Len(users) /\ k \in 1..Len(users)
  BY <1>2, <1>3
<1>5. /\ users' \in Seq(Accounts) /\ Len(users') = Len(users) - 1
      /\ \A i \in 1..Len(users') : users'[i] = IF i < k THEN users[i] ELSE users[i + 1]
  BY <1>2, <1>3, <1>4, RowLeaves
<1> DEFINE old(i) == IF i < k THEN i ELSE i + 1
<1>6. ASSUME NEW i \in 1..Len(users') PROVE users'[i] = users[old(i)] /\ old(i) \in 1..Len(users)
  <2>1. CASE i < k
    BY <1>4, <1>5, <2>1
  <2>2. CASE i >= k
    BY <1>4, <1>5, <2>2
  <2> QED BY <1>4, <2>1, <2>2
<1>7. ASSUME NEW i \in 1..Len(users'), NEW j \in 1..Len(users'), i < j PROVE old(i) < old(j)
  BY <1>4, <1>5, <1>7
<1>8. DOMAIN users' = 1..Len(users') /\ Len(users') \in Nat
  BY <1>5
<1> HIDE DEF old
<1>9. U!Rows' = U!Rows \ {a}
  <2>1. U!Rows' \subseteq U!Rows
    BY <1>4, <1>6, <1>8 DEF U!Rows, U!Range
  <2>2. a \notin U!Rows'
    <3> SUFFICES ASSUME NEW i \in 1..Len(users'), users'[i] = a PROVE FALSE
      BY <1>8 DEF U!Rows, U!Range
    <3>1. old(i) # k
      BY <1>4 DEF old
    <3> QED BY <1>2, <1>3, <1>4, <1>6, <3>1 DEF U!IsInjective
  <2>3. ASSUME NEW b \in U!Rows, b # a PROVE b \in U!Rows'
    <3>1. PICK m \in 1..Len(users) : users[m] = b
      BY <1>4 DEF U!Rows, U!Range
    <3>2. m # k
      BY <1>2, <2>3, <3>1
    <3>3. CASE m < k
      BY <1>4, <1>5, <1>8, <3>1, <3>3 DEF U!Rows, U!Range
    <3>4. CASE m > k
      <4>1. m - 1 \in 1..Len(users') /\ ~(m - 1 < k) /\ (m - 1) + 1 = m
        BY <1>4, <1>5, <3>4
      <4>2. users'[m - 1] = b
        BY <1>5, <3>1, <4>1
      <4> QED BY <1>8, <4>1, <4>2 DEF U!Rows, U!Range
    <3> QED BY <1>4, <3>2, <3>3, <3>4
  <2> QED BY <2>1, <2>2, <2>3
<1>10. U!IsInjective(users')
  <2> SUFFICES ASSUME NEW i \in 1..Len(users'), NEW j \in 1..Len(users'), users'[i] = users'[j], i # j
               PROVE  FALSE
    BY <1>8 DEF U!IsInjective
  <2>1. old(i) # old(j)
    <3>1. i < j \/ j < i
      BY <1>8
    <3>2. old(i) \in Int /\ old(j) \in Int
      BY <1>4, <1>6
    <3> QED BY <1>7, <3>1, <3>2
  <2> QED BY <1>3, <1>4, <1>6, <2>1 DEF U!IsInjective
<1>11. U!AddressHeldOnce'
  <2> SUFFICES ASSUME NEW i \in 1..Len(users'), NEW j \in 1..Len(users'), i < j,
                      Address[users'[i]] = Address[users'[j]]
               PROVE  Kind[users'[j]] = "nodeloc"
    BY DEF U!AddressHeldOnce
  <2> QED BY <1>6, <1>7 DEF SignupInv, U!AddressHeldOnce
<1>12. AdminInv' /\ admin' \subseteq U!Rows'
  <2>1. users # <<>>
    BY <1>3, <1>4
  <2>2. PICK x \in U!Rows : admin = {x}
    BY <2>1 DEF SignupInv, AdminInv
  <2>3. x \in U!Rows'
    BY <1>1, <1>9, <2>2
  <2>4. users' # <<>>
    BY <1>8, <2>3 DEF U!Rows, U!Range
  <2> QED BY <1>1, <2>2, <2>3, <2>4 DEF AdminInv
<1>13. /\ DOMAIN invites' = Invites
       /\ \A i \in Invites : invites'[i] # None =>
            /\ invites[i] # None /\ invites[i].by # a
            /\ invites'[i] = [invites[i] EXCEPT !.usedBy = IF @ = a THEN None ELSE @]
  BY DEF U!DeleteUser
<1>14. ASSUME NEW i \in Invites, invites'[i] # None
       PROVE  /\ invites'[i] \in U!InviteRows /\ invites'[i].by = invites[i].by
              /\ invites'[i].young = invites[i].young /\ invites'[i].used = invites[i].used
              /\ invites'[i].usedBy = IF invites[i].usedBy = a THEN None ELSE invites[i].usedBy
  <2>1. invites[i] \in U!InviteRows
    BY <1>3, <1>13, <1>14 DEF InviteTypes
  <2>2. invites'[i] = [invites[i] EXCEPT !.usedBy = IF @ = a THEN None ELSE @]
    BY <1>13, <1>14
  <2> QED BY <2>1, <2>2 DEF U!InviteRows
<1>15. InviteTypes'
  BY <1>3, <1>9, <1>13, <1>14 DEF InviteTypes
<1>16. Fade
  BY <1>13, <1>14 DEF Fade
<1>17. SignupTypes'
  BY <1>1, <1>3, <1>5, <1>9, <1>10, <1>12, <1>13, <1>15, SignupTypesAre, SignupTypesThen DEF SignupInv
<1> QED BY <1>1, <1>11, <1>12, <1>16, <1>17, FadingKeepsWeeks, FadingKeepsGuests DEF SignupInv

LEMMA SignupStep == SignupInv /\ U!Next => SignupInv'
<1> SUFFICES ASSUME SignupInv, U!Next PROVE SignupInv'
  OBVIOUS
<1>c. CodeTypes'
  BY CodesStep, SignupTypesAre DEF SignupInv
<1>a. ASSUME UNCHANGED <<users, admin, invites, joined>>, inviteOnly' \in BOOLEAN, stops' \in 0..MaxRestarts
      PROVE  SignupInv'
  <2>1. Fade
    BY <1>a, InvitesUnchanged
  <2>2. InviteTypes'
    BY <1>a, TableKept, SignupTypesAre DEF SignupInv, InviteTypes
  <2>3. SignupTypes'
    BY <1>a, <1>c, <2>1, <2>2, TableKept, SignupTypesAre, SignupTypesThen DEF Fade
  <2> QED BY <1>a, <2>1, <2>3, TableKept, FadingKeepsWeeks, FadingKeepsGuests DEF SignupInv
<1>t. inviteOnly \in BOOLEAN /\ stops \in 0..MaxRestarts
  BY SignupTypesAre DEF SignupInv
<1>1. ASSUME NEW x \in U!Addresses, U!SendFirst(x) PROVE SignupInv'
  BY <1>1, <1>a, <1>t DEF U!SendFirst, U!userVars, U!inviteVars
<1>2. ASSUME NEW x \in U!Addresses, U!SendCode(x) PROVE SignupInv'
  BY <1>2, <1>a, <1>t DEF U!SendCode, U!userVars, U!inviteVars
<1>3. ASSUME NEW m \in mails, U!MailArrives(m) \/ U!MailSent(m) \/ U!MailFails(m) PROVE SignupInv'
  BY <1>3, <1>a, <1>t DEF U!MailArrives, U!MailSent, U!MailFails, U!userVars, U!inviteVars
<1>4. ASSUME NEW x \in U!Addresses, U!CodeCools(x) \/ U!CodeExpires(x) \/ U!WrongCode(x) PROVE SignupInv'
  BY <1>4, <1>a, <1>t DEF U!CodeCools, U!CodeExpires, U!WrongCode, U!userVars, U!inviteVars
<1>5. ASSUME NEW a \in Accounts, U!EmailRegister(a) \/ U!NodeLocRegister(a) PROVE SignupInv'
  BY <1>5, <1>c, RegisterStep
<1>6. ASSUME NEW a \in Accounts, U!DeleteUser(a) PROVE SignupInv'
  BY <1>6, <1>c, DeleteStep
<1>7. ASSUME NEW a \in Accounts, NEW i \in Invites, U!Generate(a, i) PROVE SignupInv'
  BY <1>7, <1>c, GenerateStep
<1>8. ASSUME NEW i \in Invites, U!WeekPasses(i) PROVE SignupInv'
  BY <1>8, <1>c, WeekStep
<1>9. CASE U!Cleanup
  BY <1>9, <1>c, CleanupStep
<1>10. CASE U!SwitchInvites
  <2>1. inviteOnly' \in BOOLEAN
    BY <1>10, <1>t DEF U!SwitchInvites
  <2> QED BY <1>10, <1>a, <1>t, <2>1 DEF U!SwitchInvites, U!userVars, U!inviteVars
<1>11. CASE U!Restart
  <2>1. stops' \in 0..MaxRestarts
    BY <1>11, <1>t, SignupLimits DEF U!Restart
  <2> QED BY <1>11, <1>a, <1>t, <2>1 DEF U!Restart, U!userVars, U!inviteVars
<1> QED BY <1>1, <1>2, <1>3, <1>4, <1>5, <1>6, <1>7, <1>8, <1>9, <1>10, <1>11 DEF U!Next

LEMMA SignupInit == U!Init => SignupInv
<1> SUFFICES ASSUME U!Init PROVE SignupInv
  OBVIOUS
<1>1. /\ users = <<>> /\ admin = {} /\ mails = {} /\ inviteOnly \in BOOLEAN /\ stops = 0
      /\ invites = [i \in Invites |-> None] /\ codes = [x \in U!Addresses |-> None]
      /\ joined = [i \in Invites |-> 0]
  BY DEF U!Init
<1>2. users \in Seq(Accounts) /\ U!Rows = {} /\ U!IsInjective(users)
  BY <1>1 DEF U!Rows, U!Range, U!IsInjective
<1>3. InviteTypes /\ CodeTypes
  BY <1>1 DEF InviteTypes, CodeTypes
<1>4. SignupTypes
  BY <1>1, <1>2, <1>3, SignupLimits, SignupTypesAre
<1>5. U!AddressHeldOnce
  BY <1>1 DEF U!AddressHeldOnce
<1>6. JoinedInv /\ U!OneGuestPerWeek /\ AdminInv
  BY <1>1 DEF JoinedInv, U!OneGuestPerWeek, AdminInv
<1> QED BY <1>4, <1>5, <1>6 DEF SignupInv

LEMMA SignupUnchanged == SignupInv /\ UNCHANGED signupVars => SignupInv'
<1> SUFFICES ASSUME SignupInv, UNCHANGED signupVars PROVE SignupInv'
  OBVIOUS
<1>1. UNCHANGED <<users, admin, invites, inviteOnly, codes, mails, joined, stops>>
  BY DEF signupVars
<1>2. InviteTypes' /\ Fade
  BY <1>1, InvitesUnchanged, TableKept, SignupTypesAre DEF SignupInv, InviteTypes
<1>3. CodeTypes'
  BY <1>1, SignupTypesAre DEF SignupInv, CodeTypes
<1> QED BY <1>1, <1>2, <1>3, FadeStep

\* What is scarce is won once, however registrations, mails, deletions and
\* restarts overlap, for any sets of accounts, addresses and invitations: the
\* place of the administrator, an address, an invitation, the code of a week
\* (auth.js:437-540, database.js:603-680).
THEOREM RegisteredSoundly == AllSpec => []RegistrationIsSound
<1>1. AllInit => (part = "signup" => SignupInv)
  BY SignupInit DEF AllInit
<1>2. (part = "signup" => SignupInv) /\ [AllNext]_allVars => (part = "signup" => SignupInv)'
  <2> SUFFICES ASSUME part = "signup" => SignupInv, [AllNext]_allVars, part' = "signup"
               PROVE  SignupInv'
    OBVIOUS
  <2>1. part = "signup" /\ SignupInv
    BY DEF AllNext, allVars
  <2>2. U!Next \/ UNCHANGED signupVars
    BY <2>1 DEF AllNext, allVars
  <2> QED BY <2>1, <2>2, SignupStep, SignupUnchanged
<1>3. (part = "signup" => SignupInv) => RegistrationIsSound
  <2> SUFFICES ASSUME part = "signup", SignupInv PROVE U!RegistrationIsSound
    BY DEF RegistrationIsSound
  <2>1. U!OneAdministrator
    <3>1. ASSUME NEW x PROVE U!Cardinality({x}) = 1
      BY SameCountOfAdmins, FS_Singleton
    <3> QED BY <3>1 DEF SignupInv, AdminInv, U!OneAdministrator
  <2>2. U!InvitedOnce
    BY DEF SignupInv, JoinedInv, U!InvitedOnce
  <2> QED BY <2>1, <2>2 DEF U!RegistrationIsSound, SignupInv, SignupTypes
<1> QED BY <1>1, <1>2, <1>3, PTL DEF AllSpec
=============================================================================
