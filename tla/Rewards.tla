------------------------------- MODULE Rewards --------------------------------
(***************************************************************************)
(* What users earn: the daily check-in with its seeds and groups           *)
(* (services/tgbot.js), the farm (services/farm.js, routes/farmGame.js),   *)
(* the wheel, the guessing game and the cards (routes/luckyWheel.js,       *)
(* rpsGame.js, flipGame.js), and the job that tells owners of ripe crops   *)
(* (farm.js, every minute by app.js).                                      *)
(*                                                                         *)
(* Every handler is one synchronous transaction and thus one step; only    *)
(* the notification job awaits.  What a gain does to the limit and to a    *)
(* freeze is in Accounts.  A crop is known by the time it was planted, as  *)
(* in tg_farm_steals.planted_at.                                           *)
(***************************************************************************)
EXTENDS Integers, FiniteSets

CONSTANTS
  Users,
  Farmers,       \* those of them who check in and plant
  Players,       \* those who play the games
  PlotsByLevel,  \* plots, cap on seeds and seeds of a check-in by group
  UpgradeAt,     \* check-ins that raise to a group
  Mature, Day,   \* hours a crop needs, hours of a day, in the clock's unit
  Yield, StealMax, StealDaily,   \* GB of a crop, GB stolen of it, thefts a day
  RpsDaily, FlipDaily, Cards,    \* games a day
  Runners,       \* executions of the notification job that may overlap
  MaxClock, MaxRestarts          \* bounds

Levels == DOMAIN PlotsByLevel
TopLevel == CHOOSE l \in Levels : \A k \in Levels : k <= l
Slots == 0..(PlotsByLevel[TopLevel] - 1)

PlayersAssumption == Players \subseteq Users /\ Farmers \subseteq Users
GroupsAssumption ==
  /\ TopLevel \in Nat /\ Levels = 0..TopLevel
  /\ PlotsByLevel \in [Levels -> Nat \ {0}]
  /\ \A l \in Levels : PlotsByLevel[l] <= PlotsByLevel[TopLevel]
  /\ UpgradeAt \in [Levels -> Nat]
FarmAssumption ==
  /\ {Mature, Day, Yield, StealMax, StealDaily, RpsDaily, FlipDaily, MaxClock, MaxRestarts} \subseteq Nat
  /\ Day > 0 /\ Mature > 0 /\ StealMax <= Yield

VARIABLES
  clock,
  level,     \* users.trust_level
  checkins,  \* rows of tg_checkin, counted up to the last threshold
  checked,   \* those who checked in today
  seeds,     \* tg_farm_seeds
  planted,   \* tg_farm_plots.planted_at, -1: the plot is empty
  marked,    \* tg_farm_plots.notified_mature
  steals,    \* tg_farm_steals
  harvests,  \* history: what the owner got of a crop
  spun,      \* a row of tg_lucky for this week
  plays,     \* tg_rps_daily.plays of today
  cards,     \* cards of tg_flip_daily of today
  job,       \* the rows an execution of the notification job still holds
  told,      \* history: crops whose owner was told
  repeated,  \* history: an owner was told of the same crop again
  restarts

farmVars == <<seeds, planted, marked, steals, harvests>>
gameVars == <<spun, plays, cards>>
userVars == <<level, checkins, checked>>
jobVars  == <<job, told, repeated>>
vars == <<clock, farmVars, gameVars, userVars, jobVars, restarts>>

Today == clock \div Day

Unlocked(u) == PlotsByLevel[level[u]]
Ripe(u, s)  == planted[u][s] >= 0 /\ clock >= planted[u][s] + Mature

\* _stolenFromPlot and stealCountToday
Thefts(u, s, at)  == {t \in steals : t.victim = u /\ t.slot = s /\ t.at = at}
StolenToday(u)    == Cardinality({t \in steals : t.thief = u /\ t.day = Today})
Stolen(u, s)      == Cardinality(Thefts(u, s, planted[u][s]))
Expected(u, s)    == Yield - Stolen(u, s)

----------------------------------------------------------------------------
Init ==
  /\ clock = 0
  /\ level = [u \in Users |-> 0]
  /\ checkins = [u \in Users |-> 0]
  /\ checked = {}
  /\ seeds = [u \in Users |-> 0]
  /\ planted = [u \in Users |-> [s \in Slots |-> -1]]
  /\ marked = {}
  /\ steals = {}
  /\ harvests = {}
  /\ spun = {}
  /\ plays = [u \in Users |-> 0]
  /\ cards = [u \in Users |-> {}]
  /\ job = [r \in Runners |-> {}]
  /\ told = {}
  /\ repeated = FALSE
  /\ restarts = 0

\* The group a number of check-ins leads to, never a lower one
Upgrade(l, count) ==
  CHOOSE k \in l..TopLevel :
    /\ k = l \/ count >= UpgradeAt[k]
    /\ \A j \in (k + 1)..TopLevel : count < UpgradeAt[j]

\* handleCheckin: once a day; the seeds are those of the new group, up to the
\* number of plots (grantDailySeeds)
CheckIn(u) ==
  /\ u \notin checked
  /\ checked' = checked \cup {u}
  /\ checkins' = [checkins EXCEPT ![u] = IF @ < UpgradeAt[TopLevel] THEN @ + 1 ELSE @]
  /\ level' = [level EXCEPT ![u] = Upgrade(@, checkins'[u])]
  /\ LET cap == PlotsByLevel[level'[u]] IN
       seeds' = [seeds EXCEPT ![u] = IF @ + cap <= cap THEN @ + cap ELSE IF @ >= cap THEN @ ELSE cap]
  /\ UNCHANGED <<clock, planted, marked, steals, harvests, gameVars, jobVars, restarts>>

\* The new row is not notified yet
Plant(u, s) ==
  /\ s < Unlocked(u)
  /\ planted[u][s] = -1
  /\ seeds[u] > 0
  /\ seeds' = [seeds EXCEPT ![u] = @ - 1]
  /\ planted' = [planted EXCEPT ![u][s] = clock]
  /\ UNCHANGED <<clock, marked, steals, harvests, gameVars, userVars, jobVars, restarts>>

\* Variant: what the neighbours took is not deducted
HarvestWhole(u, S) ==
  LET ripe == {s \in S : Ripe(u, s)} IN
  /\ ripe # {}
  /\ planted' = [planted EXCEPT ![u] = [s \in Slots |-> IF s \in ripe THEN -1 ELSE @[s]]]
  /\ marked' = marked \ ({u} \X ripe)
  /\ harvests' = harvests \cup {[owner |-> u, slot |-> s, at |-> planted[u][s],
                             day |-> Today, gb |-> Yield] : s \in ripe}
  /\ UNCHANGED <<clock, seeds, steals, gameVars, userVars, jobVars, restarts>>

\* harvest of one plot or of all that are ripe: one transaction per plot, no
\* await between them.  A crop on a plot that is locked again is harvested too.
Harvest(u, S) ==
  LET ripe == {s \in S : Ripe(u, s)} IN
  /\ ripe # {}
  /\ planted' = [planted EXCEPT ![u] = [s \in Slots |-> IF s \in ripe THEN -1 ELSE @[s]]]
  /\ marked' = marked \ ({u} \X ripe)
  /\ harvests' = harvests \cup
       {[owner |-> u, slot |-> s, at |-> planted[u][s], day |-> Today, gb |-> Expected(u, s)] : s \in ripe}
  /\ UNCHANGED <<clock, seeds, steals, gameVars, userVars, jobVars, restarts>>

\* What steal requires; one row per thief and crop (UNIQUE)
CanSteal(u, v, s) ==
  /\ u # v
  /\ StolenToday(u) < StealDaily
  /\ Ripe(v, s)
  /\ Stolen(v, s) + 1 <= StealMax
  /\ \A t \in Thefts(v, s, planted[v][s]) : t.thief # u

Steal(u, v, s) ==
  /\ CanSteal(u, v, s)
  /\ steals' = steals \cup
       {[thief |-> u, victim |-> v, slot |-> s, at |-> planted[v][s], day |-> Today]}
  /\ UNCHANGED <<clock, seeds, planted, marked, harvests, gameVars, userVars, jobVars, restarts>>

\* getRandomFarm: the plots of a neighbour that are shown as worth a visit, and
\* the thefts left for the day
ShownStealable(u, v, s) ==
  /\ u # v
  /\ s < Unlocked(v)
  /\ Ripe(v, s)
  /\ StealMax - Stolen(v, s) > 0
  /\ ~\E t \in Thefts(v, s, planted[v][s]) : t.thief = u
StealLeftToday(u) == IF StolenToday(u) < StealDaily THEN StealDaily - StolenToday(u) ELSE 0

\* The games, each with its table
LuckySpin(u) ==
  /\ u \notin spun
  /\ spun' = spun \cup {u}
  /\ UNCHANGED <<clock, farmVars, plays, cards, userVars, jobVars, restarts>>

RpsPlay(u) ==
  /\ plays[u] < RpsDaily
  /\ plays' = [plays EXCEPT ![u] = @ + 1]
  /\ UNCHANGED <<clock, farmVars, spun, cards, userVars, jobVars, restarts>>

FlipDraw(u, c) ==
  /\ Cardinality(cards[u]) < FlipDaily
  /\ c \notin cards[u]
  /\ cards' = [cards EXCEPT ![u] = @ \cup {c}]
  /\ UNCHANGED <<clock, farmVars, spun, plays, userVars, jobVars, restarts>>

\* One turn of the loop of checkAndNotifyMatureCrops: the row of that plot, if
\* there is one, is marked, whatever crop it holds by now; then the message is
\* awaited.  The history has the crop that stood there when the rows were read.
Tell(r, rows) ==
  \E row \in rows :
    /\ marked' = IF planted[row[1]][row[2]] = -1 THEN marked ELSE marked \cup {<<row[1], row[2]>>}
    /\ told' = told \cup {row}
    /\ repeated' = (repeated \/ row \in told)
    /\ job' = [job EXCEPT ![r] = rows \ {row}]
    /\ UNCHANGED <<clock, seeds, planted, steals, harvests, gameVars, userVars, restarts>>

\* The rows are read once, those that are ripe and not marked; the first is
\* marked before anything is awaited
NotifyStart(r) ==
  /\ job[r] = {}
  /\ Tell(r, {<<p[1], p[2], planted[p[1]][p[2]]>> :
               p \in {q \in Users \X Slots : Ripe(q[1], q[2]) /\ q \notin marked}})
NotifyNext(r) == Tell(r, job[r])

\* The panel restarts, also between two messages
Restart ==
  /\ restarts < MaxRestarts
  /\ restarts' = restarts + 1
  /\ job' = [r \in Runners |-> {}]
  /\ UNCHANGED <<clock, farmVars, gameVars, userVars, told, repeated>>

\* An hour passes.  An execution of the job does not last that long.
Tick ==
  /\ clock < MaxClock
  /\ \A r \in Runners : job[r] = {}
  /\ clock' = clock + 1
  /\ IF (clock + 1) % Day = 0
       THEN /\ checked' = {}
            /\ plays' = [u \in Users |-> 0]
            /\ cards' = [u \in Users |-> {}]
            /\ \E week \in {{}, spun} : spun' = week
       ELSE UNCHANGED <<checked, gameVars>>
  /\ UNCHANGED <<farmVars, level, checkins, jobVars, restarts>>

Farm(u) ==
  \/ CheckIn(u)
  \/ \E s \in Slots : Plant(u, s) \/ Harvest(u, {s})
  \/ Harvest(u, Slots)

Play(u) == LuckySpin(u) \/ RpsPlay(u) \/ \E c \in Cards : FlipDraw(u, c)

Next ==
  \/ \E u \in Farmers : Farm(u)
  \/ \E u, v \in Users, s \in Slots : Steal(u, v, s)
  \/ \E u \in Players : Play(u)
  \/ \E r \in Runners : NotifyStart(r) \/ NotifyNext(r)
  \/ Tick \/ Restart

Spec == Init /\ [][Next]_vars

----------------------------------------------------------------------------
Times == 0..MaxClock
Crops == Users \X Slots \X Times

\* The variables have their types; no store holds more seeds than its owner has
\* plots, and no day more games than the limits allow.
TypeOK ==
  /\ clock \in Times
  /\ level \in [Users -> Levels]
  /\ checkins \in [Users -> 0..UpgradeAt[TopLevel]]
  /\ checked \subseteq Users
  /\ seeds \in [Users -> Nat] /\ \A u \in Users : seeds[u] <= PlotsByLevel[TopLevel]
  /\ planted \in [Users -> [Slots -> Times \cup {-1}]]
  /\ marked \subseteq Users \X Slots
  /\ steals \subseteq [thief : Users, victim : Users, slot : Slots, at : Times, day : Nat]
  /\ harvests \subseteq [owner : Users, slot : Slots, at : Times, day : Nat, gb : Int]
  /\ spun \subseteq Players
  /\ plays \in [Users -> 0..RpsDaily]
  /\ cards \in [Users -> SUBSET Cards]
  /\ job \in [Runners -> SUBSET Crops]
  /\ told \subseteq Crops
  /\ repeated \in BOOLEAN
  /\ restarts \in Nat

\* "Zero-sum" (farm.js:18): of every crop the owner and the thieves together get
\* the yield once, in whatever order thefts and harvests of several users come,
\* and a crop that is harvested is neither harvested nor stolen from again.
ZeroSum ==
  /\ \A h \in harvests : h.gb + Cardinality(Thefts(h.owner, h.slot, h.at)) = Yield
  /\ \A h, k \in harvests : h.owner = k.owner /\ h.slot = k.slot /\ h.at = k.at => h = k
  /\ \A h \in harvests : planted[h.owner][h.slot] # h.at

\* No crop loses more than the cap, no user takes from the same crop twice or
\* more often in a day than allowed.
StealsBounded ==
  /\ \A t \in steals : Cardinality(Thefts(t.victim, t.slot, t.at)) <= StealMax
  /\ \A t, x \in steals :
       t.thief = x.thief /\ t.victim = x.victim /\ t.slot = x.slot /\ t.at = x.at => t = x
  /\ \A u \in Users : StolenToday(u) <= StealDaily

\* What the page offers is what the theft accepts: a plot shown as stealable,
\* with thefts left for the day, can be stolen from.
OfferHolds ==
  \A u, v \in Users, s \in Slots :
    ShownStealable(u, v, s) /\ StealLeftToday(u) > 0 => CanSteal(u, v, s)

\* The owner of a crop is told once that it is ripe.  (farm.js:361: the row is
\* marked before the message is awaited so that the next execution does not
\* repeat it.  Executions that overlap do repeat it.)
ToldOnce == ~repeated

\* A crop that was announced and still stands is marked: no execution that
\* begins later announces it again, whatever was harvested and planted meanwhile.
ToldIsMarked ==
  \A row \in told : planted[row[1]][row[2]] = row[3] => <<row[1], row[2]>> \in marked

\* The farm gives away every crop once, in portions within their limits, offers
\* what it gives, and does not begin to announce a crop again (farm.js:155-366).
CropsAreSharedOut == TypeOK /\ ZeroSum /\ StealsBounded /\ OfferHolds /\ ToldIsMarked
=============================================================================
