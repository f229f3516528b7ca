---------------------------- MODULE AccountsProofs ----------------------------
(***************************************************************************)
(* Theorems about Accounts for any sets of accounts and nodes, any groups  *)
(* and any bounds on limits and restarts, and, at the end, about Binding   *)
(* and Subscription.                                                       *)
(*                                                                         *)
(* NodesFollowAccounts is inductive by itself, because every path that     *)
(* changes who is admitted either asks for a synchronisation or is         *)
(* recorded as silent; DifferenceStep states that argument once for all    *)
(* actions that leave the nodes alone.                                     *)
(*                                                                         *)
(* ReleaseForCause speaks of every reason collected since the last         *)
(* release, while the code sees only the last one stored.  GroundsMatch    *)
(* relates the two: as long as the daily threshold did not interfere, the  *)
(* stored reason is the only one, or the operator's.                       *)
(*                                                                         *)
(* What Binding promises is inductive once its types are; Subscription     *)
(* needs to know what may stand in the cache (CacheInv) and what a request *)
(* that was answered got (AnswerInv).                                      *)
(***************************************************************************)
EXTENDS MCAccounts, FiniteSetTheorems, TLAPS

\* The part of TypeOK that freezing and releasing touch, and the part that
\* asking for a synchronisation touches.
FreezeTypes ==
  /\ freeze \in [Users -> Reasons \cup {"no"}]
  /\ uuids \subseteq Users \X Nodes
  /\ grounds \in [Users -> SUBSET Reasons]
SyncTypes == due \subseteq Nodes /\ unsent \subseteq Users \X Nodes

\* Freezing accounts, releasing one and leaving all alone keep the types.
LEMMA FreezeKeepsTypes ==
  ASSUME TypeOK, NEW U \in SUBSET Users, NEW r \in Reasons, Freeze(U, r)
  PROVE  FreezeTypes'
<1>1. \A u \in Users : grounds[u] \cup (IF u \in U THEN {r} ELSE {}) \in SUBSET Reasons
  BY DEF TypeOK
<1> QED BY <1>1 DEF Freeze, TypeOK, FreezeTypes

LEMMA ReleaseKeepsTypes ==
  ASSUME TypeOK, NEW u \in Users, Release(u) PROVE FreezeTypes'
  BY DEF Release, TypeOK, FreezeTypes

LEMMA UnfrozenKeepsTypes == ASSUME TypeOK, Unfrozen PROVE FreezeTypes'
  BY DEF Unfrozen, TypeOK, FreezeTypes

\* So do the ways to ask for a synchronisation, or not to.
LEMMA SyncKeepsTypes ==
  ASSUME TypeOK, NEW U \in SUBSET Users, Sync \/ NoSync \/ Silent(U)
  PROVE  SyncTypes'
  BY DEF Sync, NoSync, Silent, TypeOK, SyncTypes

\* Raising a limit keeps it within the bound.
LEMMA RaiseType == \A l \in -1..MaxLimit, gain \in 0..1 : l >= 0 => Raise(l, gain) \in -1..MaxLimit
  BY AccountBoundsAssumption DEF Raise

----------------------------------------------------------------------------
\* Every step about one account keeps the types.
LEMMA UserTypeStep ==
  ASSUME TypeOK, NEW u \in Users, UserStep(u) PROVE TypeOK'
<1> USE AccountBoundsAssumption, LevelsAssumption
<1>f. ASSUME NEW U \in SUBSET Users, NEW r \in Reasons, Freeze(U, r) PROVE FreezeTypes'
  BY <1>f, FreezeKeepsTypes
<1>r. Release(u) \/ Unfrozen => FreezeTypes'
  BY ReleaseKeepsTypes, UnfrozenKeepsTypes
<1>s. Sync \/ NoSync \/ Silent({u}) => SyncTypes'
  BY SyncKeepsTypes
<1>1. CASE SaveTraffic(u)
  <2>1. FreezeTypes' /\ SyncTypes'
    BY <1>1, <1>f, <1>r, <1>s DEF SaveTraffic, LimitCheck, Reasons
  <2>2. used' \in [Users -> 0..MaxUse]
    BY <1>1 DEF SaveTraffic, TypeOK
  <2>3. heavy' \in [Users -> BOOLEAN]
    BY <1>1 DEF SaveTraffic, TypeOK
  <2> QED BY <1>1, <2>1, <2>2, <2>3 DEF SaveTraffic, TypeOK, FreezeTypes, SyncTypes, clock
<1>2. CASE Slacken(u) \/ Expire(u) \/ SetExpiry(u) \/ ToggleBlock(u)
  <2>1. FreezeTypes' /\ SyncTypes'
    BY <1>2, <1>r, <1>s DEF Slacken, Expire, SetExpiry, ToggleBlock
  <2> QED BY <1>2, <2>1
          DEF Slacken, Expire, SetExpiry, ToggleBlock, TypeOK, FreezeTypes, SyncTypes, clock
<1>3. CASE CheckIn(u)
  <2>1. PICK l \in level[u]..MaxLevel :
          /\ level' = [level EXCEPT ![u] = l]
          /\ IF freeze[u] = "tg_inactive"
               THEN Release(u) /\ Sync
               ELSE Unfrozen /\ (IF l = level[u] THEN NoSync ELSE Silent({u}))
    BY <1>3 DEF CheckIn
  <2>2. FreezeTypes' /\ SyncTypes'
    BY <2>1, <1>r, <1>s
  <2>3. level' \in [Users -> 0..MaxLevel]
    BY <2>1 DEF TypeOK
  <2>4. /\ slack' \in [Users -> BOOLEAN]
        /\ UNCHANGED <<limit, used, heavy, frozenToday, blocked, served, expired, restarts>>
    BY <1>3 DEF CheckIn, TypeOK
  <2> QED BY <2>2, <2>3, <2>4 DEF TypeOK, FreezeTypes, SyncTypes
<1>4. CASE EmailLogin(u) \/ NodeLocLogin(u) \/ OpsUnfreeze(u)
  <2>1. FreezeTypes' /\ SyncTypes'
    BY <1>4, <1>r, <1>s DEF EmailLogin, NodeLocLogin, OpsUnfreeze
  <2> QED BY <1>4, <2>1
          DEF EmailLogin, NodeLocLogin, OpsUnfreeze, TypeOK, FreezeTypes, SyncTypes, clock
<1>5. ASSUME NEW gain \in {-1, 1}, Game(u, gain) PROVE TypeOK'
  <2>1. FreezeTypes' /\ SyncTypes'
    BY <1>5, <1>r, <1>s DEF Game, ReleaseIfPaidUp
  <2>2. limit' \in [Users -> -1..MaxLimit]
    BY <1>5 DEF Game, Raise, TypeOK
  <2> QED BY <1>5, <2>1, <2>2 DEF Game, TypeOK, FreezeTypes, SyncTypes, clock
<1>6. CASE Harvest(u, 1)
  <2>1. FreezeTypes' /\ SyncTypes'
    BY <1>6, <1>r, <1>s DEF Harvest, ReleaseIfPaidUp
  <2>2. limit' \in [Users -> -1..MaxLimit]
    BY <1>6, RaiseType DEF Harvest, TypeOK
  <2> QED BY <1>6, <2>1, <2>2 DEF Harvest, TypeOK, FreezeTypes, SyncTypes, clock
<1>7. ASSUME NEW l \in -1..MaxLimit, SetLimit(u, l) PROVE TypeOK'
  <2>1. FreezeTypes' /\ SyncTypes'
    BY <1>7, <1>r, <1>s DEF SetLimit
  <2> QED BY <1>7, <2>1 DEF SetLimit, TypeOK, FreezeTypes, SyncTypes, clock
<1>8. CASE Pay(u, 1)
  <2>1. Raise(limit[u], 1) \in -1..MaxLimit
    BY <1>8, RaiseType DEF Pay, TypeOK
  <2> QED BY <1>7, <1>8, <2>1 DEF Pay
<1>9. ASSUME NEW l \in 0..MaxLevel, SetGroup(u, l) PROVE TypeOK'
  <2>1. FreezeTypes' /\ SyncTypes'
    BY <1>9, <1>r, <1>s DEF SetGroup
  <2> QED BY <1>9, <2>1 DEF SetGroup, TypeOK, FreezeTypes, SyncTypes, clock
<1>10. CASE OpsFreeze(u)
  <2>1. FreezeTypes' /\ SyncTypes'
    BY <1>10, <1>f, <1>s DEF OpsFreeze, Reasons
  <2> QED BY <1>10, <2>1 DEF OpsFreeze, TypeOK, FreezeTypes, SyncTypes, clock
<1>11. CASE Fetch(u)
  <2>1. SyncTypes'
    BY <1>11, <1>s DEF Fetch
  <2>2. uuids' \subseteq Users \X Nodes
    BY <1>11 DEF Fetch, TypeOK
  <2> QED BY <1>11, <2>1, <2>2 DEF Fetch, TypeOK, SyncTypes, clock
<1> QED BY <1>1, <1>2, <1>3, <1>4, <1>5, <1>6, <1>7, <1>8, <1>9, <1>10, <1>11 DEF UserStep

\* Every step of the panel keeps the types.
LEMMA PanelTypeStep == ASSUME TypeOK, PanelStep PROVE TypeOK'
<1> USE AccountBoundsAssumption, LevelsAssumption
<1>u. ASSUME Unfrozen PROVE FreezeTypes'
  BY <1>u, UnfrozenKeepsTypes
<1>s. Sync \/ NoSync => SyncTypes'
  BY SyncKeepsTypes
<1>1. CASE CheckTrafficExceed
  <2> DEFINE over == {u \in Users : heavy[u] /\ ~frozenToday[u]}
  <2>1. Freeze(over, "traffic") /\ SyncTypes'
    BY <1>1, <1>s DEF CheckTrafficExceed
  <2>2. FreezeTypes'
    BY <2>1, FreezeKeepsTypes DEF Reasons
  <2>3. frozenToday' \in [Users -> BOOLEAN]
    BY <1>1 DEF CheckTrafficExceed, TypeOK
  <2> QED BY <1>1, <2>1, <2>2, <2>3
          DEF CheckTrafficExceed, TypeOK, FreezeTypes, SyncTypes, clock
<1>2. CASE FourOClock
  <2>1. SyncTypes'
    BY <1>2, <1>s DEF FourOClock
  <2>2. freeze' \in [Users -> Reasons \cup {"no"}]
    BY <1>2 DEF FourOClock, TypeOK, Reasons
  <2>3. grounds' \in [Users -> SUBSET Reasons]
    BY <1>2 DEF FourOClock, TypeOK, Reasons
  <2>4. uuids' \subseteq Users \X Nodes
    BY <1>2 DEF FourOClock, TypeOK
  <2> QED BY <1>2, <2>1, <2>2, <2>3, <2>4 DEF FourOClock, TypeOK, SyncTypes, clock
<1>3. CASE NewDay
  <2>1. FreezeTypes' /\ SyncTypes'
    BY <1>3, <1>u, <1>s DEF NewDay
  <2> QED BY <1>3, <2>1 DEF NewDay, TypeOK, FreezeTypes, SyncTypes, clock
<1>4. CASE Rotate
  BY <1>4 DEF Rotate, TypeOK, clock
<1>5. CASE Restart
  <2>1. FreezeTypes'
    BY <1>5, <1>u DEF Restart
  <2>2. restarts' \in 0..MaxRestarts
    BY <1>5 DEF Restart, TypeOK
  <2> QED BY <1>5, <2>1, <2>2 DEF Restart, TypeOK, FreezeTypes
<1>6. ASSUME NEW l \in -1..MaxLimit, ApplyDefault(l) PROVE TypeOK'
  <2>1. FreezeTypes' /\ SyncTypes'
    BY <1>6, <1>u, <1>s DEF ApplyDefault
  <2> QED BY <1>6, <2>1 DEF ApplyDefault, TypeOK, FreezeTypes, SyncTypes, clock
<1>7. ASSUME NEW n \in Nodes, Push(n) PROVE TypeOK'
  BY <1>7 DEF Push, TypeOK, clock
<1>8. ASSUME NEW n \in Nodes, EnsureAndPush(n) PROVE TypeOK'
  BY <1>8 DEF EnsureAndPush, TypeOK, clock
<1> QED BY <1>1, <1>2, <1>3, <1>4, <1>5, <1>6, <1>7, <1>8 DEF PanelStep

LEMMA TypeStep == TypeOK /\ [Next]_vars => TypeOK'
<1>1. CASE UNCHANGED vars BY <1>1 DEF vars, TypeOK
<1> QED BY <1>1, UserTypeStep, PanelTypeStep DEF Next

\* TypeOK holds in every reachable state: the types of the accounts and of what
\* the nodes serve.
THEOREM TypeCorrect == Spec => []TypeOK
<1>1. Init => TypeOK
  BY AccountBoundsAssumption, LevelsAssumption DEF Init, TypeOK, Reasons
<1> QED BY <1>1, TypeStep, PTL DEF Spec

----------------------------------------------------------------------------
\* A synchronisation asked for covers whatever the step changed.
LEMMA SyncedFollow == Sync => NodesFollowAccounts'
  BY DEF Sync, NodesFollowAccounts

\* A step that asks for none must not change who is admitted, but for the users
\* it is recorded to have changed silently.
LEMMA QuietFollow ==
  ASSUME NodesFollowAccounts, NEW U \in SUBSET Users,
         UNCHANGED <<served, due>>, unsent' = unsent \cup (U \X Nodes),
         \A u \in Users \ U, n \in Nodes : Admitted(u, n)' = Admitted(u, n)
  PROVE  NodesFollowAccounts'
<1> SUFFICES ASSUME NEW u \in Users, NEW n \in Nodes
             PROVE  ((<<u, n>> \in served) = Admitted(u, n) \/ n \in due \/ <<u, n>> \in unsent)'
  BY DEF NodesFollowAccounts
<1>1. (<<u, n>> \in served) = Admitted(u, n) \/ n \in due \/ <<u, n>> \in unsent
  BY DEF NodesFollowAccounts
<1> QED BY <1>1

\* Where freezes, blocks, groups and UUIDs stay, so does who is admitted.
LEMMA NothingFollows ==
  ASSUME NodesFollowAccounts, NoSync, Unfrozen, UNCHANGED <<served, blocked, level>>
  PROVE  NodesFollowAccounts'
<1>1. unsent' = unsent \cup ({} \X Nodes) /\ UNCHANGED due
  BY DEF NoSync
<1>2. \A u \in Users \ {}, n \in Nodes : Admitted(u, n)' = Admitted(u, n)
  BY DEF Unfrozen, Admitted, Active, Frozen
<1> QED BY <1>1, <1>2, QuietFollow

\* Freezing or releasing one account, or a new group for it, leaves the others
\* as they are.
LEMMA SilentFollow ==
  ASSUME TypeOK, NodesFollowAccounts, NEW u \in Users, Silent({u}),
         UNCHANGED <<served, blocked>>,
         \A v \in Users \ {u} : level'[v] = level[v] /\ freeze'[v] = freeze[v],
         \A v \in Users \ {u}, n \in Nodes : <<v, n>> \in uuids' <=> <<v, n>> \in uuids
  PROVE  NodesFollowAccounts'
<1>1. unsent' = unsent \cup ({u} \X Nodes) /\ UNCHANGED due
  BY DEF Silent
<1>2. \A v \in Users \ {u}, n \in Nodes : Admitted(v, n)' = Admitted(v, n)
  BY DEF Admitted, Active, Frozen
<1> QED BY <1>1, <1>2, QuietFollow

\* Every step about one account keeps the nodes and the accounts together.
LEMMA UserFollowStep ==
  ASSUME TypeOK, NodesFollowAccounts, NEW u \in Users, UserStep(u)
  PROVE  NodesFollowAccounts'
<1>1. CASE SaveTraffic(u)
  <2>1. UNCHANGED <<served, blocked, level>>
    BY <1>1 DEF SaveTraffic
  <2> QED BY <1>1, <2>1, SyncedFollow, NothingFollows DEF SaveTraffic, LimitCheck
<1>2. CASE Slacken(u) \/ Expire(u) \/ SetExpiry(u)
  <2>1. UNCHANGED <<served, blocked, level>> /\ Unfrozen /\ NoSync
    BY <1>2 DEF Slacken, Expire, SetExpiry
  <2> QED BY <2>1, NothingFollows
<1>3. CASE CheckIn(u)
  <2>1. PICK l \in level[u]..MaxLevel :
          /\ level' = [level EXCEPT ![u] = l]
          /\ IF freeze[u] = "tg_inactive"
               THEN Release(u) /\ Sync
               ELSE Unfrozen /\ (IF l = level[u] THEN NoSync ELSE Silent({u}))
    BY <1>3 DEF CheckIn
  <2>2. UNCHANGED <<served, blocked>>
    BY <1>3 DEF CheckIn
  <2>3. CASE Sync
    BY <2>3, SyncedFollow
  <2>4. CASE Unfrozen /\ NoSync /\ l = level[u]
    <3>1. UNCHANGED level
      BY <2>1, <2>4 DEF TypeOK
    <3> QED BY <2>2, <2>4, <3>1, NothingFollows
  <2>5. CASE Unfrozen /\ Silent({u})
    <3>1. \A v \in Users \ {u} : level'[v] = level[v] /\ freeze'[v] = freeze[v]
      BY <2>1, <2>5 DEF TypeOK, Unfrozen
    <3> QED BY <2>2, <2>5, <3>1, SilentFollow DEF Unfrozen
  <2> QED BY <2>1, <2>3, <2>4, <2>5
<1>4. CASE EmailLogin(u) \/ NodeLocLogin(u) \/ ToggleBlock(u)
  BY <1>4, SyncedFollow DEF EmailLogin, NodeLocLogin, ToggleBlock
<1>5. ASSUME NEW gain \in {-1, 1}, Game(u, gain) PROVE NodesFollowAccounts'
  <2>1. UNCHANGED <<served, blocked, level>>
    BY <1>5 DEF Game
  <2> QED BY <1>5, <2>1, SyncedFollow, NothingFollows DEF Game, ReleaseIfPaidUp
<1>r. ASSUME Release(u)
      PROVE  /\ \A v \in Users \ {u} : freeze'[v] = freeze[v]
             /\ \A v \in Users \ {u}, n \in Nodes : <<v, n>> \in uuids' <=> <<v, n>> \in uuids
  BY <1>r DEF Release, TypeOK
<1>6. CASE Harvest(u, 1)
  <2>1. UNCHANGED <<served, blocked, level>>
    BY <1>6 DEF Harvest
  <2> QED BY <1>6, <2>1, <1>r, SilentFollow, NothingFollows DEF Harvest, ReleaseIfPaidUp
<1>7. ASSUME NEW l, SetLimit(u, l) PROVE NodesFollowAccounts'
  BY <1>7, NothingFollows DEF SetLimit
<1>8. CASE Pay(u, 1)
  BY <1>7, <1>8 DEF Pay
<1>9. ASSUME NEW l \in 0..MaxLevel, SetGroup(u, l) PROVE NodesFollowAccounts'
  <2>1. /\ UNCHANGED <<served, blocked>>
        /\ \A v \in Users \ {u} : level'[v] = level[v] /\ freeze'[v] = freeze[v]
        /\ uuids' = uuids
        /\ Silent({u})
    BY <1>9 DEF SetGroup, Unfrozen, TypeOK
  <2> QED BY <2>1, SilentFollow
<1>10. CASE OpsFreeze(u)
  <2>1. /\ UNCHANGED <<served, blocked, level>>
        /\ \A v \in Users \ {u} : freeze'[v] = freeze[v]
        /\ \A v \in Users \ {u}, n \in Nodes : <<v, n>> \in uuids' <=> <<v, n>> \in uuids
        /\ Silent({u})
    BY <1>10 DEF OpsFreeze, Freeze, TypeOK
  <2> QED BY <2>1, SilentFollow
<1>11. CASE OpsUnfreeze(u)
  BY <1>11, <1>r, SilentFollow DEF OpsUnfreeze
<1>12. CASE Fetch(u)
  <2>1. /\ UNCHANGED <<served, blocked, level, freeze>>
        /\ \A v \in Users \ {u}, n \in Nodes : <<v, n>> \in uuids' <=> <<v, n>> \in uuids
        /\ Silent({u})
    BY <1>12 DEF Fetch
  <2> QED BY <2>1, SilentFollow
<1> QED BY <1>1, <1>2, <1>3, <1>4, <1>5, <1>6, <1>7, <1>8, <1>9, <1>10, <1>11, <1>12 DEF UserStep

\* So does every step of the panel; a push makes one node agree.
LEMMA PanelFollowStep ==
  ASSUME TypeOK, NodesFollowAccounts, PanelStep PROVE NodesFollowAccounts'
<1>1. CASE CheckTrafficExceed \/ FourOClock
  BY <1>1, SyncedFollow DEF CheckTrafficExceed, FourOClock
<1>2. CASE NewDay
  BY <1>2, NothingFollows DEF NewDay
<1>3. CASE Rotate
  BY <1>3 DEF Rotate, NodesFollowAccounts, Admitted, Active, Frozen, clock
<1>4. CASE Restart
  <2> SUFFICES ASSUME NEW u \in Users, NEW n \in Nodes
               PROVE  ((<<u, n>> \in served) = Admitted(u, n) \/ <<u, n>> \in unsent)'
    BY DEF NodesFollowAccounts
  <2>1. (<<u, n>> \in served) = Admitted(u, n) \/ n \in due \/ <<u, n>> \in unsent
    BY DEF NodesFollowAccounts
  <2>2. Admitted(u, n)' = Admitted(u, n) /\ served' = served
    BY <1>4 DEF Restart, Unfrozen, Admitted, Active, Frozen
  <2>3. unsent' = unsent \cup (Users \X due)
    BY <1>4 DEF Restart
  <2> QED BY <2>1, <2>2, <2>3
<1>5. ASSUME NEW l \in -1..MaxLimit, ApplyDefault(l) PROVE NodesFollowAccounts'
  BY <1>5, NothingFollows DEF ApplyDefault
<1>6. ASSUME NEW n \in Nodes, Push(n) \/ EnsureAndPush(n) PROVE NodesFollowAccounts'
  <2> SUFFICES ASSUME NEW u \in Users, NEW m \in Nodes
               PROVE  ((<<u, m>> \in served) = Admitted(u, m) \/ m \in due \/ <<u, m>> \in unsent)'
    BY DEF NodesFollowAccounts
  <2>1. (<<u, m>> \in served) = Admitted(u, m) \/ m \in due \/ <<u, m>> \in unsent
    BY DEF NodesFollowAccounts
  <2>2. Active(u, m)' = Active(u, m)
    BY <1>6 DEF Push, EnsureAndPush, Active, Frozen
  <2>3. CASE m = n
    BY <1>6, <2>2, <2>3 DEF Push, EnsureAndPush, Admitted
  <2>4. CASE m # n
    <3>1. /\ <<u, m>> \in served' <=> <<u, m>> \in served
          /\ m \in due' <=> m \in due
          /\ <<u, m>> \in unsent' <=> <<u, m>> \in unsent
      BY <1>6, <2>4 DEF Push, EnsureAndPush
    <3>2. CASE Push(n)
      BY <2>1, <2>2, <3>1, <3>2 DEF Push, Admitted
    <3>3. CASE EnsureAndPush(n)
      BY <2>1, <2>2, <3>1, <3>3, <2>4 DEF EnsureAndPush, Admitted, Active
    <3> QED BY <1>6, <3>2, <3>3
  <2> QED BY <2>3, <2>4
<1> QED BY <1>1, <1>2, <1>3, <1>4, <1>5, <1>6 DEF PanelStep

\* A node serves exactly the admitted accounts unless a synchronisation is under
\* way or the change came along one of the silent paths (deploy.js:378).
THEOREM NodesCorrect == Spec => []NodesFollowAccounts
<1>1. Init => NodesFollowAccounts
  <2> SUFFICES ASSUME Init, NEW u \in Users, NEW n \in Nodes
               PROVE  (<<u, n>> \in served) = Admitted(u, n)
    BY DEF NodesFollowAccounts
  <2>1. MinLevel[n] \in 0..MaxLevel
    BY LevelsAssumption
  <2>2. Admitted(u, n) <=> 0 >= MinLevel[n]
    BY DEF Init, Admitted, Active, Frozen
  <2>3. <<u, n>> \in served <=> MinLevel[n] = 0
    BY DEF Init
  <2> QED BY <2>1, <2>2, <2>3, LevelsAssumption DEF Admitted, Active
<1>2. TypeOK /\ NodesFollowAccounts /\ [Next]_vars => NodesFollowAccounts'
  <2>1. ASSUME NodesFollowAccounts, UNCHANGED vars PROVE NodesFollowAccounts'
    <3>1. unsent' = unsent \cup ({} \X Nodes) /\ UNCHANGED <<served, due>>
      BY <2>1 DEF vars
    <3>2. \A u \in Users \ {}, n \in Nodes : Admitted(u, n)' = Admitted(u, n)
      BY <2>1 DEF vars, Admitted, Active, Frozen
    <3> QED BY <2>1, <3>1, <3>2, QuietFollow
  <2> QED BY <2>1, UserFollowStep, PanelFollowStep DEF Next
<1> QED BY <1>1, <1>2, TypeCorrect, PTL DEF Spec

----------------------------------------------------------------------------
\* What GroundsMatch says of one account.
OneGround(u) ==
  IF Frozen(u)
    THEN /\ freeze[u] \in grounds[u]
         /\ \/ freeze[u] = "manual"
            \/ "traffic" \in grounds[u]
            \/ grounds[u] = {freeze[u]}
    ELSE grounds[u] = {}

\* An account whose freeze and history stay keeps its ground; a released one
\* has none; one frozen for the first time has one.
LEMMA SameGround ==
  ASSUME NEW u \in Users, OneGround(u), freeze'[u] = freeze[u], grounds'[u] = grounds[u]
  PROVE  OneGround(u)'
  BY DEF OneGround, Frozen

LEMMA NoGround ==
  ASSUME NEW u \in Users, freeze'[u] = "no", grounds'[u] = {} PROVE OneGround(u)'
  BY DEF OneGround, Frozen

LEMMA NewGround ==
  ASSUME NEW u \in Users, OneGround(u), NEW r \in Reasons,
         freeze'[u] = r, grounds'[u] = grounds[u] \cup {r},
         ~Frozen(u) \/ r \in {"traffic", "manual"}
  PROVE  OneGround(u)'
<1>1. Frozen(u)'
  BY DEF Frozen, Reasons
<1>2. r \in grounds'[u]
  OBVIOUS
<1>3. ~Frozen(u) => grounds[u] = {}
  BY DEF OneGround
<1> QED BY <1>1, <1>2, <1>3 DEF OneGround

\* Freezing and releasing keep every account's ground.
LEMMA FreezeGround ==
  ASSUME TypeOK, GroundsMatch, NEW U \in SUBSET Users, NEW r \in Reasons, Freeze(U, r),
         (\A u \in U : ~Frozen(u)) \/ r \in {"traffic", "manual"}
  PROVE  GroundsMatch'
<1> SUFFICES ASSUME NEW u \in Users PROVE OneGround(u)'
  BY DEF GroundsMatch, OneGround
<1>1. OneGround(u)
  BY DEF GroundsMatch, OneGround
<1>2. CASE u \in U
  <2>1. freeze'[u] = r /\ grounds'[u] = grounds[u] \cup {r}
    BY <1>2 DEF Freeze
  <2> QED BY <1>1, <1>2, <2>1, NewGround
<1>3. CASE u \notin U
  <2>1. freeze'[u] = freeze[u] /\ grounds'[u] = grounds[u]
    BY <1>3 DEF Freeze
  <2> QED BY <1>1, <2>1, SameGround
<1> QED BY <1>2, <1>3

LEMMA ReleaseGround ==
  ASSUME TypeOK, GroundsMatch, NEW v \in Users, Release(v) PROVE GroundsMatch'
<1> SUFFICES ASSUME NEW u \in Users PROVE OneGround(u)'
  BY DEF GroundsMatch, OneGround
<1>1. OneGround(u)
  BY DEF GroundsMatch, OneGround
<1>2. CASE u = v
  <2>1. freeze'[u] = "no" /\ grounds'[u] = {}
    BY <1>2 DEF Release, TypeOK
  <2> QED BY <2>1, NoGround
<1>3. CASE u # v
  <2>1. freeze'[u] = freeze[u] /\ grounds'[u] = grounds[u]
    BY <1>3 DEF Release, TypeOK
  <2> QED BY <1>1, <2>1, SameGround
<1> QED BY <1>2, <1>3

LEMMA UnfrozenGround == ASSUME GroundsMatch, Unfrozen PROVE GroundsMatch'
  BY DEF GroundsMatch, Unfrozen, Frozen

\* Every step keeps them.
LEMMA GroundStep == TypeOK /\ GroundsMatch /\ [Next]_vars => GroundsMatch'
<1> SUFFICES ASSUME TypeOK, GroundsMatch, [Next]_vars PROVE GroundsMatch'
  OBVIOUS
<1>1. ASSUME NEW u \in Users, UserStep(u) PROVE GroundsMatch'
  <2>r. Release(u) \/ Unfrozen => GroundsMatch'
    BY ReleaseGround, UnfrozenGround
  <2>1. CASE SaveTraffic(u)
    <3>1. ~Frozen(u) /\ Freeze({u}, "traffic_limit") => GroundsMatch'
      BY FreezeGround DEF Reasons
    <3> QED BY <2>1, <2>r, <3>1 DEF SaveTraffic, LimitCheck
  <2>2. CASE Slacken(u) \/ Expire(u) \/ SetExpiry(u) \/ ToggleBlock(u)
    BY <2>2, UnfrozenGround DEF Slacken, Expire, SetExpiry, ToggleBlock
  <2>3. CASE CheckIn(u)
    BY <2>3, <2>r DEF CheckIn
  <2>4. CASE EmailLogin(u) \/ NodeLocLogin(u) \/ OpsUnfreeze(u)
    BY <2>4, ReleaseGround DEF EmailLogin, NodeLocLogin, OpsUnfreeze
  <2>5. ASSUME NEW gain \in {-1, 1}, Game(u, gain) PROVE GroundsMatch'
    BY <2>5, <2>r DEF Game, ReleaseIfPaidUp
  <2>6. CASE Harvest(u, 1)
    BY <2>6, <2>r DEF Harvest, ReleaseIfPaidUp
  <2>7. ASSUME NEW l, SetLimit(u, l) PROVE GroundsMatch'
    BY <2>7, UnfrozenGround DEF SetLimit
  <2>8. CASE Pay(u, 1)
    BY <2>7, <2>8 DEF Pay
  <2>9. ASSUME NEW l \in 0..MaxLevel, SetGroup(u, l) PROVE GroundsMatch'
    BY <2>9, UnfrozenGround DEF SetGroup
  <2>10. CASE OpsFreeze(u)
    BY <2>10, FreezeGround DEF OpsFreeze, Reasons
  <2>11. CASE Fetch(u)
    BY <2>11 DEF Fetch, GroundsMatch, Frozen
  <2> QED BY <1>1, <2>1, <2>2, <2>3, <2>4, <2>5, <2>6, <2>7, <2>8, <2>9, <2>10, <2>11
          DEF UserStep
<1>2. ASSUME PanelStep PROVE GroundsMatch'
  <2>1. CASE CheckTrafficExceed
    <3> DEFINE over == {u \in Users : heavy[u] /\ ~frozenToday[u]}
    <3>1. Freeze(over, "traffic")
      BY <2>1 DEF CheckTrafficExceed
    <3> QED BY <3>1, FreezeGround DEF Reasons
  <2>2. CASE FourOClock
    <3> SUFFICES ASSUME NEW u \in Users PROVE OneGround(u)'
      BY DEF GroundsMatch, OneGround
    <3> DEFINE free == ~Frozen(u) /\ ~blocked[u]
    <3>1. OneGround(u)
      BY DEF GroundsMatch, OneGround
    <3>2. CASE free /\ slack[u]
      <4>1. freeze'[u] = "tg_inactive" /\ grounds'[u] = grounds[u] \cup {"tg_inactive"}
        BY <2>2, <3>2 DEF FourOClock
      <4> QED BY <3>1, <3>2, <4>1, NewGround DEF Reasons
    <3>3. CASE free /\ expired[u] /\ ~slack[u]
      <4>1. freeze'[u] = "expired" /\ grounds'[u] = grounds[u] \cup {"expired"}
        BY <2>2, <3>3 DEF FourOClock
      <4> QED BY <3>1, <3>3, <4>1, NewGround DEF Reasons
    <3>4. CASE ~(free /\ slack[u]) /\ ~(free /\ expired[u] /\ ~slack[u])
      <4>1. freeze'[u] = freeze[u] /\ grounds'[u] = grounds[u]
        BY <2>2, <3>4 DEF FourOClock
      <4> QED BY <3>1, <4>1, SameGround
    <3> QED BY <3>2, <3>3, <3>4
  <2>3. CASE NewDay \/ Restart
    BY <2>3, UnfrozenGround DEF NewDay, Restart
  <2>4. CASE Rotate
    BY <2>4 DEF Rotate, GroundsMatch, Frozen
  <2>5. ASSUME NEW l \in -1..MaxLimit, ApplyDefault(l) PROVE GroundsMatch'
    BY <2>5, UnfrozenGround DEF ApplyDefault
  <2>6. ASSUME NEW n \in Nodes, Push(n) \/ EnsureAndPush(n) PROVE GroundsMatch'
    BY <2>6 DEF Push, EnsureAndPush, GroundsMatch, Frozen
  <2> QED BY <1>2, <2>1, <2>2, <2>3, <2>4, <2>5, <2>6 DEF PanelStep
<1>3. CASE UNCHANGED vars
  BY <1>3 DEF vars, GroundsMatch, Frozen
<1> QED BY <1>1, <1>2, <1>3 DEF Next

\* The condition of ReleaseForCause for one account.
Justified(u) ==
  freeze[u] # "no" /\ freeze'[u] = "no" /\ "traffic" \notin grounds[u] =>
    \/ OpsUnfreeze(u)
    \/ /\ grounds[u] \cap {"manual", "expired"} = {}
       /\ "tg_inactive" \in grounds[u] => ~slack'[u]
       /\ "traffic_limit" \in grounds[u] =>
            u \in OAuthUsers \/ ~Exceeded(limit'[u], used'[u])

\* A step that releases nobody, and the release of one account for one reason,
\* are justified.
LEMMA NobodyReleased ==
  ASSUME NEW u \in Users, freeze'[u] = "no" => freeze[u] = "no" PROVE Justified(u)
  BY DEF Justified

LEMMA OneReason ==
  ASSUME TypeOK, GroundsMatch, NEW u \in Users, freeze[u] \in {"tg_inactive", "traffic_limit"},
         "traffic" \notin grounds[u]
  PROVE  grounds[u] = {freeze[u]}
  BY DEF GroundsMatch, Frozen

\* Whatever is done with one account, any other keeps its freeze.
LEMMA OthersKeepFreeze ==
  ASSUME TypeOK, NEW v \in Users, NEW u \in Users \ {v}, UserStep(v)
  PROVE  freeze'[u] = freeze[u]
<1>f. ASSUME NEW r, Freeze({v}, r) PROVE freeze'[u] = freeze[u]
  BY <1>f DEF Freeze, TypeOK
<1>r. Release(v) \/ Unfrozen => freeze'[u] = freeze[u]
  BY DEF Release, Unfrozen, TypeOK
<1>1. CASE SaveTraffic(v)
  BY <1>1, <1>f, <1>r DEF SaveTraffic, LimitCheck
<1>2. CASE Slacken(v) \/ Expire(v) \/ SetExpiry(v) \/ ToggleBlock(v)
  BY <1>2, <1>r DEF Slacken, Expire, SetExpiry, ToggleBlock
<1>3. CASE CheckIn(v)
  BY <1>3, <1>r DEF CheckIn
<1>4. CASE EmailLogin(v) \/ NodeLocLogin(v) \/ OpsUnfreeze(v)
  BY <1>4, <1>r DEF EmailLogin, NodeLocLogin, OpsUnfreeze
<1>5. ASSUME NEW gain \in {-1, 1}, Game(v, gain) PROVE freeze'[u] = freeze[u]
  BY <1>5, <1>r DEF Game, ReleaseIfPaidUp
<1>6. CASE Harvest(v, 1)
  BY <1>6, <1>r DEF Harvest, ReleaseIfPaidUp
<1>7. ASSUME NEW l, SetLimit(v, l) \/ SetGroup(v, l) PROVE freeze'[u] = freeze[u]
  BY <1>7, <1>r DEF SetLimit, SetGroup
<1>8. CASE Pay(v, 1)
  BY <1>7, <1>8 DEF Pay
<1>9. CASE OpsFreeze(v)
  BY <1>9, <1>f DEF OpsFreeze
<1>10. CASE Fetch(v)
  BY <1>10 DEF Fetch
<1> QED BY <1>1, <1>2, <1>3, <1>4, <1>5, <1>6, <1>7, <1>8, <1>9, <1>10 DEF UserStep

\* What one account does to itself releases it for cause only.
LEMMA OwnRelease ==
  ASSUME TypeOK, GroundsMatch, NEW u \in Users, UserStep(u) PROVE Justified(u)
<1>f. ASSUME NEW r \in Reasons, Freeze({u}, r) PROVE Justified(u)
  <2>1. freeze'[u] # "no"
    BY <1>f DEF Freeze, Reasons
  <2> QED BY <2>1, NobodyReleased
<1>u. Unfrozen \/ freeze' = freeze => Justified(u)
  BY NobodyReleased DEF Unfrozen
<1>l. ASSUME freeze[u] = "traffic_limit", ~Exceeded(limit'[u], used'[u]) PROVE Justified(u)
  BY <1>l, OneReason DEF Justified
<1>1. CASE SaveTraffic(u)
  <2>1. limit' = limit
    BY <1>1 DEF SaveTraffic
  <2> QED BY <1>1, <2>1, <1>f, <1>u, <1>l DEF SaveTraffic, LimitCheck, Reasons
<1>2. CASE Slacken(u) \/ Expire(u) \/ SetExpiry(u) \/ ToggleBlock(u) \/ Fetch(u)
  BY <1>2, <1>u DEF Slacken, Expire, SetExpiry, ToggleBlock, Fetch
<1>3. CASE CheckIn(u)
  <2>1. CASE freeze[u] = "tg_inactive"
    <3>1. ~slack'[u]
      BY <1>3 DEF CheckIn, TypeOK
    <3> QED BY <2>1, <3>1, OneReason DEF Justified
  <2>2. CASE freeze[u] # "tg_inactive"
    BY <1>3, <2>2, <1>u DEF CheckIn
  <2> QED BY <2>1, <2>2
<1>4. CASE EmailLogin(u)
  <2>1. freeze[u] = "traffic"
    BY <1>4 DEF EmailLogin
  <2>2. "traffic" \in grounds[u]
    BY <2>1 DEF GroundsMatch, Frozen
  <2> QED BY <2>2 DEF Justified
<1>5. CASE NodeLocLogin(u)
  <2>1. CASE freeze[u] = "traffic"
    <3>1. "traffic" \in grounds[u]
      BY <2>1 DEF GroundsMatch, Frozen
    <3> QED BY <3>1 DEF Justified
  <2>2. CASE freeze[u] = "traffic_limit"
    BY <1>5, <2>2, OneReason DEF NodeLocLogin, Justified
  <2> QED BY <1>5, <2>1, <2>2 DEF NodeLocLogin
<1>6. ASSUME NEW gain \in {-1, 1}, Game(u, gain) PROVE Justified(u)
  <2>1. used' = used
    BY <1>6 DEF Game
  <2> QED BY <1>6, <2>1, <1>u, <1>l DEF Game, ReleaseIfPaidUp
<1>7. CASE Harvest(u, 1)
  <2>1. used' = used
    BY <1>7 DEF Harvest
  <2> QED BY <1>7, <2>1, <1>u, <1>l DEF Harvest, ReleaseIfPaidUp
<1>8. ASSUME NEW l, SetLimit(u, l) \/ SetGroup(u, l) PROVE Justified(u)
  BY <1>8, <1>u DEF SetLimit, SetGroup
<1>9. CASE Pay(u, 1)
  BY <1>8, <1>9 DEF Pay
<1>10. CASE OpsFreeze(u)
  BY <1>10, <1>f DEF OpsFreeze, Reasons
<1>11. CASE OpsUnfreeze(u)
  BY <1>11 DEF Justified
<1> QED BY <1>1, <1>2, <1>3, <1>4, <1>5, <1>6, <1>7, <1>8, <1>9, <1>10, <1>11 DEF UserStep

\* The panel by itself releases nobody.
LEMMA PanelReleasesNobody ==
  ASSUME TypeOK, NEW u \in Users, PanelStep PROVE Justified(u)
<1>u. Unfrozen \/ freeze' = freeze => Justified(u)
  BY NobodyReleased DEF Unfrozen
<1>1. CASE CheckTrafficExceed
  <2>1. freeze'[u] = freeze[u] \/ freeze'[u] = "traffic"
    BY <1>1 DEF CheckTrafficExceed, Freeze
  <2> QED BY <2>1, NobodyReleased
<1>2. CASE FourOClock
  <2>1. freeze'[u] \in {freeze[u], "tg_inactive", "expired"}
    BY <1>2 DEF FourOClock
  <2> QED BY <2>1, NobodyReleased
<1>3. CASE NewDay \/ Rotate \/ Restart
  BY <1>3, <1>u DEF NewDay, Rotate, Restart
<1>4. ASSUME NEW l, ApplyDefault(l) PROVE Justified(u)
  BY <1>4, <1>u DEF ApplyDefault
<1>5. ASSUME NEW n \in Nodes, Push(n) \/ EnsureAndPush(n) PROVE Justified(u)
  BY <1>5, <1>u DEF Push, EnsureAndPush
<1> QED BY <1>1, <1>2, <1>3, <1>4, <1>5 DEF PanelStep

\* Unless the operator lifts it, a freeze ends only for the reason it was made,
\* whichever of the six parts of the panel touched the account in between
\* (health.js:577, tgGame.js, tgbot.js, auth.js).
THEOREM ReleaseJustified == Spec => ReleaseForCause
<1>1. Init => GroundsMatch
  BY DEF Init, GroundsMatch, Frozen
<1>2. TypeOK /\ GroundsMatch /\ [Next]_vars => [\A u \in Users : Justified(u)]_vars
  <2> SUFFICES ASSUME TypeOK, GroundsMatch, Next, NEW u \in Users PROVE Justified(u)
    OBVIOUS
  <2>1. ASSUME NEW v \in Users, UserStep(v) PROVE Justified(u)
    <3>1. CASE v = u
      BY <2>1, <3>1, OwnRelease
    <3>2. CASE v # u
      <4>1. freeze'[u] = freeze[u]
        BY <2>1, <3>2, OthersKeepFreeze
      <4> QED BY <4>1, NobodyReleased
    <3> QED BY <3>1, <3>2
  <2> QED BY <2>1, PanelReleasesNobody DEF Next
<1>3. [][\A u \in Users : Justified(u)]_vars => ReleaseForCause
  BY DEF Justified, ReleaseForCause
<1> QED BY <1>1, <1>2, <1>3, GroundStep, TypeCorrect, PTL DEF Spec

----------------------------------------------------------------------------
(* Binding, for any accounts, Telegram accounts and number of restarts.     *)

LEMMA BindingDeletes ==
  ASSUME BindingsAreSound, NEW D \in SUBSET users, B!DeleteUsers(D)
  PROVE  BindingsAreSound'
<1>b. B!TypeOK /\ B!TelegramBoundOnce /\ B!TrafficNeedsTelegram
  BY DEF BindingsAreSound, B!BindingsAreSound
<1>1. B!TypeOK'
  BY <1>b DEF B!TypeOK, B!DeleteUsers, B!probeVars
<1>2. \A a \in users' : a \in users /\ telegram'[a] = telegram[a] /\ gift'[a] = gift[a]
                        /\ gifts'[a] = gifts[a]
  BY <1>b DEF B!TypeOK, B!DeleteUsers
<1>3. B!TelegramBoundOnce' /\ B!TrafficNeedsTelegram'
  BY <1>b, <1>2 DEF B!TelegramBoundOnce, B!TrafficNeedsTelegram
<1> QED BY <1>1, <1>3 DEF BindingsAreSound, B!BindingsAreSound

LEMMA BindingOwnerStep ==
  ASSUME BindingsAreSound, NEW a \in Members, B!OwnerStep(a) PROVE BindingsAreSound'
<1>b. B!TypeOK /\ B!TelegramBoundOnce /\ B!TrafficNeedsTelegram
  BY DEF BindingsAreSound, B!BindingsAreSound
<1>n. None \notin Telegrams
  BY PartsAssumption DEF B!BindingBoundsAssumption
<1>1. CASE B!Register(a)
  <2>1. telegram[a] = None /\ gift[a] = 0
    BY <1>b, <1>1 DEF B!Register, B!TypeOK
  <2>2. B!TypeOK'
    BY <1>b, <1>1 DEF B!Register, B!TypeOK, B!probeVars
  <2>3. B!TelegramBoundOnce'
    BY <1>b, <1>1, <2>1 DEF B!Register, B!TelegramBoundOnce
  <2>4. B!TrafficNeedsTelegram'
    BY <1>b, <1>1, <2>1 DEF B!Register, B!TrafficNeedsTelegram, B!TypeOK
  <2> QED BY <2>2, <2>3, <2>4 DEF BindingsAreSound, B!BindingsAreSound
<1>2. CASE B!GenerateBindToken(a) \/ B!Unbind(a) \/ B!Lose(a)
  <2>1. B!TypeOK'
    BY <1>b, <1>2 DEF B!GenerateBindToken, B!Unbind, B!Lose, B!Bound, B!TypeOK, B!probeVars
  <2>2. /\ users' = users /\ gifts' = gifts
        /\ \A x \in users : /\ telegram'[x] # None => telegram'[x] = telegram[x]
                            /\ gift'[x] > 0 => gift[x] > 0
    BY <1>b, <1>2 DEF B!GenerateBindToken, B!Unbind, B!Lose, B!Bound, B!TypeOK
  <2>3. B!TelegramBoundOnce'
    BY <1>b, <2>2 DEF B!TelegramBoundOnce
  <2>4. B!TrafficNeedsTelegram'
    BY <1>b, <2>2 DEF B!TrafficNeedsTelegram
  <2> QED BY <2>1, <2>3, <2>4 DEF BindingsAreSound, B!BindingsAreSound
<1>3. ASSUME NEW t \in Telegrams, B!Bind(a, t) PROVE BindingsAreSound'
  <2>1. /\ a \in users
        /\ \A x \in users : telegram[x] # t
        /\ telegram' = [telegram EXCEPT ![a] = t]
        /\ token' = token \ {a}
        /\ UNCHANGED <<users, ripe, shut, probe, found, stops>>
    BY <1>b, <1>3 DEF B!Bind, B!TypeOK, B!probeVars
  <2>2. /\ gift' \in [Members -> 0..1]
        /\ gifts' \in [Members -> 0..2]
        /\ gifts'[a] > 0
        /\ \A x \in Members \ {a} : gift'[x] = gift[x] /\ gifts'[x] = gifts[x]
    <3>1. CASE gift[a] = 0
      BY <1>b, <1>3, <3>1 DEF B!Bind, B!Gift, B!TypeOK
    <3>2. CASE gift[a] # 0
      <4>1. gift' = gift /\ gifts' = gifts
        BY <1>3, <3>2 DEF B!Bind, B!Gift
      <4>2. gifts[a] > 0
        BY <1>b, <2>1, <3>2 DEF B!TrafficNeedsTelegram, B!TypeOK
      <4> QED BY <1>b, <4>1, <4>2 DEF B!TypeOK
    <3> QED BY <3>1, <3>2
  <2>3. B!TypeOK'
    BY <1>b, <2>1, <2>2 DEF B!TypeOK
  <2>4. B!TelegramBoundOnce'
    BY <1>b, <2>1 DEF B!TelegramBoundOnce, B!TypeOK
  <2>5. B!TrafficNeedsTelegram'
    BY <1>b, <2>1, <2>2 DEF B!TrafficNeedsTelegram, B!TypeOK
  <2> QED BY <2>3, <2>4, <2>5 DEF BindingsAreSound, B!BindingsAreSound
<1> QED BY <1>1, <1>2, <1>3 DEF B!OwnerStep

LEMMA BindingStep == ASSUME BindingsAreSound, B!Next PROVE BindingsAreSound'
<1>b. B!TypeOK /\ B!TelegramBoundOnce /\ B!TrafficNeedsTelegram
  BY DEF BindingsAreSound, B!BindingsAreSound
<1>1. CASE B!FourOClock \/ \E a \in Members : B!AdminDeletes(a)
  <2>1. B!Unbounds \in SUBSET users /\ \A a \in users : {a} \in SUBSET users
    BY <1>b DEF B!Unbounds, B!TypeOK
  <2> QED BY <1>1, <2>1, BindingDeletes DEF B!FourOClock, B!AdminDeletes
\* The remaining steps give no account a Telegram, traffic or a row.
<1>k. ASSUME B!TypeOK', users' = users, gift' = gift, gifts' = gifts,
             \A a \in users : telegram'[a] # None => telegram'[a] = telegram[a]
      PROVE  BindingsAreSound'
  <2>1. B!TelegramBoundOnce'
    BY <1>b, <1>k DEF B!TelegramBoundOnce
  <2>2. B!TrafficNeedsTelegram'
    BY <1>b, <1>k DEF B!TrafficNeedsTelegram
  <2> QED BY <1>k, <2>1, <2>2 DEF BindingsAreSound, B!BindingsAreSound
<1>2. ASSUME NEW a \in Members, B!Ripen(a) PROVE BindingsAreSound'
  BY <1>b, <1>k, <1>2 DEF B!Ripen, B!TypeOK, B!probeVars
<1>3. ASSUME NEW t \in Telegrams, B!BlockBot(t) PROVE BindingsAreSound'
  <2>1. shut' \subseteq Telegrams
    BY <1>b, <1>3 DEF B!BlockBot, B!TypeOK
  <2> QED BY <1>b, <1>k, <1>3, <2>1 DEF B!BlockBot, B!TypeOK, B!rowVars, B!probeVars
<1>4. ASSUME NEW p \in probe, B!ProbeNext(p) PROVE BindingsAreSound'
  <2>1. p[1] \in Members
    BY <1>b DEF B!TypeOK
  <2>2. probe' \subseteq Members \X Telegrams /\ found' \subseteq Members
    BY <1>b, <1>4, <2>1 DEF B!ProbeNext, B!TypeOK
  <2> QED BY <1>b, <1>k, <1>4, <2>2 DEF B!ProbeNext, B!TypeOK, B!rowVars
<1>5. CASE B!ProbeStart
  <2>1. probe' \subseteq Members \X Telegrams
    BY <1>b, <1>5 DEF B!ProbeStart, B!Bound, B!TypeOK
  <2> QED BY <1>b, <1>k, <1>5, <2>1 DEF B!ProbeStart, B!TypeOK, B!rowVars
<1>6. CASE B!ProbeEnd
  BY <1>b, <1>k, <1>6 DEF B!ProbeEnd, B!TypeOK
<1>7. CASE B!Restart
  <2>1. stops' \in 0..MaxRestarts
    BY <1>b, <1>7, PartsAssumption DEF B!Restart, B!TypeOK, B!BindingBoundsAssumption
  <2> QED BY <1>b, <1>k, <1>7, <2>1 DEF B!Restart, B!TypeOK, B!rowVars
<1> QED BY <1>1, <1>2, <1>3, <1>4, <1>5, <1>6, <1>7, BindingOwnerStep DEF B!Next

\* One account per Telegram and no traffic without one, whatever tokens, probes,
\* deletions and restarts come in between.
THEOREM BindingsCorrect == AllSpec => []BindingsAreSound
<1>1. AllInit => BindingsAreSound
  BY PartsAssumption DEF AllInit, B!Init, BindingsAreSound, B!BindingsAreSound, B!TypeOK,
     B!TelegramBoundOnce, B!TrafficNeedsTelegram, B!BindingBoundsAssumption
<1>2. BindingsAreSound /\ [AllNext]_allVars => BindingsAreSound'
  <2> SUFFICES ASSUME BindingsAreSound, [AllNext]_allVars PROVE BindingsAreSound'
    OBVIOUS
  <2>1. CASE B!Next
    BY <2>1, BindingStep
  <2>2. CASE UNCHANGED bindingVars
    BY <2>2 DEF bindingVars, BindingsAreSound, B!BindingsAreSound, B!TypeOK,
       B!TelegramBoundOnce, B!TrafficNeedsTelegram
  <2> QED BY <2>1, <2>2 DEF AllNext, allVars
<1> QED BY <1>1, <1>2, PTL DEF AllSpec

----------------------------------------------------------------------------
(* Subscription, for any clients, limits and bounds.                        *)

\* The numbers of links and keys, and what the nodes have to be told
KeyInv ==
  /\ link \in L!Links
  /\ key \in 1..MaxKeys /\ floor \in 1..key /\ nodeKey \in 1..key
  /\ events \subseteq Clients /\ asked \subseteq Clients
FlagInv ==
  /\ {lasting, active, resetBy, pushDue, pushLost} \subseteq BOOLEAN
  /\ L!KeysReachNodes

\* What is cached for the present link was built after the keys were last
\* reset, because every such reset changes the link.
CacheInv ==
  /\ cache \in [L!Links -> 1..key \cup {None}]
  /\ \A l \in L!Links : l > link => cache[l] = None
  /\ cache[link] # None => cache[link] >= floor

AnswerInv ==
  answered # None =>
    /\ answered \in [link : L!Links, key : 1..key]
    /\ answered.link = link /\ active
    /\ answered.key >= floor

\* The guard has seen no more clients than it remembers.
GuardInv ==
  /\ guard \in [count : 0..MaxReq, seen : SUBSET Clients, banned : BOOLEAN]
  /\ IsFiniteSet(guard.seen)
  /\ Cardinality(guard.seen) <= MaxSeen

LEMMA SameCardinality == \A S : L!Cardinality(S) = Cardinality(S)
BY DEF L!Cardinality, Cardinality

\* Any of the clients are finitely many.
LEMMA SeenFinite == \A S \in SUBSET Clients : IsFiniteSet(S)
<1>1. IsFiniteSet(Clients)
  BY PartsAssumption DEF L!SubscriptionAssumption, L!IsFiniteSet, IsFiniteSet
<1> QED BY <1>1, FS_Subset

LEMMA NewGuard == guard' \in {L!Quiet, L!Banned} => GuardInv'
<1> SUFFICES ASSUME guard' \in {L!Quiet, L!Banned} PROVE GuardInv'
  OBVIOUS
<1>1. MaxReq \in Nat /\ MaxSeen \in Nat
  BY PartsAssumption DEF L!SubscriptionAssumption
<1>2. guard'.seen = {} /\ guard' \in [count : 0..MaxReq, seen : SUBSET Clients, banned : BOOLEAN]
  <2>1. CASE guard' = L!Quiet
    BY <1>1, <2>1 DEF L!Quiet
  <2>2. CASE guard' = L!Banned
    BY <1>1, <2>2 DEF L!Banned
  <2> QED BY <2>1, <2>2
<1>3. IsFiniteSet({}) /\ Cardinality({}) = 0
  BY FS_EmptySet
<1> QED BY <1>1, <1>2, <1>3 DEF GuardInv

\* The limits of the guard hold after every request it looks at.
LEMMA GuardKeeps ==
  ASSUME GuardInv, NEW l, NEW c \in Clients, L!Guard(l, c) PROVE GuardInv'
<1>1. MaxReq \in Nat /\ MaxSeen \in Nat
  BY PartsAssumption DEF L!SubscriptionAssumption
<1>2. CASE guard' = guard
  BY <1>2 DEF GuardInv
<1>3. CASE guard' = L!Banned
  BY <1>3, NewGuard
<1>4. CASE /\ guard' = [count |-> guard.count + 1, seen |-> guard.seen \cup {c}, banned |-> FALSE]
           /\ ~(guard.count + 1 > MaxReq \/ Cardinality(guard.seen \cup {c}) > MaxSeen)
  <2>1. IsFiniteSet(guard.seen \cup {c})
    BY FS_AddElement DEF GuardInv
  <2>2. Cardinality(guard.seen \cup {c}) \in Nat
    BY <2>1, FS_CardinalityType
  <2>3. guard.count + 1 \in 0..MaxReq /\ guard.seen \cup {c} \in SUBSET Clients
    BY <1>1, <1>4 DEF GuardInv
  <2> QED BY <1>1, <1>4, <2>1, <2>2, <2>3 DEF GuardInv
<1>5. \/ L!Checked(c) = guard \/ L!Checked(c) = L!Banned
      \/ /\ L!Checked(c) = [count |-> guard.count + 1, seen |-> guard.seen \cup {c}, banned |-> FALSE]
         /\ ~(guard.count + 1 > MaxReq \/ Cardinality(guard.seen \cup {c}) > MaxSeen)
  BY SameCardinality DEF L!Checked
<1>6. guard' = guard \/ guard' = L!Checked(c)
  BY DEF L!Guard
<1> QED BY <1>2, <1>3, <1>4, <1>5, <1>6

SubscriptionInv == KeyInv /\ FlagInv /\ CacheInv /\ AnswerInv /\ GuardInv

LEMMA SubscriptionBounds ==
  /\ MaxLinks \in Nat \ {0} /\ MaxKeys \in Nat \ {0} /\ MaxReq \in Nat /\ MaxSeen \in Nat
BY PartsAssumption DEF L!SubscriptionAssumption

\* Steps that leave link and keys alone and serve nobody
LEMMA IdleKeeps ==
  ASSUME SubscriptionInv, GuardInv', FlagInv',
         UNCHANGED <<link, key, floor, nodeKey>>,
         events' \subseteq Clients, asked' \subseteq Clients,
         cache' = [l \in L!Links |-> cache'[l]],
         \A l \in L!Links : cache'[l] = cache[l] \/ cache'[l] = None,
         answered' = None
  PROVE  SubscriptionInv'
<1>1. KeyInv'
  BY DEF SubscriptionInv, KeyInv
<1>2. CacheInv'
  <2>1. cache' \in [L!Links -> 1..key \cup {None}]
    BY DEF SubscriptionInv, CacheInv
  <2> QED BY <2>1 DEF SubscriptionInv, CacheInv, KeyInv
<1>3. AnswerInv'
  BY DEF AnswerInv
<1> QED BY <1>1, <1>2, <1>3 DEF SubscriptionInv

LEMMA NoteKeeps ==
  ASSUME KeyInv, NEW l, NEW c \in Clients, L!Note(l, c)
  PROVE  events' \subseteq Clients /\ asked' \subseteq Clients
BY DEF KeyInv, L!Note

\* A link or a key is replaced by the next.
LEMMA ResetKeeps ==
  ASSUME SubscriptionInv, GuardInv', FlagInv', answered' = None,
         events' \subseteq Clients, asked' \subseteq Clients,
         cache' = cache, nodeKey' = nodeKey, link' \in L!Links, key' \in 1..MaxKeys,
         \/ link' = link + 1 /\ key' = key + 1 /\ floor' = key + 1
         \/ link' = link + 1 /\ key' = key /\ floor' = floor
         \/ link' = link /\ key' = key + 1 /\ floor' = floor
  PROVE  SubscriptionInv'
<1>1. link \in 1..MaxLinks /\ key \in 1..MaxKeys /\ floor \in 1..key /\ nodeKey \in 1..key
  BY DEF SubscriptionInv, KeyInv, L!Links
<1>2. KeyInv'
  BY <1>1, SubscriptionBounds DEF SubscriptionInv, KeyInv
<1>3. CacheInv'
  <2>1. 1..key \subseteq 1..key'
    BY <1>1
  <2>2. cache' \in [L!Links -> 1..key' \cup {None}]
    BY <2>1 DEF SubscriptionInv, CacheInv
  <2>3. \A l \in L!Links : l > link' => l > link
    BY <1>1, SubscriptionBounds DEF L!Links
  <2>4. \A l \in L!Links : l > link' => cache'[l] = None
    BY <2>3 DEF SubscriptionInv, CacheInv
  <2>5. cache'[link'] # None => link' = link /\ floor' = floor
    BY <1>1, SubscriptionBounds DEF SubscriptionInv, CacheInv, L!Links
  <2>6. cache'[link'] # None => cache'[link'] >= floor'
    BY <2>5 DEF SubscriptionInv, CacheInv
  <2> QED BY <2>2, <2>4, <2>6 DEF CacheInv
<1>4. AnswerInv'
  BY DEF AnswerInv
<1> QED BY <1>2, <1>3, <1>4 DEF SubscriptionInv

LEMMA RequestKeeps ==
  ASSUME SubscriptionInv, NEW l \in L!Links, NEW c \in Clients, l <= link,
         L!Refuse(l, c) \/ L!Request(l, c)
  PROVE  SubscriptionInv'
<1>i. KeyInv /\ FlagInv /\ CacheInv /\ GuardInv
  BY DEF SubscriptionInv
<1>c. cache = [x \in L!Links |-> cache[x]]
  BY <1>i DEF CacheInv
\* A request that is answered with a body
<1>s. ASSUME GuardInv', FlagInv', KeyInv', CacheInv', UNCHANGED <<link, key, floor, active>>,
             L!Valid(l), NEW k \in 1..key, k >= floor, answered' = [link |-> l, key |-> k]
      PROVE  SubscriptionInv'
  <2>1. l = link /\ active
    BY <1>s DEF L!Valid
  <2>2. /\ answered' \in [link : L!Links, key : 1..key]
        /\ answered'.link = l /\ answered'.key = k
    BY <1>s
  <2>3. AnswerInv'
    BY <1>s, <2>1, <2>2 DEF AnswerInv
  <2> QED BY <1>s, <2>3 DEF SubscriptionInv
<1>1. CASE L!Refuse(l, c)
  <2>1. FlagInv' /\ GuardInv'
    BY <1>1, <1>i DEF L!Refuse, L!keyVars, FlagInv, L!KeysReachNodes, GuardInv
  <2> QED BY <1>1, <1>i, <1>c, <2>1, NoteKeeps, IdleKeeps DEF L!Refuse, L!keyVars
<1>2. CASE L!Block(l, c)
  <2>1. FlagInv'
    BY <1>2, <1>i DEF L!Block, L!keyVars, FlagInv, L!KeysReachNodes
  <2>2. GuardInv'
    BY <1>2, <1>i, GuardKeeps DEF L!Block
  <2> QED BY <1>2, <1>i, <1>c, <2>1, <2>2, NoteKeeps, IdleKeeps DEF L!Block, L!keyVars
<1>3. CASE L!Unknown(l, c)
  <2>1. FlagInv'
    BY <1>3, <1>i DEF L!Unknown, L!keyVars, FlagInv, L!KeysReachNodes
  <2>2. GuardInv'
    BY <1>3, <1>i, GuardKeeps DEF L!Unknown
  <2>3. /\ cache' = [x \in L!Links |-> cache'[x]]
        /\ \A x \in L!Links : cache'[x] = cache[x] \/ cache'[x] = None
    BY <1>3, <1>c DEF L!Unknown
  <2>4. events' \subseteq Clients /\ asked' \subseteq Clients
    BY <1>3, <1>i DEF L!Unknown, KeyInv
  <2> QED BY <1>3, <2>1, <2>2, <2>3, <2>4, IdleKeeps DEF L!Unknown, L!keyVars
<1>4. CASE L!FromCache(l, c)
  <2>1. FlagInv'
    BY <1>4, <1>i DEF L!FromCache, L!keyVars, FlagInv, L!KeysReachNodes
  <2>2. GuardInv'
    BY <1>4, <1>i, GuardKeeps DEF L!FromCache
  <2>3. KeyInv'
    BY <1>4, <1>i, NoteKeeps DEF L!FromCache, L!keyVars, KeyInv
  <2>4. CacheInv'
    BY <1>4, <1>i DEF L!FromCache, L!keyVars, CacheInv
  <2>5. cache[l] \in 1..key /\ cache[l] >= floor
    BY <1>4, <1>i DEF L!FromCache, L!Valid, CacheInv
  <2> QED BY <1>4, <1>s, <2>1, <2>2, <2>3, <2>4, <2>5 DEF L!FromCache, L!keyVars
<1>5. CASE L!Build(l, c)
  <2>1. FlagInv'
    BY <1>5, <1>i DEF L!Build, L!keyVars, FlagInv, L!KeysReachNodes
  <2>2. GuardInv'
    BY <1>5, <1>i, GuardKeeps DEF L!Build
  <2>3. KeyInv'
    BY <1>5, <1>i, NoteKeeps DEF L!Build, L!keyVars, KeyInv
  <2>4. key \in 1..key /\ key >= floor /\ l = link
    BY <1>5, <1>i, SubscriptionBounds DEF KeyInv, L!Build, L!Valid
  <2>5. CacheInv'
    <3>1. cache' = [cache EXCEPT ![l] = key] /\ UNCHANGED <<link, key, floor>>
      BY <1>5 DEF L!Build, L!keyVars
    <3> QED BY <1>i, <2>4, <3>1 DEF CacheInv, KeyInv, L!Links
  <2> QED BY <1>5, <1>s, <2>1, <2>2, <2>3, <2>4, <2>5 DEF L!Build, L!keyVars
<1>6. CASE L!AutoReset(l, c)
  <2>1. FlagInv'
    BY <1>6, <1>i DEF L!AutoReset, FlagInv, L!KeysReachNodes
  <2>2. GuardInv'
    BY <1>6, NewGuard DEF L!AutoReset, L!NewLink
  <2>3. events' \subseteq Clients /\ asked' \subseteq Clients
    BY <1>6 DEF L!AutoReset
  <2>4. /\ link' = link + 1 /\ key' = key + 1 /\ floor' = key + 1
        /\ link < MaxLinks /\ key < MaxKeys
    BY <1>6 DEF L!AutoReset, L!NewLink, L!NewKey
  <2>5. link' \in L!Links /\ key' \in 1..MaxKeys
    BY <1>i, <2>4, SubscriptionBounds DEF KeyInv, L!Links
  <2> QED BY <1>6, <2>1, <2>2, <2>3, <2>4, <2>5, ResetKeeps DEF L!AutoReset
<1> QED BY <1>1, <1>2, <1>3, <1>4, <1>5, <1>6 DEF L!Request

\* The steps of the clock, the guard and the panel
LEMMA OtherKeeps ==
  ASSUME SubscriptionInv,
         \/ \E l \in L!Links : L!CacheExpires(l)
         \/ L!WindowEnds \/ L!SeenExpires \/ L!BanEnds \/ L!Push \/ L!Change
         \/ L!EventAges \/ L!ReloadGuard \/ L!Restart
  PROVE  SubscriptionInv'
<1>i. KeyInv /\ FlagInv /\ CacheInv /\ GuardInv
  BY DEF SubscriptionInv
<1>c. cache = [x \in L!Links |-> cache[x]]
  BY <1>i DEF CacheInv
<1>1. FlagInv'
  <2>1. CASE L!Push
    BY <2>1, <1>i DEF L!Push, FlagInv, L!KeysReachNodes
  <2>2. CASE L!Restart
    BY <2>2, <1>i DEF L!Restart, FlagInv, L!KeysReachNodes
  <2>3. CASE L!Change
    <3>1. active' \in BOOLEAN
      BY <2>3 DEF L!Change
    <3> QED BY <2>3, <3>1, <1>i DEF L!Change, L!keyVars, FlagInv, L!KeysReachNodes
  <2>4. CASE L!EventAges
    <3>1. resetBy' \in BOOLEAN
      BY <2>4, <1>i DEF L!EventAges, FlagInv
    <3> QED BY <2>4, <3>1, <1>i DEF L!EventAges, L!keyVars, FlagInv, L!KeysReachNodes
  <2>5. CASE \/ \E l \in L!Links : L!CacheExpires(l)
             \/ L!WindowEnds \/ L!SeenExpires \/ L!BanEnds
    <3>1. UNCHANGED <<lasting, active, resetBy, pushDue, pushLost, nodeKey, key>>
      BY <2>5 DEF L!CacheExpires, L!WindowEnds, L!SeenExpires, L!BanEnds, L!keyVars
    <3> QED BY <3>1, <1>i DEF FlagInv, L!KeysReachNodes
  <2>6. CASE L!ReloadGuard
    <3>1. lasting' \in BOOLEAN /\ UNCHANGED <<active, resetBy, pushDue, pushLost, nodeKey, key>>
      BY <2>6 DEF L!ReloadGuard, L!keyVars
    <3> QED BY <3>1, <1>i DEF FlagInv, L!KeysReachNodes
  <2> QED BY <2>1, <2>2, <2>3, <2>4, <2>5, <2>6
<1>2. GuardInv'
  <2>1. CASE L!WindowEnds
    BY <2>1, <1>i, SubscriptionBounds DEF L!WindowEnds, GuardInv
  <2>2. CASE L!SeenExpires
    <3>1. PICK c \in guard.seen : guard' = [guard EXCEPT !.seen = @ \ {c}]
      BY <2>2 DEF L!SeenExpires
    <3>2. /\ IsFiniteSet(guard.seen \ {c})
          /\ Cardinality(guard.seen \ {c}) = Cardinality(guard.seen) - 1
          /\ Cardinality(guard.seen) \in Nat
      BY <1>i, <3>1, FS_RemoveElement, FS_CardinalityType DEF GuardInv
    <3> QED BY <1>i, <3>1, <3>2, SubscriptionBounds DEF GuardInv
  <2>3. CASE L!ReloadGuard \/ L!Restart
    BY <2>3, NewGuard DEF L!ReloadGuard, L!Restart
  <2>5. CASE L!BanEnds
    <3>1. /\ guard' \in [count : 0..MaxReq, seen : SUBSET Clients, banned : {FALSE}]
          /\ L!Cardinality(guard'.seen) <= MaxSeen
      BY <2>5 DEF L!BanEnds
    <3> QED BY <3>1, SeenFinite, SameCardinality DEF GuardInv
  <2>4. CASE (\E l \in L!Links : L!CacheExpires(l)) \/ L!Push \/ L!Change \/ L!EventAges
    <3>1. guard' = guard
      BY <2>4 DEF L!CacheExpires, L!Push, L!Change, L!EventAges
    <3> QED BY <3>1, <1>i DEF GuardInv
  <2> QED BY <2>1, <2>2, <2>3, <2>4, <2>5
<1>3. /\ UNCHANGED <<link, key, floor>>
      /\ events' \subseteq Clients /\ asked' \subseteq Clients
      /\ answered' = None
  BY <1>i DEF KeyInv, L!CacheExpires, L!WindowEnds, L!SeenExpires, L!BanEnds, L!Push, L!Change,
     L!EventAges, L!ReloadGuard, L!Restart, L!keyVars
<1>4. CASE L!Push
  <2>1. key \in 1..key
    BY <1>i, SubscriptionBounds DEF KeyInv
  <2>2. KeyInv'
    BY <1>4, <1>i, <2>1 DEF L!Push, KeyInv
  <2>3. CacheInv'
    BY <1>4, <1>i DEF L!Push, CacheInv
  <2> QED BY <1>1, <1>2, <1>3, <2>2, <2>3 DEF SubscriptionInv, AnswerInv
<1>5. CASE ~L!Push
  <2>1. nodeKey' = nodeKey
    BY <1>5 DEF L!CacheExpires, L!WindowEnds, L!SeenExpires, L!BanEnds, L!Change,
       L!EventAges, L!ReloadGuard, L!Restart, L!keyVars
  <2>2. /\ cache' = [x \in L!Links |-> cache'[x]]
        /\ \A x \in L!Links : cache'[x] = cache[x] \/ cache'[x] = None
    BY <1>5, <1>c DEF L!CacheExpires, L!WindowEnds, L!SeenExpires, L!BanEnds, L!Change,
       L!EventAges, L!ReloadGuard, L!Restart
  <2> QED BY <1>1, <1>2, <1>3, <2>1, <2>2, IdleKeeps
<1> QED BY <1>4, <1>5

LEMMA OwnerResetKeeps ==
  ASSUME SubscriptionInv, L!SelfReset \/ L!ResetLink \/ L!Rotate PROVE SubscriptionInv'
<1>i. KeyInv /\ FlagInv /\ CacheInv /\ GuardInv
  BY DEF SubscriptionInv
<1>0. link \in 1..MaxLinks /\ key \in 1..MaxKeys
  BY <1>i DEF KeyInv, L!Links
<1>1. CASE L!SelfReset
  <2>1. FlagInv'
    BY <1>1, <1>i DEF L!SelfReset, FlagInv, L!KeysReachNodes
  <2>2. GuardInv'
    BY <1>1, NewGuard DEF L!SelfReset, L!NewLink
  <2>3. /\ link' = link + 1 /\ key' = key + 1 /\ floor' = key + 1
        /\ link' \in L!Links /\ key' \in 1..MaxKeys
    BY <1>1, <1>0, SubscriptionBounds DEF L!SelfReset, L!NewLink, L!NewKey, L!Links
  <2> QED BY <1>1, <2>1, <2>2, <2>3, ResetKeeps DEF L!SelfReset
<1>2. CASE L!ResetLink
  <2>1. FlagInv'
    BY <1>2, <1>i DEF L!ResetLink, L!keyVars, FlagInv, L!KeysReachNodes
  <2>2. GuardInv'
    BY <1>2, NewGuard DEF L!ResetLink, L!NewLink
  <2>3. link' = link + 1 /\ key' = key /\ floor' = floor /\ link' \in L!Links /\ key' \in 1..MaxKeys
    BY <1>2, <1>0, SubscriptionBounds DEF L!ResetLink, L!NewLink, L!keyVars, L!Links
  <2>4. events' \subseteq Clients /\ asked' \subseteq Clients
    BY <1>2, <1>i DEF L!ResetLink, KeyInv
  <2> QED BY <1>2, <2>1, <2>2, <2>3, <2>4, ResetKeeps DEF L!ResetLink, L!keyVars
<1>3. CASE L!Rotate
  <2>1. FlagInv'
    BY <1>3, <1>i DEF L!Rotate, FlagInv, L!KeysReachNodes
  <2>2. GuardInv'
    BY <1>3, <1>i DEF L!Rotate, GuardInv
  <2>3. link' = link /\ key' = key + 1 /\ floor' = floor /\ link' \in L!Links /\ key' \in 1..MaxKeys
    BY <1>3, <1>0, SubscriptionBounds DEF L!Rotate, L!Links
  <2>4. events' \subseteq Clients /\ asked' \subseteq Clients
    BY <1>3, <1>i DEF L!Rotate, KeyInv
  <2> QED BY <1>3, <2>1, <2>2, <2>3, <2>4, ResetKeeps DEF L!Rotate
<1> QED BY <1>1, <1>2, <1>3

LEMMA SubscriptionSound == SubscriptionInv => LinksAreSound
<1> SUFFICES ASSUME SubscriptionInv PROVE LinksAreSound
  OBVIOUS
<1>1. L!TypeOK
  <2>1. L!Cardinality(guard.seen) <= MaxSeen
    BY SameCardinality DEF SubscriptionInv, GuardInv
  <2>2. \A l \in L!Links : cache[l] # None => cache[l] \in 1..key
    BY DEF SubscriptionInv, CacheInv
  <2> QED BY <2>1, <2>2 DEF SubscriptionInv, KeyInv, FlagInv, AnswerInv, GuardInv, L!TypeOK
<1>2. L!ServedToTheUser
  BY DEF SubscriptionInv, AnswerInv, L!ServedToTheUser, L!Valid
<1>3. L!NewLinkNewKeys
  BY DEF SubscriptionInv, AnswerInv, L!NewLinkNewKeys
<1> QED BY <1>1, <1>2, <1>3 DEF SubscriptionInv, FlagInv, LinksAreSound, L!LinksAreSound

\* A subscription goes to the present link of a user in good standing, with keys
\* no older than the last reset, whatever was cached; the guard counts within its
\* limits, and the nodes learn of every change of the keys.
THEOREM LinksCorrect == AllSpec => []LinksAreSound
<1>1. AllInit => SubscriptionInv
  <2> SUFFICES ASSUME AllInit PROVE SubscriptionInv
    OBVIOUS
  <2>1. L!Init
    BY DEF AllInit
  <2>2. KeyInv
    BY <2>1, SubscriptionBounds DEF L!Init, KeyInv, L!Links
  <2>3. FlagInv
    BY <2>1 DEF L!Init, FlagInv, L!KeysReachNodes
  <2>4. CacheInv
    BY <2>1, SubscriptionBounds DEF L!Init, CacheInv, L!Links
  <2>5. GuardInv
    BY <2>1, SubscriptionBounds, FS_EmptySet DEF L!Init, GuardInv, L!Quiet
  <2> QED BY <2>1, <2>2, <2>3, <2>4, <2>5 DEF L!Init, AnswerInv, SubscriptionInv
<1>2. SubscriptionInv /\ [AllNext]_allVars => SubscriptionInv'
  <2> SUFFICES ASSUME SubscriptionInv, [AllNext]_allVars PROVE SubscriptionInv'
    OBVIOUS
  <2>1. CASE L!Next
    BY <2>1, RequestKeeps, OtherKeeps, OwnerResetKeeps DEF L!Next
  <2>2. CASE UNCHANGED subVars
    BY <2>2 DEF subVars, SubscriptionInv, KeyInv, FlagInv, L!KeysReachNodes, CacheInv, AnswerInv,
       GuardInv
  <2> QED BY <2>1, <2>2 DEF AllNext, allVars
<1> QED BY <1>1, <1>2, SubscriptionSound, PTL DEF AllSpec
=============================================================================
