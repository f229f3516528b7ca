------------------------------- MODULE Accounts -------------------------------
(***************************************************************************)
(* Who may use the nodes.  Six independent parts of the panel freeze and   *)
(* release an account: the traffic limit and the daily threshold           *)
(* (services/health.js), the job of four o'clock (app.js, userRepo.js),    *)
(* the logins (routes/auth.js), the games, the farm and the check-in       *)
(* (utils/tgGame.js, services/farm.js, services/tgbot.js) and the operator *)
(* (routes/opsApi.js, routes/admin/adminUsers.js).  Some of them ask for a *)
(* synchronisation of the nodes, some do not.                              *)
(*                                                                         *)
(* A push is one step here: it gives a node the users admitted at that     *)
(* moment (getNodeAllUserUuids).  How pushes interleave, fail and repeat   *)
(* is ConfigSync.  Traffic is counted in a unit no larger than a grant.    *)
(***************************************************************************)
EXTENDS Integers, FiniteSets

CONSTANTS
  Users,       \* accounts other than administrators
  Nodes,       \* the active nodes; what happens while one is not is in ConfigSync
  Manual,      \* those with is_manual
  MinLevel,    \* nodes.min_level
  OAuthUsers,  \* accounts that log in through NodeLoc
  MaxLevel,    \* the highest trust_level
  MaxLimit,    \* bound: the largest limit
  MaxUse,      \* bound: the largest use counted
  MaxRestarts  \* bound: restarts of the panel

ASSUME UsersAssumption == OAuthUsers \subseteq Users
ASSUME ManualAssumption == Manual \subseteq Nodes
ASSUME LevelsAssumption == MaxLevel \in Nat /\ MinLevel \in [Nodes -> 0..MaxLevel]
ASSUME AccountBoundsAssumption == MaxLimit \in Nat /\ MaxUse \in Nat /\ MaxRestarts \in Nat

VARIABLES
  limit,    \* users.traffic_limit, -1: none
  used,     \* traffic_user_total
  heavy,    \* today's traffic is above the threshold that freezes
  frozenToday, \* the key traffic_frozen_<user>_<today> is in _trafficNotifiedCache
  freeze,   \* "no" or users.freeze_reason
  blocked,  \* users.is_blocked
  level,    \* users.trust_level
  expired,  \* users.expires_at is in the past
  slack,    \* the last check-in is more than 30 days old
  uuids,    \* rows of user_node_uuid
  served,   \* <<user, node>>: the node lets the user in
  due,      \* nodes a synchronisation was asked for
  unsent,   \* history: pairs changed without asking for one, or whose
            \* synchronisation a restart forgot
  grounds,  \* history: the reasons for which the account was frozen since it
            \* was last released
  restarts

vars == <<limit, used, heavy, frozenToday, freeze, blocked, level, expired, slack,
          uuids, served, due, unsent, grounds, restarts>>

Reasons == {"manual", "expired", "tg_inactive", "traffic", "traffic_limit"}

Frozen(u) == freeze[u] # "no"

\* isTrafficExceeded: a limit of 0 is never exceeded
Exceeded(l, used_) == l > 0 /\ used_ >= l

Raise(l, gain) == IF l + gain > MaxLimit THEN MaxLimit ELSE l + gain

\* The account may use the node, and has the UUID for it
Active(u, n)   == ~Frozen(u) /\ ~blocked[u] /\ level[u] >= MinLevel[n]
Admitted(u, n) == Active(u, n) /\ <<u, n>> \in uuids

\* freezeUser; a frozen account is frozen again with the new reason
Freeze(U, reason) ==
  /\ freeze' = [u \in Users |-> IF u \in U THEN reason ELSE freeze[u]]
  /\ uuids' = uuids \ (U \X Nodes)
  /\ grounds' = [u \in Users |-> grounds[u] \cup (IF u \in U THEN {reason} ELSE {})]

\* unfreezeUser; ensureUserHasAllNodeUuids skips a blocked account
Release(u) ==
  /\ freeze' = [freeze EXCEPT ![u] = "no"]
  /\ uuids' = IF blocked[u] THEN uuids ELSE uuids \cup ({u} \X Nodes)
  /\ grounds' = [grounds EXCEPT ![u] = {}]

Unfrozen == UNCHANGED <<freeze, uuids, grounds>>

\* emitSyncAll, or none of it
Sync      == due' = Nodes /\ UNCHANGED unsent
NoSync    == UNCHANGED <<due, unsent>>
Silent(U) == unsent' = unsent \cup (U \X Nodes) /\ UNCHANGED due

clock == <<expired, slack, restarts>>
----------------------------------------------------------------------------
Init ==
  /\ limit \in [Users -> {-1, 0, MaxLimit}]
  /\ used = [u \in Users |-> 0]
  /\ heavy = [u \in Users |-> FALSE]
  /\ frozenToday = [u \in Users |-> FALSE]
  /\ freeze = [u \in Users |-> "no"]
  /\ blocked = [u \in Users |-> FALSE]
  /\ level = [u \in Users |-> 0]
  /\ expired = [u \in Users |-> FALSE]
  /\ slack = [u \in Users |-> FALSE]
  /\ uuids = Users \X Nodes
  /\ served = {p \in Users \X Nodes : MinLevel[p[2]] = 0}
  /\ due = {}
  /\ unsent = {}
  /\ grounds = [u \in Users |-> {}]
  /\ restarts = 0

\* Variant: the freeze asks for no synchronisation
LimitCheckQuiet(u) ==
  IF limit[u] >= 0 /\ Exceeded(limit[u], used'[u]) /\ ~Frozen(u)
    THEN Freeze({u}, "traffic_limit") /\ NoSync
    ELSE IF limit[u] >= 0 /\ ~Exceeded(limit[u], used'[u]) /\ freeze[u] = "traffic_limit"
    THEN Release(u) /\ Sync ELSE Unfrozen /\ NoSync

\* checkUserTrafficLimit, after the use was recorded
LimitCheck(u) ==
  \/ /\ limit[u] >= 0
     /\ ~Exceeded(limit[u], used'[u])
     /\ freeze[u] = "traffic_limit"
     /\ Release(u)
     /\ Sync
  \/ /\ limit[u] >= 0
     /\ Exceeded(limit[u], used'[u])
     /\ ~Frozen(u)
     /\ Freeze({u}, "traffic_limit")
     /\ Sync
  \/ /\ \/ limit[u] < 0
        \/ ~Exceeded(limit[u], used'[u]) /\ freeze[u] # "traffic_limit"
        \/ Exceeded(limit[u], used'[u]) /\ Frozen(u)
     /\ Unfrozen
     /\ NoSync

\* saveTrafficRecords for one user.  A report may arrive at any time, also for
\* a user who has been removed from the node meanwhile.
SaveTraffic(u) ==
  /\ used' = [used EXCEPT ![u] = IF @ < MaxUse THEN @ + 1 ELSE @]
  /\ heavy' \in {heavy, [heavy EXCEPT ![u] = TRUE]}
  /\ LimitCheck(u)
  /\ UNCHANGED <<limit, frozenToday, blocked, level, served, clock>>

\* checkTrafficExceed, at most once a minute: every account above the threshold
\* is frozen once a day, frozen or not
CheckTrafficExceed ==
  LET over == {u \in Users : heavy[u] /\ ~frozenToday[u]} IN
  /\ over # {}
  /\ Freeze(over, "traffic")
  /\ frozenToday' = [u \in Users |-> frozenToday[u] \/ u \in over]
  /\ Sync
  /\ UNCHANGED <<limit, used, heavy, blocked, level, served, clock>>

\* Variant: accounts that expired are not looked at
FourOClockNoExpiry ==
  LET idle == {u \in Users : ~Frozen(u) /\ ~blocked[u] /\ slack[u]} IN
  /\ idle # {}
  /\ Freeze(idle, "tg_inactive")
  /\ Sync
  /\ UNCHANGED <<limit, used, heavy, frozenToday, blocked, level, served, clock>>

\* Cron at four: autoFreezeNoCheckinUsers, then autoFreezeExpiredUsers, then one
\* synchronisation.  Both select accounts that are neither frozen nor blocked.
FourOClock ==
  LET free == {u \in Users : ~Frozen(u) /\ ~blocked[u]}
      idle == {u \in free : slack[u]}
      over == {u \in free : expired[u] /\ ~slack[u]} IN
  /\ idle \cup over # {}
  /\ freeze' = [u \in Users |-> IF u \in idle THEN "tg_inactive"
                                ELSE IF u \in over THEN "expired" ELSE freeze[u]]
  /\ grounds' = [u \in Users |-> grounds[u] \cup (IF u \in idle THEN {"tg_inactive"} ELSE {})
                                            \cup (IF u \in over THEN {"expired"} ELSE {})]
  /\ uuids' = uuids \ ((idle \cup over) \X Nodes)
  /\ Sync
  /\ UNCHANGED <<limit, used, heavy, frozenToday, blocked, level, served, clock>>

\* Midnight: today's sum is another one
NewDay ==
  /\ heavy' = [u \in Users |-> FALSE]
  /\ frozenToday' = [u \in Users |-> FALSE]
  /\ Unfrozen /\ NoSync
  /\ UNCHANGED <<limit, used, blocked, level, served, clock>>

\* Thirty days without a check-in; the day of expires_at
Slacken(u) ==
  /\ slack' = [slack EXCEPT ![u] = TRUE]
  /\ Unfrozen /\ NoSync
  /\ UNCHANGED <<limit, used, heavy, frozenToday, blocked, level, served, expired, restarts>>
Expire(u) ==
  /\ expired' = [expired EXCEPT ![u] = TRUE]
  /\ Unfrozen /\ NoSync
  /\ UNCHANGED <<limit, used, heavy, frozenToday, blocked, level, served, slack, restarts>>

\* handleCheckin: the group may rise, without a synchronisation; the freeze for
\* missing check-ins is lifted, with one
CheckIn(u) ==
  /\ slack' = [slack EXCEPT ![u] = FALSE]
  /\ \E l \in level[u]..MaxLevel :
       /\ level' = [level EXCEPT ![u] = l]
       /\ IF freeze[u] = "tg_inactive"
            THEN Release(u) /\ Sync
            ELSE Unfrozen /\ (IF l = level[u] THEN NoSync ELSE Silent({u}))
  /\ UNCHANGED <<limit, used, heavy, frozenToday, blocked, served, expired, restarts>>

\* Variant: the login lifts any freeze but the operator's
EmailLoginAny(u) ==
  /\ ~blocked[u]
  /\ Frozen(u) /\ freeze[u] # "manual"
  /\ Release(u)
  /\ Sync
  /\ UNCHANGED <<limit, used, heavy, frozenToday, blocked, level, served, clock>>

\* POST /email-login with a password; a NodeLoc account has one once its owner
\* used the reset of a forgotten password
EmailLogin(u) ==
  /\ ~blocked[u]
  /\ freeze[u] = "traffic"
  /\ Release(u)
  /\ Sync
  /\ UNCHANGED <<limit, used, heavy, frozenToday, blocked, level, served, clock>>

\* The NodeLoc callback also lifts 'traffic_limit', exceeded or not
NodeLocLogin(u) ==
  /\ u \in OAuthUsers
  /\ ~blocked[u]
  /\ freeze[u] \in {"traffic", "traffic_limit"}
  /\ Release(u)
  /\ Sync
  /\ UNCHANGED <<limit, used, heavy, frozenToday, blocked, level, served, clock>>

\* tryUnfreezeAfterTraffic of the games, after a gain
ReleaseIfPaidUp(u, synced) ==
  IF freeze[u] = "traffic_limit" /\ ~Exceeded(limit'[u], used[u])
    THEN Release(u) /\ (IF synced THEN Sync ELSE Silent({u}))
    ELSE Unfrozen /\ NoSync

\* A game, the wheel or the cards: a gain, or a loss down to 0.  They do not ask
\* whether the account is blocked.
Game(u, gain) ==
  /\ limit' = [limit EXCEPT ![u] = IF @ < 0 THEN @ ELSE IF @ + gain < 0 THEN 0 ELSE Raise(@, gain)]
  /\ IF gain > 0 THEN ReleaseIfPaidUp(u, TRUE) ELSE Unfrozen /\ NoSync
  /\ UNCHANGED <<used, heavy, frozenToday, blocked, level, served, clock>>

\* A harvest or a theft: released without a synchronisation
Harvest(u, gain) ==
  /\ ~blocked[u]
  /\ limit' = [limit EXCEPT ![u] = IF @ < 0 THEN @ ELSE Raise(@, gain)]
  /\ ReleaseIfPaidUp(u, FALSE)
  /\ UNCHANGED <<used, heavy, frozenToday, blocked, level, served, clock>>

\* The limit alone changes: a paid exchange, the administrator for one account
\* or for all of them
SetLimit(u, l) ==
  /\ limit' = [limit EXCEPT ![u] = l]
  /\ Unfrozen /\ NoSync
  /\ UNCHANGED <<used, heavy, frozenToday, blocked, level, served, clock>>
ApplyDefault(l) ==
  /\ limit' = [u \in Users |-> l]
  /\ Unfrozen /\ NoSync
  /\ UNCHANGED <<used, heavy, frozenToday, blocked, level, served, clock>>
Pay(u, gain) ==
  /\ limit[u] >= 0
  /\ SetLimit(u, Raise(limit[u], gain))

\* Administrator: expiry date, group, block
SetExpiry(u) ==
  /\ expired' = [expired EXCEPT ![u] = FALSE]
  /\ Unfrozen /\ NoSync
  /\ UNCHANGED <<limit, used, heavy, frozenToday, blocked, level, served, slack, restarts>>
SetGroup(u, l) ==
  /\ level' = [level EXCEPT ![u] = l]
  /\ Unfrozen /\ Silent({u})
  /\ UNCHANGED <<limit, used, heavy, frozenToday, blocked, served, clock>>
ToggleBlock(u) ==
  /\ blocked' = [blocked EXCEPT ![u] = ~@]
  /\ Unfrozen /\ Sync
  /\ UNCHANGED <<limit, used, heavy, frozenToday, level, served, clock>>

\* The operations API: neither asks for a synchronisation
OpsFreeze(u) ==
  /\ Freeze({u}, "manual") /\ Silent({u})
  /\ UNCHANGED <<limit, used, heavy, frozenToday, blocked, level, served, clock>>
OpsUnfreeze(u) ==
  /\ Release(u) /\ Silent({u})
  /\ UNCHANGED <<limit, used, heavy, frozenToday, blocked, level, served, clock>>

\* getUserNodeUuidMap, for a subscription or the panel's page: UUIDs that are
\* missing are created; the nodes learn of them at the next synchronisation.  A
\* blocked account reaches neither, a frozen one the page.
Fetch(u) ==
  LET missing == {n \in Nodes : level[u] >= MinLevel[n] /\ <<u, n>> \notin uuids} IN
  /\ ~blocked[u]
  /\ missing # {}
  /\ uuids' = uuids \cup ({u} \X missing)
  /\ Silent({u})
  /\ UNCHANGED <<limit, used, heavy, frozenToday, freeze, blocked, level, served, grounds, clock>>

\* A deployment, or a core fetching its users: ensureAllUsersHaveUuid, then the
\* node gets the table
EnsureAndPush(n) ==
  LET whole == uuids \cup {<<u, n>> : u \in {v \in Users : ~Frozen(v) /\ ~blocked[v]}} IN
  /\ uuids' = whole
  /\ served' = {p \in served : p[2] # n} \cup {p \in whole : p[2] = n /\ Active(p[1], n)}
  /\ due' = due \ {n}
  /\ unsent' = {p \in unsent : p[2] # n}
  /\ UNCHANGED <<limit, used, heavy, frozenToday, freeze, blocked, level, grounds, clock>>

\* A push: getNodeAllUserUuids
Push(n) ==
  /\ n \in due
  /\ served' = {p \in served : p[2] # n} \cup {p \in uuids : p[2] = n /\ Active(p[1], n)}
  /\ due' = due \ {n}
  /\ unsent' = {p \in unsent : p[2] # n}
  /\ UNCHANGED <<limit, used, heavy, frozenToday, freeze, blocked, level, uuids, grounds, clock>>

\* The nightly rotation pushes to every node that is not manual
Rotate ==
  /\ due' = due \cup (Nodes \ Manual)
  /\ UNCHANGED <<unsent, freeze, uuids, grounds>>
  /\ UNCHANGED <<limit, used, heavy, frozenToday, blocked, level, served, clock>>

\* The debounce timer and the notification cache are in memory
Restart ==
  /\ restarts < MaxRestarts
  /\ restarts' = restarts + 1
  /\ due' = {}
  /\ unsent' = unsent \cup (Users \X due)
  /\ frozenToday' = [u \in Users |-> FALSE]
  /\ Unfrozen
  /\ UNCHANGED <<limit, used, heavy, blocked, level, served, expired, slack>>

UserStep(u) ==
  \/ SaveTraffic(u)
  \/ Slacken(u) \/ Expire(u)
  \/ CheckIn(u) \/ EmailLogin(u) \/ NodeLocLogin(u)
  \/ \E gain \in {-1, 1} : Game(u, gain)
  \/ Harvest(u, 1) \/ Pay(u, 1)
  \/ \E l \in -1..MaxLimit : SetLimit(u, l)
  \/ \E l \in 0..MaxLevel : SetGroup(u, l)
  \/ SetExpiry(u) \/ ToggleBlock(u) \/ OpsFreeze(u) \/ OpsUnfreeze(u)
  \/ Fetch(u)

PanelStep ==
  \/ CheckTrafficExceed \/ FourOClock \/ NewDay \/ Rotate \/ Restart
  \/ \E l \in -1..MaxLimit : ApplyDefault(l)
  \/ \E n \in Nodes : Push(n) \/ EnsureAndPush(n)

Next == PanelStep \/ \E u \in Users : UserStep(u)

\* A synchronisation asked for is made and the nightly jobs run; users whose
\* links stopped working open the panel or fetch their subscription.
Fairness ==
  /\ \A n \in Nodes : WF_vars(Push(n))
  /\ WF_vars(Rotate)
  /\ WF_vars(FourOClock)
  /\ \A u \in Users : WF_vars(Fetch(u))

Spec == Init /\ [][Next]_vars /\ Fairness

----------------------------------------------------------------------------
\* The variables have their types.
TypeOK ==
  /\ limit \in [Users -> -1..MaxLimit]
  /\ used \in [Users -> 0..MaxUse]
  /\ heavy \in [Users -> BOOLEAN]
  /\ frozenToday \in [Users -> BOOLEAN]
  /\ freeze \in [Users -> Reasons \cup {"no"}]
  /\ blocked \in [Users -> BOOLEAN]
  /\ level \in [Users -> 0..MaxLevel]
  /\ expired \in [Users -> BOOLEAN]
  /\ slack \in [Users -> BOOLEAN]
  /\ uuids \subseteq Users \X Nodes
  /\ served \subseteq Users \X Nodes
  /\ due \subseteq Nodes
  /\ unsent \subseteq Users \X Nodes
  /\ grounds \in [Users -> SUBSET Reasons]
  /\ restarts \in 0..MaxRestarts

\* A node lets in exactly the users the database admits to it, or a
\* synchronisation is under way, or the difference comes from one of the paths
\* that ask for none (the operations API, a change of the group, a harvest that
\* lifts a freeze, a UUID created by a fetch) or from a restart that forgot one.
NodesFollowAccounts ==
  \A u \in Users, n \in Nodes :
    (<<u, n>> \in served) = Admitted(u, n) \/ n \in due \/ <<u, n>> \in unsent

\* Until the daily threshold or the operator freezes it again, an account is
\* frozen for one reason, the one that is stored
GroundsMatch ==
  \A u \in Users :
    IF Frozen(u)
      THEN /\ freeze[u] \in grounds[u]
           /\ \/ freeze[u] = "manual"
              \/ "traffic" \in grounds[u]
              \/ grounds[u] = {freeze[u]}
      ELSE grounds[u] = {}

\* Unless the operator lifts it, a freeze ends for the reason it was made: one
\* for missing check-ins by a check-in, one for the limit when the limit is not
\* exceeded any more (or by a NodeLoc login), and one by the operator or for
\* the expiry not at all.  An account that was frozen for the daily threshold
\* meanwhile is the exception: that freeze replaces the reason.
ReleaseForCause ==
  [][\A u \in Users :
       freeze[u] # "no" /\ freeze'[u] = "no" /\ "traffic" \notin grounds[u] =>
         \/ OpsUnfreeze(u)
         \/ /\ grounds[u] \cap {"manual", "expired"} = {}
            /\ "tg_inactive" \in grounds[u] => ~slack'[u]
            /\ "traffic_limit" \in grounds[u] =>
                 u \in OAuthUsers \/ ~Exceeded(limit'[u], used'[u])]_vars

\* An account that stays active is let in by every node of its group in the
\* end, also when it lost its UUIDs (frozen, blocked, released while blocked,
\* unblocked) or a path changed it silently.  The rotation that repairs it passes
\* over manual nodes.
ActiveIsServed ==
  \A u \in Users, n \in Nodes \ Manual : <>[]Active(u, n) => []<>(<<u, n>> \in served)

\* An account that stays frozen, blocked or below the group is shut out by the
\* node in the end, also when the freeze was silent or the panel restarted
\* before the synchronisation.
InactiveIsShutOut ==
  \A u \in Users, n \in Nodes \ Manual : <>[]~Active(u, n) => <>[](<<u, n>> \notin served)

\* An account that has expired does not stay in use, however often logins,
\* games and check-ins lift other freezes.
ExpiredIsFrozen ==
  \A u \in Users : <>[](expired[u] /\ ~blocked[u]) => []<>Frozen(u)

\* What the nodes serve follows the accounts in the end: the active are let in,
\* the others shut out, the expired do not stay active (deploy.js:378,
\* rotate.js:12, app.js).
ServiceFollows == ActiveIsServed /\ InactiveIsShutOut /\ ExpiredIsFrozen
=============================================================================
