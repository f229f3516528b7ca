------------------------------- MODULE Binding -------------------------------
(***************************************************************************)
(* The Telegram account a user binds: the traffic given for it, the probe  *)
(* for users who blocked the bot (services/tgbot.js), the deletion of      *)
(* accounts that stay unbound (app.js, repos/userRepo.js) and the owner's  *)
(* own unbinding (routes/panel.js).  Registration itself is Signup, the    *)
(* limit's other changes are Accounts and Rewards.                         *)
(*                                                                         *)
(* Only the probe takes time: it reads the accounts once, asks Telegram    *)
(* user by user and unbinds those it found at the end.                     *)
(***************************************************************************)
EXTENDS Integers, FiniteSets

CONSTANTS
  Accounts,    \* accounts other than the administrator's
  Telegrams,   \* Telegram accounts
  MaxRestarts, \* bound: restarts of the panel
  None

BindingBoundsAssumption == MaxRestarts \in Nat /\ None \notin Telegrams

VARIABLES
  users,     \* rows of users
  limit,     \* users.traffic_limit: 0, or something
  telegram,  \* users.telegram_id
  token,     \* accounts with a tg_bind_token
  ripe,      \* accounts older than the grace period
  shut,      \* Telegram accounts that have blocked the bot
  probe,     \* accounts with the Telegram the probe read, not asked yet
  found,     \* accounts the probe will unbind
  gifts,     \* history: 0, 1 or more gifts for the account
  restarts

vars == <<users, limit, telegram, token, ripe, shut, probe, found, gifts, restarts>>

rowVars   == <<users, limit, telegram, token, ripe>>
probeVars == <<probe, found>>

Bound == {a \in users : telegram[a] # None}
----------------------------------------------------------------------------
Init ==
  /\ users = {} /\ token = {} /\ ripe = {}
  /\ limit = [a \in Accounts |-> 0]
  /\ telegram = [a \in Accounts |-> None]
  /\ shut = {} /\ probe = {} /\ found = {}
  /\ gifts = [a \in Accounts |-> 0]
  /\ restarts = 0

\* A registration: no traffic before a Telegram is bound
Register(a) ==
  /\ a \notin users
  /\ users' = users \cup {a}
  /\ gifts' = [gifts EXCEPT ![a] = 0]
  /\ UNCHANGED <<limit, telegram, token, ripe, shut, probeVars, restarts>>

\* POST /tg-bind-token, bound or not
GenerateBindToken(a) ==
  /\ a \in users
  /\ token' = token \cup {a}
  /\ UNCHANGED <<users, limit, telegram, ripe, shut, probeVars, gifts, restarts>>

\* grantTgBindGift
Gift(a) ==
  IF limit[a] = 0
    THEN /\ limit' = [limit EXCEPT ![a] = 1]
         /\ gifts' = [gifts EXCEPT ![a] = IF @ < 2 THEN @ + 1 ELSE @]
    ELSE UNCHANGED <<limit, gifts>>

\* Variant: the Telegram account is not looked up first
BindAgain(a, t) ==
  /\ a \in token /\ t \notin shut
  /\ telegram[a] = None
  /\ telegram' = [telegram EXCEPT ![a] = t]
  /\ token' = token \ {a}
  /\ Gift(a)
  /\ UNCHANGED <<users, ripe, shut, probeVars, restarts>>

\* /start and /bind with a token, then _afterTgBindGrant.  Who writes to the
\* bot has not blocked it.
Bind(a, t) ==
  /\ a \in token /\ t \notin shut
  /\ t \notin {telegram[b] : b \in users}
  /\ telegram[a] = None
  /\ telegram' = [telegram EXCEPT ![a] = t]
  /\ token' = token \ {a}
  /\ Gift(a)
  /\ UNCHANGED <<users, ripe, shut, probeVars, restarts>>

\* POST /tg-unbind
Unbind(a) ==
  /\ a \in Bound
  /\ telegram' = [telegram EXCEPT ![a] = None]
  /\ UNCHANGED <<users, limit, token, ripe, shut, probeVars, gifts, restarts>>

\* The rest of the limit is lost in a game
Lose(a) ==
  /\ a \in Bound /\ limit[a] = 1
  /\ limit' = [limit EXCEPT ![a] = 0]
  /\ UNCHANGED <<users, telegram, token, ripe, shut, probeVars, gifts, restarts>>

\* A user blocks the bot, or starts it again
BlockBot(t) ==
  /\ shut' = IF t \in shut THEN shut \ {t} ELSE shut \cup {t}
  /\ UNCHANGED <<rowVars, probeVars, gifts, restarts>>

\* probeAndUnbindBlockers, at six: the bound accounts are read
ProbeStart ==
  /\ probe = {} /\ found = {}
  /\ Bound # {}
  /\ probe' = {<<a, telegram[a]>> : a \in Bound}
  /\ UNCHANGED <<rowVars, shut, found, gifts, restarts>>

\* Variant: a refusal counts as a failure of the network
ProbeNextDeaf(p) ==
  /\ probe' = probe \ {p}
  /\ UNCHANGED found
  /\ UNCHANGED <<rowVars, shut, gifts, restarts>>

\* One account is asked, again if Telegram wants a pause
ProbeNext(p) ==
  /\ probe' = probe \ {p}
  /\ found' = IF p[2] \in shut THEN found \cup {p[1]} ELSE found
  /\ UNCHANGED <<rowVars, shut, gifts, restarts>>

\* The end of the probe: those found are unbound, whatever they are bound to by
\* now
ProbeEnd ==
  /\ probe = {} /\ found # {}
  /\ telegram' = [a \in Accounts |-> IF a \in found THEN None ELSE telegram[a]]
  /\ found' = {}
  /\ UNCHANGED <<users, limit, token, ripe, shut, probe, gifts, restarts>>

\* graceDays have passed since the registration, and since the policy began
Ripen(a) ==
  /\ a \in users \ ripe
  /\ ripe' = ripe \cup {a}
  /\ UNCHANGED <<users, limit, telegram, token, shut, probeVars, gifts, restarts>>

\* deleteUserCascade
DeleteUsers(D) ==
  /\ users' = users \ D
  /\ telegram' = [a \in Accounts |-> IF a \in D THEN None ELSE telegram[a]]
  /\ limit' = [a \in Accounts |-> IF a \in D THEN 0 ELSE limit[a]]
  /\ token' = token \ D
  /\ ripe' = ripe \ D
  /\ UNCHANGED <<shut, probeVars, gifts, restarts>>

\* getUnboundUsersForDeletion
Unbounds == {a \in ripe : telegram[a] = None}

\* The part of the cron that deletes; the victims are read and deleted in one go
FourOClock == Unbounds # {} /\ DeleteUsers(Unbounds)

\* POST /users/:id/delete
AdminDeletes(a) == a \in users /\ DeleteUsers({a})

\* The probe forgets what it found
Restart ==
  /\ restarts < MaxRestarts
  /\ restarts' = restarts + 1
  /\ probe' = {} /\ found' = {}
  /\ UNCHANGED <<rowVars, shut, gifts>>

OwnerStep(a) ==
  \/ Register(a) \/ GenerateBindToken(a) \/ Unbind(a) \/ Lose(a)
  \/ \E t \in Telegrams : Bind(a, t)

Next ==
  \/ \E a \in Accounts : OwnerStep(a) \/ Ripen(a) \/ AdminDeletes(a)
  \/ \E t \in Telegrams : BlockBot(t)
  \/ \E p \in probe : ProbeNext(p)
  \/ ProbeStart \/ ProbeEnd \/ FourOClock \/ Restart

\* The nightly jobs run, the probe goes on, and days pass
Fairness ==
  /\ WF_vars(FourOClock) /\ WF_vars(ProbeStart) /\ WF_vars(ProbeEnd)
  /\ WF_vars(\E p \in probe : ProbeNext(p))
  /\ \A a \in Accounts : WF_vars(Ripen(a))

Spec == Init /\ [][Next]_vars /\ Fairness

----------------------------------------------------------------------------
\* The variables have their types; whatever is kept for an account is kept for
\* a row of the table.
TypeOK ==
  /\ users \subseteq Accounts /\ token \subseteq users /\ ripe \subseteq users
  /\ limit \in [Accounts -> 0..1]
  /\ telegram \in [Accounts -> Telegrams \cup {None}]
  /\ \A a \in Accounts \ users : telegram[a] = None /\ limit[a] = 0
  /\ shut \subseteq Telegrams
  /\ probe \subseteq Accounts \X Telegrams /\ found \subseteq Accounts
  /\ gifts \in [Accounts -> 0..2]
  /\ restarts \in 0..MaxRestarts

\* Two accounts are never bound to one Telegram, whatever tokens are used.
TelegramBoundOnce ==
  \A a, b \in users : telegram[a] = telegram[b] /\ telegram[a] # None => a = b

\* Traffic comes with a Telegram: an account has a limit above 0 only after it
\* was bound, and a bound account is without only after it had it (limits the
\* administrator sets aside).
TrafficNeedsTelegram ==
  \A a \in users : (limit[a] > 0 \/ telegram[a] # None) => gifts[a] > 0

\* An account whose Telegram has blocked the bot for good does not stay bound,
\* whatever is bound, unbound or deleted while the probe is asking, and although
\* a restart makes the probe forget.
BlockersAreUnbound ==
  \A a \in Accounts : ~<>[](telegram[a] \in shut)

\* Who never binds a Telegram does not keep the account.
UnboundLeave ==
  \A a \in Accounts : ~<>[](a \in users /\ telegram[a] = None)

\* One account per Telegram, and no traffic without one (userRepo.js, tgbot.js).
BindingsAreSound == TypeOK /\ TelegramBoundOnce /\ TrafficNeedsTelegram

\* Accounts without a Telegram that talks to the bot go: those who block the bot
\* are unbound (tgbot.js:778), and those who stay unbound are deleted.
UnboundAreCleared == BlockersAreUnbound /\ UnboundLeave
=============================================================================
