------------------------------- MODULE MCRecords -------------------------------
(* Instances for TLC of what the database goes through and what it keeps for   *)
(* users: PaymentOrders; the restoring of a backup and the migrations of a     *)
(* start; what users gain (Rewards: one farmer who also plays, three           *)
(* neighbours; groups of one and two plots, reached by check-ins); the         *)
(* registration (an e-mail and a NodeLoc account of one address, another       *)
(* e-mail account) and the mailed codes.  One of the six takes its course, the *)
(* others stand still.                                                         *)
EXTENDS PaymentOrders, TLC

CONSTANTS
  None,
  Restores, MaxWrites, MaxCrashes,
  Owners, Nodes, Names, OldNames, MaxDeaths, MaxStarts,
  ann, bob, cyn, dan, Users, Farmers, Players, PlotsByLevel, UpgradeAt, Mature, Day, Yield, StealMax,
  StealDaily, RpsDaily, FlipDaily, Cards, Runners, MaxClock, MaxRestarts,
  e1, e2, o1, x1, x2, Accounts, Kind, Address, Invites, SignupCodes, Tries,
  Boxes, CodeTtl, Hour, GlobalLimit, RecipientLimit, Entries, TokenTtl, TokenUntil, MaxTime, MaxCodes

VARIABLES
  part,
  path, open, inFile, inLog, log, sound, rs, kept, acked, before, window, crashes,
  stmt, tab, new, idx, token, totals, name, seen, used, deaths, starts,
  clock, level, checkins, checked, seeds, planted, marked, steals, harvests, spun, plays, cards,
  job, told, repeated, restarts,
  users, admin, invites, inviteOnly, codes, mails, joined, stops,
  now, registered, sent, sending, known, budget, times, spent, mailed, entered, logins, ends

restoreVars == <<path, open, inFile, inLog, log, sound, rs, kept, acked, before, window, crashes>>
schemaVars  == <<stmt, tab, new, idx, token, totals, name, seen, used, deaths, starts>>
rewardVars  == <<clock, level, checkins, checked, seeds, planted, marked, steals, harvests, spun,
                 plays, cards, job, told, repeated, restarts>>
signupVars  == <<users, admin, invites, inviteOnly, codes, mails, joined, stops>>
signInVars  == <<now, registered, sent, sending, known, budget, times, spent, mailed, entered, logins, ends>>
allVars     == <<part, vars, restoreVars, schemaVars, rewardVars, signupVars, signInVars>>

R == INSTANCE Restore
S == INSTANCE Schema WITH Users <- Owners, crashes <- deaths, MaxCrashes <- MaxDeaths
W == INSTANCE Rewards
U == INSTANCE Signup WITH restarts <- stops, MaxCodes <- SignupCodes, MaxTries <- Tries
I == INSTANCE SignIn WITH Addresses <- Boxes, codes <- sent, mails <- sending, window <- budget,
       log <- mailed, restarts <- ends, MaxTries <- Entries

ASSUME RestoreAssumption == R!RestoreAssumption
ASSUME SchemaAssumption  == S!SchemaAssumption
ASSUME RewardsAssumption == W!PlayersAssumption /\ W!GroupsAssumption /\ W!FarmAssumption
ASSUME SignupAssumption  == U!SignupAssumption /\ I!SignInAssumption

RestoreStill ==
  /\ path = None /\ open = None /\ inFile = None /\ inLog = None
  /\ log = None /\ sound = None /\ rs = None /\ kept = None /\ acked = None
  /\ before = None /\ window = None /\ crashes = None
SchemaStill ==
  /\ stmt = None /\ tab = None /\ new = None /\ idx = None /\ token = None
  /\ totals = None /\ name = None /\ seen = None /\ used = None
  /\ deaths = None /\ starts = None
RewardsStill ==
  /\ clock = None /\ level = None /\ checkins = None /\ checked = None /\ seeds = None
  /\ planted = None /\ marked = None /\ steals = None /\ harvests = None
  /\ spun = None /\ plays = None /\ cards = None
  /\ job = None /\ told = None /\ repeated = None /\ restarts = None
SignupStill ==
  /\ users = None /\ admin = None /\ invites = None /\ inviteOnly = None
  /\ codes = None /\ mails = None /\ joined = None /\ stops = None
SignInStill ==
  /\ now = None /\ registered = None /\ sent = None /\ sending = None /\ known = None
  /\ budget = None /\ times = None /\ spent = None /\ mailed = None /\ entered = None
  /\ logins = None /\ ends = None

Village    == {ann, bob, cyn, dan}
TwoGroups  == [l \in 0..1 |-> l + 1]
SecondDay  == [l \in 0..1 |-> 2 * l]
Kinds      == [x \in {e1, e2, o1} |-> IF x = o1 THEN "nodeloc" ELSE "email"]
Addrs      == [x \in {e1, e2, o1} |-> IF x = e2 THEN x2 ELSE x1]

\* The neighbours, the nodes and the orders are interchangeable, and so are the
\* two boxes.  As only one of them matters at a time, one permutation serves all.
Along(p, T) ==
  LET seat == CHOOSE f \in [DOMAIN p -> T] : \A x, y \in DOMAIN p : f[x] = f[y] => x = y
  IN  [s \in T |-> seat[p[CHOOSE x \in DOMAIN p : seat[x] = s]]]
OddSwaps(p, T) ==
  [s \in T |-> IF \E x \in DOMAIN p : \A y \in DOMAIN p : p[y] = y <=> y = x
                 THEN CHOOSE r \in T : r # s ELSE s]
Exchangeable ==
  {p @@ Along(p, Nodes) @@ Along(p, Orders) @@ OddSwaps(p, Boxes) : p \in Permutations({bob, cyn, dan})}

AllInit ==
  /\ Init
  /\ part \in {"orders", "restore", "schema", "rewards", "signup", "signin"}
  /\ IF part = "restore" THEN R!Init ELSE RestoreStill
  /\ IF part = "schema" THEN S!Init ELSE SchemaStill
  /\ IF part = "rewards" THEN W!Init ELSE RewardsStill
  /\ IF part = "signup" THEN U!Init ELSE SignupStill
  /\ IF part = "signin" THEN I!Init ELSE SignInStill

AllNext ==
  \/ part = "orders"  /\ Next /\ UNCHANGED <<part, restoreVars, schemaVars, rewardVars, signupVars, signInVars>>
  \/ part = "restore" /\ R!Next /\ UNCHANGED <<part, vars, schemaVars, rewardVars, signupVars, signInVars>>
  \/ part = "schema"  /\ S!Next /\ UNCHANGED <<part, vars, restoreVars, rewardVars, signupVars, signInVars>>
  \/ part = "rewards" /\ W!Next /\ UNCHANGED <<part, vars, restoreVars, schemaVars, signupVars, signInVars>>
  \/ part = "signup"  /\ U!Next /\ UNCHANGED <<part, vars, restoreVars, schemaVars, rewardVars, signInVars>>
  \/ part = "signin"  /\ I!Next /\ UNCHANGED <<part, vars, restoreVars, schemaVars, rewardVars, signupVars>>

AllSpec == AllInit /\ [][AllNext]_allVars
----------------------------------------------------------------------------
\* While a backup replaces the database, file, log and connection belong together
DatabaseIsWhole == part = "restore" => R!DatabaseIsWhole
\* What was answered before a restoration is in the database or in a backup
NothingLostBehindTheBackup == part = "restore" => R!NothingLostBehindTheBackup
\* No row is lost by migrations that are cut off, and their outcome is one schema
SchemaIsSound == part = "schema" => S!SchemaIsSound
\* Every crop is given away once and announced by one execution of the job
CropsAreSharedOut == part = "rewards" => W!CropsAreSharedOut
\* Registrations that overlap do not win the same thing twice
RegistrationIsSound == part = "signup" => U!RegistrationIsSound
\* Codes and tokens are used once, mails stay within their budgets
CodesAreBounded == part = "signin" => I!CodesAreBounded
=============================================================================
