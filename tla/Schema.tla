-------------------------------- MODULE Schema --------------------------------
(***************************************************************************)
(* Opening the database: initTables of services/database.js and            *)
(* runMigrations of services/migrations.js.                                *)
(*                                                                         *)
(* Every start runs the same statements, each of which commits by itself.  *)
(* What a statement does depends on a look taken earlier at the columns;   *)
(* a panel that dies between two statements starts again from the first.   *)
(*                                                                         *)
(* Of the columns those are kept that stand for a way of being added:      *)
(* alone (min_level, telegram_id), in a group guarded by its first column  *)
(* (socks5_host, socks5_port), with data to be filled in (agent_token).    *)
(* users is rebuilt without nodeloc_id, traffic_daily without its cascade; *)
(* traffic_user_total is a summary of traffic_daily, filled while empty.   *)
(***************************************************************************)
EXTENDS Integers, Sequences, FiniteSets, Functions

CONSTANTS
  Users,      \* rows of users in the database that is opened
  Nodes,      \* rows of nodes
  Names,      \* names of nodes: numbers, name n with a suffix is greater than n
  OldNames,   \* names in use before
  MaxCrashes, \* bound: deaths of the panel during a start
  MaxStarts,  \* bound: starts that are completed
  None

Tables  == {"users", "nodes", "traffic"}
Columns == {"socks5_host", "socks5_port", "min_level", "agent_token",
            "nodeloc_id", "telegram_id", "oauth", "cascade"}
Indices == {"nodes_name", "users_telegram", "users_oauth"}

SchemaAssumption ==
  /\ Names \subseteq Nat /\ OldNames \subseteq Names /\ MaxCrashes \in Nat /\ MaxStarts \in Nat
  /\ None \notin [cols : SUBSET Columns, rows : SUBSET (Users \cup Nodes)]

VARIABLES
  stmt,      \* the number of the statement to run next, one more than there are when
           \* the panel runs, 0 when it is stopped
  tab,     \* Tables -> columns and rows, or None
  new,     \* Tables -> the table that is to replace it, or None
  idx,     \* unique indices
  token,   \* nodes with a token
  totals,  \* traffic_user_total: users that have a total
  name,    \* Nodes -> name
  seen,    \* Tables -> the columns of the last look
  used,    \* normalizeDuplicateNodeNames: rows done in this start
  crashes, starts

vars == <<stmt, tab, new, idx, token, totals, name, seen, used, crashes, starts>>

----------------------------------------------------------------------------
Look(t)         == [do |-> "look", t |-> t]
Create(t)       == [do |-> "create", t |-> t]
Column(t, c, g) == [do |-> "column", t |-> t, c |-> c, g |-> g]
Index(t, i, g)  == [do |-> "index", t |-> t, i |-> i, g |-> g]
Do(what, t)     == [do |-> what, t |-> t]

\* Variant: the old table goes before its rows are copied
RebuildDropFirst(t) == <<Do("new", t), Do("drop", t), Do("copy", t), Do("rename", t)>>

\* A table is rebuilt: SQLite cannot drop a column or a foreign key
Rebuild(t) == <<Do("new", t), Do("copy", t), Do("drop", t), Do("rename", t)>>

CreateTables == <<Create("users"), Create("nodes"), Create("traffic")>>

MigrateNodes ==
  <<Look("nodes"),
    Column("nodes", "socks5_host", "socks5_host"), Column("nodes", "socks5_port", "socks5_host"),
    Column("nodes", "min_level", "min_level"),
    Column("nodes", "agent_token", "agent_token"), Do("tokens", "nodes"),
    Do("names", "nodes"), Index("nodes", "nodes_name", "none")>>

MigrateUsers ==
  <<Look("users"),
    Column("users", "telegram_id", "telegram_id"), Index("users", "users_telegram", "telegram_id"),
    Column("users", "oauth", "oauth"), Index("users", "users_oauth", "none")>>
  \o Rebuild("users") \o <<Index("users", "users_telegram", "none")>>

MigrateTraffic == <<Look("traffic")>> \o Rebuild("traffic")

Summarise == <<Do("fill", "traffic"), Do("prune", "users")>>

Program == CreateTables \o MigrateNodes \o MigrateUsers \o MigrateTraffic \o Summarise

Running  == stmt = Len(Program) + 1
Starting == stmt \in 1..Len(Program)
Next1(t, what) == Starting /\ Program[stmt].do = what /\ Program[stmt].t = t
Done(n) == stmt' = stmt + n

\* The guard of a rebuild
Obsolete(t) == {"nodeloc_id", "cascade"} \cap seen[t] # {}
----------------------------------------------------------------------------
\* The columns a table has when it is created, and after it was rebuilt: the
\* list of users_new has no oauth columns
FreshColumns(t) ==
  CASE t = "users" -> {"oauth"} [] t = "nodes" -> {"socks5_host", "socks5_port"} [] OTHER -> {}
RebuiltColumns(t) == IF t = "users" THEN {"telegram_id"} ELSE {}

\* The database of an older version, or none
OldColumns(t) ==
  CASE t = "users" -> {{"nodeloc_id"}, {"nodeloc_id", "telegram_id"}, {"telegram_id", "oauth"}}
    [] t = "nodes" -> {{}, {"socks5_host", "socks5_port"},
                       {"socks5_host", "socks5_port", "min_level", "agent_token"}}
    [] OTHER -> {{"cascade"}, {}}
OldRows(t) == IF t = "nodes" THEN Nodes ELSE Users

Init ==
  /\ stmt = 0
  /\ tab \in {[t \in Tables |-> [cols |-> c[t], rows |-> OldRows(t)]] :
                c \in {f \in [Tables -> SUBSET Columns] : \A t \in Tables : f[t] \in OldColumns(t)}}
  /\ new = [t \in Tables |-> None]
  /\ token = IF "agent_token" \in tab["nodes"].cols THEN Nodes ELSE {}
  /\ totals \in {{}, OldRows("traffic")}
  /\ name \in [Nodes -> OldNames]
  /\ idx = IF "telegram_id" \in tab["users"].cols THEN {"users_telegram"} ELSE {}
  /\ seen = [t \in Tables |-> {}]
  /\ used = {}
  /\ crashes = 0 /\ starts = 0

\* getDb opens the file
Start ==
  /\ stmt = 0 /\ starts < MaxStarts
  /\ stmt' = 1 /\ used' = {}
  /\ UNCHANGED <<tab, new, idx, token, totals, name, seen, crashes, starts>>

\* CREATE TABLE IF NOT EXISTS
CreateTable(t) ==
  /\ Next1(t, "create")
  /\ Done(1)
  /\ tab' = IF tab[t] = None THEN [tab EXCEPT ![t] = [cols |-> FreshColumns(t), rows |-> {}]] ELSE tab
  /\ UNCHANGED <<new, idx, token, totals, name, seen, used, crashes, starts>>

\* PRAGMA table_info
LookAt(t) ==
  /\ Next1(t, "look")
  /\ Done(1)
  /\ seen' = [seen EXCEPT ![t] = tab[t].cols]
  /\ UNCHANGED <<tab, new, idx, token, totals, name, used, crashes, starts>>

\* ALTER TABLE ... ADD COLUMN, unless the look found the guarding column
AddColumn(t) ==
  /\ Next1(t, "column")
  /\ Done(1)
  /\ tab' = IF Program[stmt].g \in seen[t] THEN tab
            ELSE [tab EXCEPT ![t].cols = @ \cup {Program[stmt].c}]
  /\ UNCHANGED <<new, idx, token, totals, name, seen, used, crashes, starts>>

\* A token for every node, one UPDATE after the other
FillToken(n) ==
  /\ Next1("nodes", "tokens") /\ "agent_token" \notin seen["nodes"]
  /\ n \in Nodes \ token
  /\ token' = token \cup {n}
  /\ UNCHANGED <<stmt, tab, new, idx, totals, name, seen, used, crashes, starts>>
TokensFilled ==
  /\ Next1("nodes", "tokens")
  /\ "agent_token" \notin seen["nodes"] => token = Nodes
  /\ Done(1)
  /\ UNCHANGED <<tab, new, idx, token, totals, name, seen, used, crashes, starts>>

\* The rows are taken by name; among equal names any order
NextByName(n) == n \notin used /\ \A m \in Nodes \ used : name[n] <= name[m]

\* normalizeDuplicateNodeNames, one row: a name met before gets the first
\* suffix that was not met
Normalise(n) ==
  /\ Next1("nodes", "names") /\ NextByName(n)
  /\ used' = used \cup {n}
  /\ LET met  == {name[m] : m \in used}
         free == {x \in Names \ met : x > name[n]} IN
     name' = IF name[n] \notin met THEN name
             ELSE [name EXCEPT ![n] = CHOOSE x \in free : \A y \in free : x <= y]
  /\ UNCHANGED <<stmt, tab, new, idx, token, totals, seen, crashes, starts>>
NamesDone ==
  /\ Next1("nodes", "names") /\ used = Nodes
  /\ Done(1)
  /\ UNCHANGED <<tab, new, idx, token, totals, name, seen, used, crashes, starts>>

\* CREATE UNIQUE INDEX IF NOT EXISTS; errors are logged
Possible(i) ==
  CASE i = "nodes_name" -> IsInjective(name)
    [] i = "users_oauth" -> "oauth" \in tab["users"].cols
    [] OTHER -> "telegram_id" \in tab["users"].cols
CreateIndex(t) ==
  /\ Next1(t, "index")
  /\ Done(1)
  /\ idx' = IF Program[stmt].g \in seen[t] \/ ~Possible(Program[stmt].i) THEN idx
            ELSE idx \cup {Program[stmt].i}
  /\ UNCHANGED <<tab, new, token, totals, name, seen, used, crashes, starts>>

\* The table is as it should be: nothing is rebuilt
SkipRebuild(t) ==
  /\ Next1(t, "new") /\ ~Obsolete(t)
  /\ Done(Len(Rebuild(t)) + (IF t = "users" THEN 1 ELSE 0))
  /\ UNCHANGED <<tab, new, idx, token, totals, name, seen, used, crashes, starts>>

NewTable(t) ==
  /\ Next1(t, "new") /\ Obsolete(t) /\ new[t] = None
  /\ Done(1)
  /\ new' = [new EXCEPT ![t] = [cols |-> RebuiltColumns(t), rows |-> {}]]
  /\ UNCHANGED <<tab, idx, token, totals, name, seen, used, crashes, starts>>

\* A table that a start left behind is in the way: the panel does not start
NewTableFails(t) ==
  /\ Next1(t, "new") /\ Obsolete(t) /\ new[t] # None
  /\ stmt' = 0
  /\ UNCHANGED <<tab, new, idx, token, totals, name, seen, used, crashes, starts>>

CopyRows(t) ==
  /\ Next1(t, "copy")
  /\ Done(1)
  /\ new' = [new EXCEPT ![t].rows = tab[t].rows]
  /\ UNCHANGED <<tab, idx, token, totals, name, seen, used, crashes, starts>>

\* DROP TABLE, with its indices
DropTable(t) ==
  /\ Next1(t, "drop")
  /\ Done(1)
  /\ tab' = [tab EXCEPT ![t] = None]
  /\ idx' = IF t = "users" THEN idx \ {"users_telegram", "users_oauth"} ELSE idx
  /\ UNCHANGED <<new, token, totals, name, seen, used, crashes, starts>>

RenameTable(t) ==
  /\ Next1(t, "rename")
  /\ Done(1)
  /\ tab' = [tab EXCEPT ![t] = new[t]] /\ new' = [new EXCEPT ![t] = None]
  /\ UNCHANGED <<idx, token, totals, name, seen, used, crashes, starts>>

\* The totals are taken from traffic_daily when there are none, and those of
\* users that are no more are deleted
FillTotals ==
  /\ Next1("traffic", "fill")
  /\ Done(1)
  /\ totals' = IF totals = {} THEN tab["traffic"].rows ELSE totals
  /\ UNCHANGED <<tab, new, idx, token, name, seen, used, crashes, starts>>
PruneTotals ==
  /\ Next1("users", "prune")
  /\ Done(1)
  /\ totals' = totals \cap tab["users"].rows
  /\ UNCHANGED <<tab, new, idx, token, name, seen, used, crashes, starts>>

\* The panel runs and is stopped some day
Stop ==
  /\ Running
  /\ stmt' = 0 /\ starts' = starts + 1
  /\ UNCHANGED <<tab, new, idx, token, totals, name, seen, used, crashes>>

\* It dies while starting
Crash ==
  /\ Starting /\ crashes < MaxCrashes
  /\ stmt' = 0 /\ crashes' = crashes + 1
  /\ UNCHANGED <<tab, new, idx, token, totals, name, seen, used, starts>>

Next ==
  \/ Start \/ Stop \/ Crash
  \/ TokensFilled \/ NamesDone \/ FillTotals \/ PruneTotals
  \/ \E n \in Nodes : FillToken(n) \/ Normalise(n)
  \/ \E t \in Tables :
       \/ CreateTable(t) \/ LookAt(t) \/ AddColumn(t) \/ CreateIndex(t)
       \/ SkipRebuild(t) \/ NewTable(t) \/ NewTableFails(t)
       \/ CopyRows(t) \/ DropTable(t) \/ RenameTable(t)

Spec == Init /\ [][Next]_vars
----------------------------------------------------------------------------
\* Types, and an index is on columns that its table has.
TypeOK ==
  /\ \A t \in Tables, x \in {tab, new} :
       x[t] # None => x[t].cols \subseteq Columns /\ x[t].rows \subseteq OldRows(t)
  /\ idx \subseteq Indices /\ token \subseteq Nodes /\ totals \subseteq Users
  /\ name \in [Nodes -> Names] /\ used \subseteq Nodes
  /\ \A t \in Tables : seen[t] \subseteq Columns
  /\ crashes \in 0..MaxCrashes /\ starts \in 0..MaxStarts
  /\ {"users_telegram", "users_oauth"} \cap idx # {} => tab["users"] # None

\* No row is lost by rebuilding a table, whenever the panel dies: it is in the
\* table or in the one that is to replace it (migrations.js:143-170).
RowsSurvive ==
  \A t \in Tables : \A r \in OldRows(t) :
    \/ tab[t] # None /\ r \in tab[t].rows
    \/ new[t] # None /\ r \in new[t].rows

\* What is added by one statement, and the names, come right in every start
\* that is completed, whatever happened in those before it (migrations.js:8-32).
RepairsItself ==
  Running => /\ "min_level" \in tab["nodes"].cols /\ "telegram_id" \in tab["users"].cols
             /\ IsInjective(name) /\ "nodes_name" \in idx

\* If the panel did not die in between, a start that is completed leaves every
\* group of columns whole, every node with a token, every user with a total,
\* every row in its table and no obsolete column (migrations.js:36-66, 143-252).
WholeWithoutCrash ==
  Running /\ crashes = 0 =>
    /\ {"socks5_port", "agent_token"} \subseteq tab["nodes"].cols
    /\ token = Nodes /\ totals = Users
    /\ \A t \in Tables : tab[t].rows = OldRows(t) /\ new[t] = None
    /\ {"nodeloc_id", "cascade"} \cap (tab["users"].cols \cup tab["traffic"].cols) = {}
    /\ "users_telegram" \in idx

\* The oauth columns, which the rebuilding of users drops again, are there at
\* the latest after the second start (migrations.js:124, 146).
SchemaSettles ==
  Running /\ crashes = 0 /\ starts >= 1 =>
    "oauth" \in tab["users"].cols /\ idx = Indices

\* Whenever the panel dies between two statements, no row is lost, the next
\* start repairs what one statement can repair, and starts that are completed
\* lead to one schema (migrations.js:8-252).
SchemaIsSound == TypeOK /\ RowsSurvive /\ RepairsItself /\ WholeWithoutCrash /\ SchemaSettles
=============================================================================
