------------------------------- MODULE Restore -------------------------------
(***************************************************************************)
(* Backups and the restoration of one: services/backup.js,                 *)
(* services/backupRestore.js, and getDb, closeDb, reopenDb of              *)
(* services/database.js.                                                   *)
(*                                                                         *)
(* A restoration replaces the database file between awaits while the panel *)
(* goes on serving requests.  Whoever calls getDb while the connection is  *)
(* closed opens whatever file is at the path at that moment, so what       *)
(* matters is kept apart here: the file at the path, the file the          *)
(* connection has open, and the write-ahead log beside the path.           *)
(*                                                                         *)
(* A file is "live" (the original) or the copy a restoration put in place. *)
(* SQLite's part is external: a close checkpoints and removes the log, an  *)
(* open replays the log it finds at the path, whichever file it was        *)
(* written for, and a log whose name is unlinked dies with its connection. *)
(***************************************************************************)
EXTENDS Integers, FiniteSets

CONSTANTS
  Restores,   \* restorations that can be requested
  MaxWrites,  \* bound: requests that write
  MaxCrashes, \* bound: restarts of the panel
  None

RestoreAssumption ==
  MaxWrites \in Nat /\ MaxCrashes \in Nat /\ "live" \notin Restores /\ None \notin {"live"} \cup Restores

Files  == {"live"} \cup Restores
Writes == 1..MaxWrites

VARIABLES
  path,    \* the file at DB_PATH
  open,    \* the file the connection has open, or None
  inFile,  \* Files -> writes the file itself contains
  inLog,   \* writes committed to the connection's log, not yet in the file
  log,     \* the file whose log lies at DB_PATH-wal, or None
  sound,   \* Files -> the copy passes the integrity check
  rs,      \* Restores -> phase of the restoration
  kept,    \* writes contained in some backup
  acked,   \* history: writes answered with success
  before,  \* history: writes answered while no restoration was under way
  window,  \* history: getDb opened the database while a restoration had it closed
  crashes

vars == <<path, open, inFile, inLog, log, sound, rs, kept, acked, before, window, crashes>>

AtRest(r) == rs[r] \in {"idle", "done", "failed"}
Busy == \E r \in Restores : ~AtRest(r)
----------------------------------------------------------------------------
Init ==
  /\ path = "live" /\ open = "live"
  /\ inFile = [f \in Files |-> {}] /\ inLog = {}
  /\ log = "live"
  /\ sound \in {s \in [Files -> BOOLEAN] : s["live"]}
  /\ rs = [r \in Restores |-> "idle"]
  /\ kept = {} /\ acked = {} /\ before = {}
  /\ window = FALSE
  /\ crashes = 0

Phase(r, from, to) == rs[r] = from /\ rs' = [rs EXCEPT ![r] = to]

\* getDb(): opens the file that is at the path now, if none is open; the
\* request that does so while a restoration has the database closed opens
\* the file that restoration is about to replace
Got == IF open = None THEN path ELSE open
GetDb ==
  /\ open' = Got /\ log' = IF open = None THEN path ELSE log
  /\ window' = (window \/ (open = None /\ \E r \in Restores : rs[r] \in {"rename", "unlink", "reopen"}))

\* closeDb(): what the log holds goes into the file that is open
Flushed == [f \in Files |-> IF f = open THEN inFile[f] \cup inLog ELSE inFile[f]]

\* A request that writes
Write(w) ==
  /\ w \in Writes \ acked
  /\ \A v \in 1..(w - 1) : v \in acked
  /\ GetDb
  /\ inLog' = inLog \cup {w}
  /\ acked' = acked \cup {w}
  /\ before' = IF Busy THEN before ELSE before \cup {w}
  /\ UNCHANGED <<path, inFile, sound, rs, kept, crashes>>

\* performBackup: the nightly one, or an administrator's
Backup ==
  /\ GetDb
  /\ kept' = kept \cup inFile[Got] \cup inLog
  /\ UNCHANGED <<path, inFile, inLog, sound, rs, acked, before, crashes>>

\* restoreDatabaseFromBackup: the current database is backed up first
Request(r) ==
  /\ Phase(r, "idle", "backup")
  /\ GetDb
  /\ UNCHANGED <<path, inFile, inLog, sound, kept, acked, before, crashes>>

\* Variant: the result of the backup is not looked at
BackedUpOrNot(r) ==
  /\ Phase(r, "backup", "copy")
  /\ UNCHANGED <<path, open, inFile, inLog, log, sound, kept, acked, before, window, crashes>>

\* The backup of the open connection ends well
BackedUp(r) ==
  /\ Phase(r, "backup", "copy")
  /\ open # None
  /\ kept' = kept \cup inFile[open] \cup inLog
  /\ UNCHANGED <<path, open, inFile, inLog, log, sound, acked, before, window, crashes>>

\* Variant: the connection stays open until the end
SwitchOpen(r) ==
  /\ Phase(r, "copy", "rename")
  /\ sound[r]
  /\ UNCHANGED <<path, open, inFile, inLog, log, sound, kept, acked, before, window, crashes>>

\* The copy is there and passes the integrity check: checkpoint and closeDb,
\* then the rename is awaited
Switch(r) ==
  /\ Phase(r, "copy", "rename")
  /\ sound[r]
  /\ inFile' = Flushed /\ open' = None /\ inLog' = {} /\ log' = None
  /\ UNCHANGED <<path, sound, kept, acked, before, window, crashes>>

\* Refused, with the database as it was: no backup, or a broken copy
Refuse(r) ==
  /\ \/ rs[r] = "backup"
     \/ rs[r] = "copy" /\ ~sound[r]
  /\ rs' = [rs EXCEPT ![r] = "failed"]
  /\ UNCHANGED <<path, open, inFile, inLog, log, sound, kept, acked, before, window, crashes>>

Rename(r) ==
  /\ Phase(r, "rename", "unlink")
  /\ path' = r
  /\ UNCHANGED <<open, inFile, inLog, log, sound, kept, acked, before, window, crashes>>

\* unlink(`${dbPath}-wal`), whoever's log it is; an open connection goes on
\* writing to it
Unlink(r) ==
  /\ Phase(r, "unlink", "reopen")
  /\ log' = None
  /\ UNCHANGED <<path, open, inFile, inLog, sound, kept, acked, before, window, crashes>>

\* reopenDb(): closed and opened again
ReopenDb == inFile' = Flushed /\ open' = path /\ inLog' = {} /\ log' = path

\* A failing restoration that reopens the file another one is replacing
ByAnother(r) == window' = (window \/ \E q \in Restores \ {r} : rs[q] \in {"rename", "unlink", "reopen"})

Reopen(r) ==
  /\ Phase(r, "reopen", "done")
  /\ ReopenDb
  /\ ByAnother(r)
  /\ UNCHANGED <<path, sound, kept, acked, before, crashes>>

\* An await throws (the copy, the rename): the connection is opened again
Catch(r) ==
  /\ rs[r] \in {"copy", "rename"}
  /\ rs' = [rs EXCEPT ![r] = "failed"]
  /\ ReopenDb
  /\ ByAnother(r)
  /\ UNCHANGED <<path, sound, kept, acked, before, crashes>>

\* The panel is killed and started again: initDb opens the file at the path
\* and replays the log that lies there; one that was unlinked is gone
Crash ==
  /\ crashes < MaxCrashes /\ crashes' = crashes + 1
  /\ LET replayed == IF log # None THEN inLog ELSE {}
     IN  inFile' = [inFile EXCEPT ![path] = @ \cup replayed]
  /\ open' = path /\ inLog' = {} /\ log' = path
  /\ rs' = [r \in Restores |-> IF AtRest(r) THEN rs[r] ELSE "failed"]
  /\ UNCHANGED <<path, sound, kept, acked, before, window>>
----------------------------------------------------------------------------
Next ==
  \/ \E w \in Writes : Write(w)
  \/ \E r \in Restores :
       \/ Request(r) \/ BackedUp(r) \/ Switch(r) \/ Refuse(r) \/ Rename(r)
       \/ Unlink(r) \/ Reopen(r) \/ Catch(r)
  \/ Backup \/ Crash

Spec == Init /\ [][Next]_vars
----------------------------------------------------------------------------
\* Types, and with no restoration under way the log at the path is the one the
\* open connection writes, the one a restart will replay.
TypeOK ==
  /\ path \in Files /\ open \in Files \cup {None} /\ log \in Files \cup {None}
  /\ inFile \in [Files -> SUBSET Writes] /\ inLog \subseteq Writes
  /\ sound \in [Files -> BOOLEAN]
  /\ rs \in [Restores -> {"idle", "backup", "copy", "rename", "unlink", "reopen", "done", "failed"}]
  /\ kept \subseteq acked /\ acked \subseteq Writes /\ before \subseteq acked
  /\ window \in BOOLEAN /\ crashes \in 0..MaxCrashes
  /\ open = None => Busy /\ inLog = {}
  /\ ~Busy => log = open

\* With no restoration under way, the connection has open the file at the
\* path: requests that opened the old file while it was being replaced, and
\* restorations that overlap, leave nobody writing to a file that a restart
\* will not find (database.js:47, backupRestore.js:66).
OpenIsTheFile == ~Busy => open = path

\* The panel never runs on a copy that failed the integrity check, however
\* restorations overlap or fail half-way (backupRestore.js:43).
OnlySoundFiles == sound[path]

\* A write answered while no restoration was under way is in the database or
\* in a backup: the one taken before the file is replaced has it
\* (backupRestore.js:32).
NothingLostBehindTheBackup ==
  \A w \in before : w \in kept \cup inFile[path] \cup (IF open = path THEN inLog ELSE {})

\* The log at the path, which a start of the panel would replay, is that of the
\* file at the path, except between the renaming and the unlinking of a
\* restoration, when somebody opened the database while one had it closed.  A
\* panel that dies in just this interval replays the old log onto the backup
\* (backupRestore.js:56-59); no other moment of a restoration is exposed to it.
LogBelongsToFile ==
  log \notin {None, path} => window /\ \E r \in Restores : rs[r] = "unlink"

\* While a backup replaces the database: the connection, the file and its log
\* belong together, and the file is sound (backupRestore.js:32-66).
DatabaseIsWhole == TypeOK /\ OpenIsTheFile /\ OnlySoundFiles /\ LogBelongsToFile
=============================================================================
