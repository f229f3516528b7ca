---------------------------- MODULE RecordsProofs ----------------------------
(***************************************************************************)
(* Theorems about the records the panel keeps: exchange orders             *)
(* (PaymentOrders), for any set of orders and any number of days; the      *)
(* database file while backups are restored (Restore), for any numbers of  *)
(* restorations and writes; mailed codes (SignIn), for any addresses,      *)
(* limits and lifetimes; and the migrations of a start (Schema), for any   *)
(* rows and any number of starts and deaths.                               *)
(*                                                                         *)
(* That credits and statuses agree is not inductive: the answer of the     *)
(* service writes a status without looking at the old one.  RequestInv     *)
(* says why this is harmless: nobody can pay before the answer is in.      *)
(*                                                                         *)
(* That of the orders credited today one at most was paid today is not     *)
(* inductive either: an order credited with a day to come would let a      *)
(* second one join it then.  DoneInThePast excludes this.                  *)
(*                                                                         *)
(* The bound on the mails to an address follows from ListInv: the list the *)
(* limiter keeps for an address has every mail of the last hour, although  *)
(* its entries go whenever somebody asks, and some requests are refused    *)
(* after they were counted.  That each code stands a bounded number of     *)
(* wrong entries and changes a password once follows from StoredInv: wrong *)
(* entries are counted with the code that is stored, and a code that was   *)
(* used or replaced is never stored again.                                 *)
(*                                                                         *)
(* What migrations leave follows from what is true before each statement   *)
(* of a start.  The heart of it is Rebuilding: while a table is replaced,  *)
(* its rows are in the old one until they are in the new one.              *)
(***************************************************************************)
EXTENDS MCRecords, FiniteSetTheorems, SequenceTheorems, WellFoundedInduction, TLAPS

\* An order exists once its request began, is paid only on the page that ends
\* the request, and is pending until then.
RequestInv ==
  \A o \in Orders :
    /\ request[o] = "none" <=> status[o] = "none"
    /\ paidOn[o] # -1 => request[o] = "offered"
    /\ request[o] = "fetching" => status[o] = "pending"

\* No order was completed on a day that is still to come.
DoneInThePast == \A o \in Orders : status[o] = "completed" => doneOn[o] <= day

----------------------------------------------------------------------------
\* Every action keeps the types.
LEMMA TypeStep == TypeOK /\ [Next]_vars => TypeOK'
<1> SUFFICES ASSUME TypeOK, [Next]_vars PROVE TypeOK'
  OBVIOUS
<1> USE MaxDayAssumption DEF TypeOK, Statuses
<1>1. ASSUME NEW o \in Orders, OrderStep(o) PROVE TypeOK'
  <2>1. CASE Create(o)         BY <2>1 DEF Create
  <2>2. CASE CreateAnswered(o) BY <2>2 DEF CreateAnswered
  <2>3. CASE CreateFails(o)    BY <2>3 DEF CreateFails
  <2>4. CASE RequestLost(o)    BY <2>4 DEF RequestLost
  <2>5. CASE Pay(o)            BY <2>5 DEF Pay
  <2>6. CASE Callback(o)
    <3>1. paidAt' \in [Orders -> (0..MaxDay) \cup {-1}] /\ doneOn' \in [Orders -> (0..MaxDay) \cup {-1}]
      BY <2>6 DEF Callback, Stamps
    <3>2. credits' \in [Orders -> Nat]
      BY <2>6 DEF Callback
    <3>3. status' \in [Orders -> Statuses]
      BY <2>6 DEF Callback
    <3> QED BY <2>6, <3>1, <3>2, <3>3 DEF Callback
  <2> QED BY <1>1, <2>1, <2>2, <2>3, <2>4, <2>5, <2>6 DEF OrderStep
<1>2. CASE CloseStale
  <2>1. status' \in [Orders -> Statuses]
    BY <1>2 DEF CloseStale
  <2> QED BY <1>2, <2>1 DEF CloseStale
<1>3. CASE CleanUp    BY <1>3 DEF CleanUp
<1>4. CASE NextDay
  <2>1. day' \in 0..MaxDay
    BY <1>4 DEF NextDay
  <2> QED BY <1>4, <2>1 DEF NextDay
<1>5. CASE UNCHANGED vars BY <1>5 DEF vars
<1> QED BY <1>1, <1>2, <1>3, <1>4, <1>5 DEF Next

\* TypeOK holds in every reachable state: the types of the order table.
THEOREM TypeCorrect == Spec => []TypeOK
<1>1. Init => TypeOK
  <2>1. 0 \in 0..MaxDay /\ 0 \in Nat
    BY MaxDayAssumption
  <2> QED BY <2>1 DEF Init, TypeOK, Statuses
<1> QED BY <1>1, TypeStep, PTL DEF Spec

----------------------------------------------------------------------------
\* Every action keeps the order of request, payment and status.
LEMMA RequestStep == TypeOK /\ RequestInv /\ [Next]_vars => RequestInv'
<1> SUFFICES ASSUME TypeOK, RequestInv, [Next]_vars PROVE RequestInv'
  OBVIOUS
<1>t. /\ DOMAIN status = Orders /\ status = [o \in Orders |-> status[o]]
      /\ DOMAIN request = Orders /\ request = [o \in Orders |-> request[o]]
      /\ DOMAIN paidOn = Orders /\ paidOn = [o \in Orders |-> paidOn[o]]
      /\ day # -1
  BY MaxDayAssumption DEF TypeOK
<1>1. ASSUME NEW o \in Orders, OrderStep(o) PROVE RequestInv'
  <2>1. CASE Create(o)         BY <2>1, <1>t DEF Create, RequestInv
  <2>2. CASE CreateAnswered(o) BY <2>2, <1>t DEF CreateAnswered, RequestInv
  <2>3. CASE CreateFails(o)    BY <2>3, <1>t DEF CreateFails, RequestInv
  <2>4. CASE RequestLost(o)    BY <2>4, <1>t DEF RequestLost, RequestInv
  <2>5. CASE Pay(o)            BY <2>5, <1>t DEF Pay, RequestInv
  <2>6. CASE Callback(o)       BY <2>6, <1>t DEF Callback, RequestInv
  <2> QED BY <1>1, <2>1, <2>2, <2>3, <2>4, <2>5, <2>6 DEF OrderStep
<1>2. CASE CloseStale BY <1>2, <1>t DEF CloseStale, RequestInv
<1>3. CASE CleanUp    BY <1>3, <1>t DEF CleanUp, RequestInv
<1>4. CASE NextDay    BY <1>4, <1>t DEF NextDay, RequestInv
<1>5. CASE UNCHANGED vars BY <1>5 DEF vars, RequestInv
<1> QED BY <1>1, <1>2, <1>3, <1>4, <1>5 DEF Next

\* Every action that writes a status adds the traffic if and only if it
\* completes the order.
LEMMA CreditStep ==
  TypeOK /\ RequestInv /\ CreditedOnceIffCompleted /\ [Next]_vars
    => CreditedOnceIffCompleted'
<1> SUFFICES ASSUME TypeOK, RequestInv, CreditedOnceIffCompleted, [Next]_vars
             PROVE  CreditedOnceIffCompleted'
  OBVIOUS
<1>t. /\ status \in [Orders -> Statuses]
      /\ credits \in [Orders -> Nat]
  BY DEF TypeOK
<1>c. \A o \in Orders : /\ status[o] = "completed" => credits[o] = 1
                        /\ status[o] # "completed" => credits[o] = 0
  BY DEF CreditedOnceIffCompleted
<1>g. SUFFICES \A p \in Orders : /\ status'[p] = "completed" => credits'[p] = 1
                                 /\ status'[p] # "completed" => credits'[p] = 0
  BY DEF CreditedOnceIffCompleted
<1>1. ASSUME NEW o \in Orders, OrderStep(o) PROVE <1>g!1
  <2>1. CASE Create(o)         BY <2>1, <1>t, <1>c DEF Create
  <2>2. CASE CreateAnswered(o) BY <2>2, <1>t, <1>c DEF CreateAnswered, RequestInv
  <2>3. CASE CreateFails(o)    BY <2>3, <1>t, <1>c DEF CreateFails, RequestInv
  <2>4. CASE RequestLost(o)    BY <2>4, <1>t, <1>c DEF RequestLost
  <2>5. CASE Pay(o)            BY <2>5, <1>t, <1>c DEF Pay
  <2>6. CASE Callback(o)       BY <2>6, <1>t, <1>c DEF Callback
  <2> QED BY <1>1, <2>1, <2>2, <2>3, <2>4, <2>5, <2>6 DEF OrderStep
<1>2. CASE CloseStale BY <1>2, <1>t, <1>c DEF CloseStale
<1>3. CASE CleanUp    BY <1>3, <1>t, <1>c DEF CleanUp
<1>4. CASE NextDay    BY <1>4, <1>t, <1>c DEF NextDay
<1>5. CASE UNCHANGED vars BY <1>5, <1>c DEF vars
<1> QED BY <1>1, <1>2, <1>3, <1>4, <1>5 DEF Next

\* The traffic of an order is added exactly once, when it is completed, for
\* any number of orders, repeated callbacks, closings and clean-ups.
THEOREM CreditCorrect == Spec => []CreditedOnceIffCompleted
<1>1. Init => RequestInv /\ CreditedOnceIffCompleted
  BY DEF Init, RequestInv, CreditedOnceIffCompleted
<1> QED BY <1>1, TypeCorrect, RequestStep, CreditStep, PTL DEF Spec

----------------------------------------------------------------------------
\* A callback completes an order as paid today only when no completed order is
\* recorded as paid today.
LEMMA DayStep ==
  TypeOK /\ DoneInThePast /\ OnePaidToday /\ [Next]_vars => DoneInThePast' /\ OnePaidToday'
<1> SUFFICES ASSUME TypeOK, DoneInThePast, OnePaidToday, [Next]_vars
             PROVE  DoneInThePast' /\ OnePaidToday'
  OBVIOUS
<1>t. /\ status \in [Orders -> Statuses]
      /\ paidAt \in [Orders -> (0..MaxDay) \cup {-1}]
      /\ doneOn \in [Orders -> (0..MaxDay) \cup {-1}]
      /\ day \in Nat
  BY MaxDayAssumption DEF TypeOK
<1> USE DEF DoneInThePast, OnePaidToday
<1>0. ASSUME UNCHANGED <<paidAt, doneOn, day>>,
             \A p \in Orders : status'[p] = "completed" => status[p] = "completed"
      PROVE  DoneInThePast' /\ OnePaidToday'
  BY <1>0
<1>1. ASSUME NEW o \in Orders, OrderStep(o) PROVE DoneInThePast' /\ OnePaidToday'
  <2>1. CASE Create(o)         BY <2>1, <1>t, <1>0 DEF Create
  <2>2. CASE CreateAnswered(o) BY <2>2, <1>t, <1>0 DEF CreateAnswered
  <2>3. CASE CreateFails(o)    BY <2>3, <1>t, <1>0 DEF CreateFails
  <2>4. CASE RequestLost(o)    BY <2>4, <1>t, <1>0 DEF RequestLost
  <2>5. CASE Pay(o)            BY <2>5, <1>t, <1>0 DEF Pay
  <2>6. CASE Callback(o)
    <3>1. PICK d : paidAt' = [paidAt EXCEPT ![o] = d]
      BY <2>6 DEF Callback
    <3>2. day' = day /\ status[o] # "completed"
      BY <2>6 DEF Callback
    <3>3. CASE CompletedToday({o})
      BY <2>6, <3>1, <3>2, <3>3, <1>t DEF Callback
    <3>4. CASE ~CompletedToday({o})
      <4>1. \A p \in Orders \ {o} : status[p] = "completed" => paidAt[p] # day
        BY <3>4 DEF CompletedToday, CompletedOn
      <4>2. status' = [status EXCEPT ![o] = "completed"] /\ doneOn' = [doneOn EXCEPT ![o] = day]
        BY <2>6, <3>4 DEF Callback
      <4> QED BY <3>1, <3>2, <4>1, <4>2, <1>t
    <3> QED BY <3>3, <3>4
  <2> QED BY <1>1, <2>1, <2>2, <2>3, <2>4, <2>5, <2>6 DEF OrderStep
<1>2. CASE CloseStale BY <1>2, <1>t, <1>0 DEF CloseStale
<1>3. CASE CleanUp    BY <1>3, <1>t, <1>0 DEF CleanUp
<1>4. CASE NextDay    BY <1>4, <1>t DEF NextDay
<1>5. CASE UNCHANGED vars BY <1>5, <1>0 DEF vars
<1> QED BY <1>1, <1>2, <1>3, <1>4, <1>5 DEF Next

\* Of the orders credited on one day at most one was paid, by its record, on that
\* day: for any number of orders open and paid at once, and whether the callback
\* carries the day of the payment or not.
THEOREM OncePerDay == Spec => []OnePaidToday
<1>1. Init => DoneInThePast /\ OnePaidToday
  BY DEF Init, DoneInThePast, OnePaidToday
<1> QED BY <1>1, TypeCorrect, DayStep, PTL DEF Spec
----------------------------------------------------------------------------
(* Restoring a backup                                                       *)

\* A restoration has closed the database and not yet opened it again.
Replacing == \E r \in Restores : rs[r] \in {"rename", "unlink", "reopen"}

\* A restoration has its backup.
BackupTaken == \E r \in Restores : rs[r] \in {"copy", "rename", "unlink", "reopen"}

\* The types, and every file holds only writes that were answered.
RestoreTypes ==
  /\ path \in R!Files /\ open \in R!Files \cup {None} /\ log \in R!Files \cup {None}
  /\ inFile \in [R!Files -> SUBSET R!Writes] /\ inLog \subseteq R!Writes
  /\ sound \in [R!Files -> BOOLEAN]
  /\ rs \in [Restores -> {"idle", "backup", "copy", "rename", "unlink", "reopen", "done", "failed"}]
  /\ kept \subseteq acked /\ acked \subseteq R!Writes /\ before \subseteq acked
  /\ window \in BOOLEAN /\ crashes \in 0..MaxCrashes
  /\ inLog \subseteq acked /\ \A f \in R!Files : inFile[f] \subseteq acked

\* Outside the replacement, connection, file and log belong together; within it
\* a log at the path was left by somebody who opened the database meanwhile, and
\* is that of another file only until it is unlinked.
ConnectionInv ==
  /\ ~Replacing => open = path /\ log = path
  /\ open = None => inLog = {}
  /\ Replacing /\ log # None => window
  /\ log \notin {None, path} => \E r \in Restores : rs[r] = "unlink"

\* What is put in place is sound.
SoundInv ==
  /\ sound[path]
  /\ \A r \in Restores : rs[r] \in {"rename", "unlink", "reopen"} => sound[r]

\* Whoever replaces the file has everything answered before in a backup.
KeptInv ==
  /\ BackupTaken => before \subseteq kept
  /\ R!NothingLostBehindTheBackup

RestoreInv == RestoreTypes /\ ConnectionInv /\ SoundInv /\ KeptInv

LEMMA RestoreInit == R!Init => RestoreInv
<1> SUFFICES ASSUME R!Init PROVE RestoreInv
  OBVIOUS
<1>1. RestoreTypes
  <2>1. /\ path \in R!Files /\ open \in R!Files \cup {None} /\ log \in R!Files \cup {None}
        /\ sound \in [R!Files -> BOOLEAN]
    BY DEF R!Init, R!Files
  <2>2. /\ inFile \in [R!Files -> SUBSET R!Writes] /\ inLog \subseteq R!Writes
        /\ inLog \subseteq acked /\ \A f \in R!Files : inFile[f] \subseteq acked
        /\ kept \subseteq acked /\ acked \subseteq R!Writes /\ before \subseteq acked
    BY DEF R!Init
  <2>3. /\ rs \in [Restores -> {"idle", "backup", "copy", "rename", "unlink", "reopen", "done", "failed"}]
        /\ window \in BOOLEAN
    BY DEF R!Init
  <2>4. crashes \in 0..MaxCrashes
    BY RestoreAssumption DEF R!Init, R!RestoreAssumption
  <2> QED BY <2>1, <2>2, <2>3, <2>4 DEF RestoreTypes
<1>2. ~Replacing /\ ~BackupTaken
  BY DEF R!Init, Replacing, BackupTaken
<1> QED BY <1>1, <1>2 DEF R!Init, RestoreInv, ConnectionInv, SoundInv, KeptInv,
     R!NothingLostBehindTheBackup

\* getDb in a step that only adds to the log: the four parts of the invariant.
LEMMA RestoreTypesStep == RestoreInv /\ R!Next => RestoreTypes'
<1> SUFFICES ASSUME RestoreInv, R!Next PROVE RestoreTypes'
  OBVIOUS
<1> USE RestoreAssumption DEF RestoreInv, RestoreTypes, R!RestoreAssumption
<1>0. R!Got \in R!Files \cup {None} /\ (open # None => R!Got = open) /\ (open = None => R!Got = path)
  BY DEF R!Got
<1>f. /\ R!Flushed \in [R!Files -> SUBSET R!Writes]
      /\ \A f \in R!Files : R!Flushed[f] \subseteq acked
  BY DEF R!Flushed
<1>1. ASSUME NEW w \in R!Writes, R!Write(w) PROVE RestoreTypes'
  BY <1>0, <1>1 DEF R!Write, R!GetDb
<1>2. ASSUME NEW r \in Restores, R!Request(r) PROVE RestoreTypes'
  BY <1>0, <1>2 DEF R!Request, R!GetDb, R!Phase
<1>3. ASSUME NEW r \in Restores, R!BackedUp(r) PROVE RestoreTypes'
  BY <1>3 DEF R!BackedUp, R!Phase
<1>4. ASSUME NEW r \in Restores, R!Switch(r) PROVE RestoreTypes'
  BY <1>f, <1>4 DEF R!Switch, R!Phase
<1>5. ASSUME NEW r \in Restores, R!Refuse(r) PROVE RestoreTypes'
  BY <1>5 DEF R!Refuse
<1>6. ASSUME NEW r \in Restores, R!Rename(r) PROVE RestoreTypes'
  BY <1>6 DEF R!Rename, R!Phase, R!Files
<1>7. ASSUME NEW r \in Restores, R!Unlink(r) PROVE RestoreTypes'
  BY <1>7 DEF R!Unlink, R!Phase
<1>8. ASSUME NEW r \in Restores, R!Reopen(r) PROVE RestoreTypes'
  BY <1>f, <1>8 DEF R!Reopen, R!Phase, R!ReopenDb, R!ByAnother
<1>9. ASSUME NEW r \in Restores, R!Catch(r) PROVE RestoreTypes'
  BY <1>f, <1>9 DEF R!Catch, R!ReopenDb, R!ByAnother
<1>10. CASE R!Backup
  <2>1. R!Got \in R!Files
    BY <1>0
  <2> QED BY <1>10, <2>1 DEF R!Backup, R!GetDb
<1>11. CASE R!Crash
  <2>1. crashes' \in 0..MaxCrashes
    BY <1>11 DEF R!Crash
  <2>2. rs' \in [Restores -> {"idle", "backup", "copy", "rename", "unlink", "reopen", "done", "failed"}]
    BY <1>11 DEF R!Crash
  <2>3. /\ inFile' \in [R!Files -> SUBSET R!Writes]
        /\ \A f \in R!Files : inFile'[f] \subseteq acked
    BY <1>11 DEF R!Crash
  <2> QED BY <1>11, <2>1, <2>2, <2>3 DEF R!Crash
<1> QED BY <1>1, <1>2, <1>3, <1>4, <1>5, <1>6, <1>7, <1>8, <1>9, <1>10, <1>11 DEF R!Next

\* Whoever opens the database finds the file at the path, or is in the window of
\* a restoration.
LEMMA ConnectionStep == RestoreInv /\ R!Next => ConnectionInv'
<1> SUFFICES ASSUME RestoreInv, R!Next PROVE ConnectionInv'
  OBVIOUS
<1> USE DEF RestoreInv, ConnectionInv
<1>t. /\ rs \in [Restores -> {"idle", "backup", "copy", "rename", "unlink", "reopen", "done", "failed"}]
      /\ path \in R!Files /\ path # None /\ crashes \in Nat
  BY RestoreAssumption DEF RestoreTypes, R!RestoreAssumption, R!Files
<1>g. ASSUME R!GetDb PROVE /\ open' = R!Got
                           /\ log' = IF open = None THEN path ELSE log
                           /\ Replacing /\ open = None => window'
                           /\ window => window'
  BY <1>g DEF R!GetDb, Replacing
<1>b. ASSUME NEW r \in Restores, R!ByAnother(r),
             \A q \in Restores \ {r} : rs'[q] = rs[q], rs'[r] \in {"done", "failed"}
      PROVE  Replacing' => window'
  BY <1>b DEF R!ByAnother, Replacing
<1>u. ASSUME log' = None \/ log' = path' \/ (log' = log /\ path' = path),
             \A q \in Restores : rs[q] = "unlink" => rs'[q] = "unlink"
      PROVE  log' \notin {None, path'} => \E q \in Restores : rs'[q] = "unlink"
  BY <1>u
<1>s. ASSUME NEW r \in Restores, NEW from, NEW to, R!Phase(r, from, to)
      PROVE  rs[r] = from /\ rs'[r] = to /\ \A q \in Restores \ {r} : rs'[q] = rs[q]
  BY <1>s, <1>t DEF R!Phase
<1>1. ASSUME NEW w \in R!Writes, R!Write(w) PROVE ConnectionInv'
  <2>1. R!GetDb /\ rs' = rs /\ path' = path /\ crashes' = crashes
    BY <1>1 DEF R!Write
  <2>2. Replacing' <=> Replacing
    BY <2>1 DEF Replacing
  <2>3. open' # None \/ inLog' = {}
    <3>1. CASE open # None
      BY <1>g, <2>1, <3>1 DEF R!Got
    <3>2. CASE open = None
      BY <1>g, <1>t, <2>1, <3>2 DEF R!Got
    <3> QED BY <3>1, <3>2
  <2>4. log' \notin {None, path'} => \E q \in Restores : rs'[q] = "unlink"
    BY <1>g, <1>u, <2>1
  <2>5. Replacing' /\ log' # None => window'
    BY <1>g, <2>1, <2>2
  <2>6. ~Replacing' => open' = path' /\ log' = path'
    BY <1>g, <1>t, <2>1, <2>2 DEF R!Got
  <2> QED BY <2>3, <2>4, <2>5, <2>6
<1>2. ASSUME NEW r \in Restores, R!Request(r) PROVE ConnectionInv'
  <2>1. R!GetDb /\ path' = path /\ crashes' = crashes /\ inLog' = inLog
    BY <1>2 DEF R!Request
  <2>2. Replacing' <=> Replacing
    BY <1>2, <1>s DEF R!Request, Replacing
  <2>3. open' = None => inLog' = {}
    BY <1>g, <2>1 DEF R!Got
  <2>4. log' \notin {None, path'} => \E q \in Restores : rs'[q] = "unlink"
    BY <1>2, <1>g, <1>s, <1>u, <2>1 DEF R!Request
  <2>5. Replacing' /\ log' # None => window'
    BY <1>g, <2>1, <2>2
  <2>6. ~Replacing' => open' = path' /\ log' = path'
    BY <1>g, <1>t, <2>1, <2>2 DEF R!Got
  <2> QED BY <2>3, <2>4, <2>5, <2>6
<1>3. ASSUME NEW r \in Restores, R!BackedUp(r) PROVE ConnectionInv'
  <2>1. Replacing' <=> Replacing
    BY <1>3, <1>s DEF R!BackedUp, Replacing
  <2>2. log' \notin {None, path'} => \E q \in Restores : rs'[q] = "unlink"
    BY <1>3, <1>s, <1>u DEF R!BackedUp
  <2> QED BY <1>3, <2>1, <2>2 DEF R!BackedUp
<1>4. ASSUME NEW r \in Restores, R!Switch(r) PROVE ConnectionInv'
  <2>1. Replacing'
    BY <1>4, <1>s DEF R!Switch, Replacing
  <2> QED BY <1>4, <2>1 DEF R!Switch
<1>5. ASSUME NEW r \in Restores, R!Refuse(r) PROVE ConnectionInv'
  <2>1. Replacing' <=> Replacing
    BY <1>5, <1>t DEF R!Refuse, Replacing
  <2>2. log' \notin {None, path'} => \E q \in Restores : rs'[q] = "unlink"
    BY <1>5, <1>t, <1>u DEF R!Refuse
  <2> QED BY <1>5, <2>1, <2>2 DEF R!Refuse
<1>6. ASSUME NEW r \in Restores, R!Rename(r) PROVE ConnectionInv'
  <2>1. Replacing /\ Replacing'
    BY <1>6, <1>s DEF R!Rename, Replacing
  <2>2. rs'[r] = "unlink"
    BY <1>6, <1>s DEF R!Rename
  <2> QED BY <1>6, <2>1, <2>2 DEF R!Rename
<1>7. ASSUME NEW r \in Restores, R!Unlink(r) PROVE ConnectionInv'
  <2>1. Replacing'
    BY <1>7, <1>s DEF R!Unlink, Replacing
  <2> QED BY <1>7, <2>1 DEF R!Unlink
<1>8. ASSUME NEW r \in Restores, R!Reopen(r) PROVE ConnectionInv'
  <2>1. Replacing' => window'
    BY <1>8, <1>s, <1>b DEF R!Reopen
  <2>2. window => window'
    BY <1>8 DEF R!Reopen, R!ByAnother
  <2> QED BY <1>8, <2>1, <2>2 DEF R!Reopen, R!ReopenDb
<1>9. ASSUME NEW r \in Restores, R!Catch(r) PROVE ConnectionInv'
  <2>1. Replacing' => window'
    BY <1>9, <1>b, <1>t DEF R!Catch
  <2>2. window => window'
    BY <1>9 DEF R!Catch, R!ByAnother
  <2> QED BY <1>9, <2>1, <2>2 DEF R!Catch, R!ReopenDb
<1>10. CASE R!Backup
  <2>1. R!GetDb /\ rs' = rs /\ path' = path /\ crashes' = crashes /\ inLog' = inLog
    BY <1>10 DEF R!Backup
  <2>2. Replacing' <=> Replacing
    BY <2>1 DEF Replacing
  <2>3. log' \notin {None, path'} => \E q \in Restores : rs'[q] = "unlink"
    BY <1>g, <1>u, <2>1
  <2> QED BY <1>g, <1>t, <2>1, <2>2, <2>3 DEF R!Got
<1>11. CASE R!Crash
  <2>1. ~Replacing'
    BY <1>11, <1>t DEF R!Crash, R!AtRest, Replacing
  <2>2. open' = path' /\ log' = path' /\ inLog' = {} /\ window' = window
    BY <1>11 DEF R!Crash
  <2> QED BY <2>1, <2>2
<1> QED BY <1>1, <1>2, <1>3, <1>4, <1>5, <1>6, <1>7, <1>8, <1>9, <1>10, <1>11 DEF R!Next

\* Only a copy that passed the check is put in place.
LEMMA SoundStep == RestoreInv /\ R!Next => SoundInv'
<1> SUFFICES ASSUME RestoreInv, R!Next PROVE SoundInv'
  OBVIOUS
<1> USE DEF RestoreInv, SoundInv
<1>t. rs \in [Restores -> {"idle", "backup", "copy", "rename", "unlink", "reopen", "done", "failed"}]
  BY DEF RestoreTypes
<1>1. ASSUME NEW w \in R!Writes, R!Write(w) PROVE SoundInv'
  BY <1>1 DEF R!Write
<1>2. ASSUME NEW r \in Restores,
             R!Request(r) \/ R!BackedUp(r) \/ R!Unlink(r) \/ R!Reopen(r) PROVE SoundInv'
  BY <1>2, <1>t DEF R!Request, R!BackedUp, R!Unlink, R!Reopen, R!Phase
<1>3. ASSUME NEW r \in Restores, R!Switch(r) PROVE SoundInv'
  BY <1>3, <1>t DEF R!Switch, R!Phase
<1>4. ASSUME NEW r \in Restores, R!Refuse(r) \/ R!Catch(r) PROVE SoundInv'
  BY <1>4, <1>t DEF R!Refuse, R!Catch
<1>5. ASSUME NEW r \in Restores, R!Rename(r) PROVE SoundInv'
  BY <1>5, <1>t DEF R!Rename, R!Phase
<1>6. CASE R!Backup
  BY <1>6 DEF R!Backup
<1>7. CASE R!Crash
  BY <1>7, <1>t DEF R!Crash, R!AtRest
<1> QED BY <1>1, <1>2, <1>3, <1>4, <1>5, <1>6, <1>7 DEF R!Next

\* What was answered before a restoration is kept by its backup, and stays in
\* the file or its log as long as the file does.
LEMMA KeptStep == RestoreInv /\ R!Next => KeptInv'
<1> SUFFICES ASSUME RestoreInv, R!Next PROVE KeptInv'
  OBVIOUS
<1> USE DEF RestoreInv, KeptInv
<1> DEFINE Data == inFile[path] \cup (IF open = path THEN inLog ELSE {})
<1>t. /\ rs \in [Restores -> {"idle", "backup", "copy", "rename", "unlink", "reopen", "done", "failed"}]
      /\ path \in R!Files /\ open \in R!Files \cup {None}
      /\ inFile \in [R!Files -> SUBSET R!Writes]
      /\ None = open => inLog = {}
  BY DEF RestoreTypes, ConnectionInv
<1>d. before \subseteq kept \cup Data /\ (BackupTaken => before \subseteq kept)
  BY DEF R!NothingLostBehindTheBackup
<1>w. ASSUME before' \subseteq kept' \cup Data', BackupTaken' => before' \subseteq kept'
      PROVE  KeptInv'
  BY <1>w DEF R!NothingLostBehindTheBackup
<1>r. Replacing => BackupTaken
  BY DEF Replacing, BackupTaken
<1>o. ~Replacing => open = path /\ log = path
  BY DEF ConnectionInv
<1>b. BackupTaken => R!Busy
  BY <1>t DEF BackupTaken, R!Busy, R!AtRest
<1>s. ASSUME NEW r \in Restores, NEW from, NEW to, R!Phase(r, from, to)
      PROVE  rs[r] = from /\ rs'[r] = to /\ \A q \in Restores \ {r} : rs'[q] = rs[q]
  BY <1>s, <1>t DEF R!Phase
<1>k. ASSUME BackupTaken, before' = before, kept' = kept
      PROVE  KeptInv'
  <2>1. before' \subseteq kept'
    BY <1>d, <1>k
  <2> QED BY <1>w, <2>1
<1>1. ASSUME NEW w \in R!Writes, R!Write(w) PROVE KeptInv'
  <2>1. /\ open' = R!Got /\ inLog' = inLog \cup {w} /\ kept' = kept /\ path' = path
        /\ inFile' = inFile /\ (BackupTaken' <=> BackupTaken)
    BY <1>1 DEF R!Write, R!GetDb, BackupTaken
  <2>2. CASE R!Busy
    <3>1. before' = before
      BY <1>1, <2>2 DEF R!Write
    <3>2. Data \subseteq Data'
      BY <2>1, <1>t DEF R!Got
    <3> QED BY <1>d, <1>w, <2>1, <3>1, <3>2
  <2>3. CASE ~R!Busy
    <3>1. ~BackupTaken /\ open = path /\ before' = before \cup {w}
      BY <1>1, <1>b, <1>o, <1>r, <2>3 DEF R!Write
    <3>2. open' = path
      BY <2>1, <3>1 DEF R!Got
    <3>3. Data' = Data \cup {w}
      BY <2>1, <3>1, <3>2
    <3> QED BY <1>d, <1>w, <2>1, <3>1, <3>3
  <2> QED BY <2>2, <2>3
<1>2. ASSUME NEW r \in Restores, R!Request(r) PROVE KeptInv'
  <2>1. /\ open' = R!Got /\ inLog' = inLog /\ kept' = kept /\ path' = path
        /\ inFile' = inFile /\ before' = before
    BY <1>2 DEF R!Request, R!GetDb
  <2>2. BackupTaken' => BackupTaken
    BY <1>2, <1>s DEF R!Request, BackupTaken
  <2>3. Data \subseteq Data'
    BY <1>t, <2>1 DEF R!Got
  <2> QED BY <1>d, <1>w, <2>1, <2>2, <2>3
<1>3. ASSUME NEW r \in Restores, R!BackedUp(r) PROVE KeptInv'
  <2>1. /\ open # None /\ kept' = kept \cup inFile[open] \cup inLog /\ before' = before
    BY <1>3 DEF R!BackedUp
  <2>2. before \subseteq kept'
    <3>1. CASE Replacing
      BY <1>d, <1>r, <2>1, <3>1
    <3>2. CASE ~Replacing
      BY <1>d, <1>o, <2>1, <3>2
    <3> QED BY <3>1, <3>2
  <2> QED BY <1>w, <2>1, <2>2
<1>4. ASSUME NEW r \in Restores, R!Switch(r) \/ R!Rename(r) \/ R!Unlink(r) \/ R!Reopen(r) PROVE KeptInv'
  <2>1. before' = before /\ kept' = kept
    BY <1>4 DEF R!Switch, R!Rename, R!Unlink, R!Reopen
  <2>2. BackupTaken
    BY <1>4 DEF R!Switch, R!Rename, R!Unlink, R!Reopen, R!Phase, BackupTaken
  <2> QED BY <1>k, <2>1, <2>2
<1>5. ASSUME NEW r \in Restores, R!Catch(r) PROVE KeptInv'
  <2>1. before' = before /\ kept' = kept /\ BackupTaken
    BY <1>5 DEF R!Catch, BackupTaken
  <2> QED BY <1>k, <2>1
<1>6. ASSUME NEW r \in Restores, R!Refuse(r) PROVE KeptInv'
  <2>1. BackupTaken' => BackupTaken
    BY <1>6, <1>t DEF R!Refuse, BackupTaken
  <2>2. Data' = Data /\ kept' = kept /\ before' = before
    BY <1>6 DEF R!Refuse
  <2> QED BY <1>d, <1>w, <2>1, <2>2
<1>7. CASE R!Backup
  <2>1. /\ open' = R!Got /\ inLog' = inLog /\ kept \subseteq kept' /\ path' = path
        /\ inFile' = inFile /\ before' = before /\ (BackupTaken' <=> BackupTaken)
    BY <1>7 DEF R!Backup, R!GetDb, BackupTaken
  <2>2. Data \subseteq Data'
    BY <1>t, <2>1 DEF R!Got
  <2> QED BY <1>d, <1>w, <2>1, <2>2
<1>8. CASE R!Crash
  <2>1. before' = before /\ kept' = kept /\ path' = path /\ ~BackupTaken'
    BY <1>8, <1>t DEF R!Crash, R!AtRest, BackupTaken
  <2>2. CASE BackupTaken
    BY <1>d, <1>w, <2>1, <2>2
  <2>3. CASE ~BackupTaken
    <3>1. open = path /\ log = path
      BY <1>o, <1>r, <2>3
    <3>2. CASE path = None
      BY <1>t, <1>d, <1>w, <1>8, <2>1, <3>1, <3>2 DEF R!Crash
    <3>3. CASE path # None
      <4>1. inFile'[path] = inFile[path] \cup inLog
        BY <1>8, <1>t, <3>1, <3>3 DEF R!Crash
      <4> QED BY <1>d, <1>w, <2>1, <3>1, <4>1
    <3> QED BY <3>2, <3>3
  <2> QED BY <2>2, <2>3
<1> QED BY <1>1, <1>2, <1>3, <1>4, <1>5, <1>6, <1>7, <1>8 DEF R!Next

LEMMA RestoreUnchanged == RestoreInv /\ UNCHANGED restoreVars => RestoreInv'
<1> SUFFICES ASSUME RestoreInv, UNCHANGED restoreVars PROVE RestoreInv'
  OBVIOUS
<1> USE DEF restoreVars
<1>1. RestoreTypes'
  BY DEF RestoreInv, RestoreTypes
<1>2. ConnectionInv'
  BY DEF RestoreInv, ConnectionInv, Replacing
<1>3. SoundInv'
  BY DEF RestoreInv, SoundInv
<1>4. KeptInv'
  BY DEF RestoreInv, KeptInv, BackupTaken, R!NothingLostBehindTheBackup
<1> QED BY <1>1, <1>2, <1>3, <1>4 DEF RestoreInv

LEMMA RestoreCorrect == AllSpec => [](part = "restore" => RestoreInv)
<1>1. AllInit => (part = "restore" => RestoreInv)
  BY RestoreInit DEF AllInit
<1>2. (part = "restore" => RestoreInv) /\ [AllNext]_allVars => (part = "restore" => RestoreInv)'
  <2> SUFFICES ASSUME part = "restore" => RestoreInv, [AllNext]_allVars, part' = "restore"
               PROVE  RestoreInv'
    OBVIOUS
  <2>1. part = "restore" /\ RestoreInv
    BY DEF AllNext, allVars
  <2>2. R!Next \/ UNCHANGED restoreVars
    BY <2>1 DEF AllNext, allVars
  <2>3. CASE R!Next
    <3>1. RestoreTypes' /\ ConnectionInv' /\ SoundInv' /\ KeptInv'
      BY <2>1, <2>3, RestoreTypesStep, ConnectionStep, SoundStep, KeptStep
    <3> QED BY <3>1 DEF RestoreInv
  <2>4. CASE UNCHANGED restoreVars
    BY <2>1, <2>4, RestoreUnchanged
  <2> QED BY <2>2, <2>3, <2>4
<1> QED BY <1>1, <1>2, PTL DEF AllSpec

\* While a backup replaces the database under a running panel, however requests,
\* failures, crashes and further restorations fall between its awaits: file, log
\* and connection belong together when none is under way, the file is sound, and
\* the log of another file lies at the path only between the renaming and the
\* unlinking of a restoration in whose time somebody opened the database.  A
\* crash in that interval replays the old log onto the backup: that the theorem
\* does not exclude, because the code does not (backupRestore.js:32-66).
THEOREM RestoredWhole == AllSpec => []DatabaseIsWhole
<1>1. (part = "restore" => RestoreInv) => DatabaseIsWhole
  <2> SUFFICES ASSUME part = "restore", RestoreInv PROVE R!DatabaseIsWhole
    BY DEF DatabaseIsWhole
  <2>1. R!Busy <=> \E r \in Restores : rs[r] \in {"backup", "copy", "rename", "unlink", "reopen"}
    BY DEF RestoreInv, RestoreTypes, R!Busy, R!AtRest
  <2>2. ~R!Busy => open = path /\ log = path
    BY <2>1 DEF RestoreInv, ConnectionInv, Replacing
  <2>3. open = None => R!Busy /\ inLog = {}
    BY <2>2, RestoreAssumption
       DEF RestoreInv, RestoreTypes, ConnectionInv, R!RestoreAssumption, R!Files
  <2>4. R!TypeOK
    BY <2>2, <2>3 DEF RestoreInv, RestoreTypes, R!TypeOK
  <2>5. R!LogBelongsToFile
    BY DEF RestoreInv, ConnectionInv, Replacing, R!LogBelongsToFile
  <2> QED BY <2>2, <2>4, <2>5 DEF RestoreInv, SoundInv, R!DatabaseIsWhole,
       R!OpenIsTheFile, R!OnlySoundFiles
<1> QED BY <1>1, RestoreCorrect, PTL

\* What was answered while no restoration was under way is never lost without
\* being in a backup (backupRestore.js:32).
THEOREM NothingLost == AllSpec => []NothingLostBehindTheBackup
<1>1. (part = "restore" => RestoreInv) => NothingLostBehindTheBackup
  BY DEF RestoreInv, KeptInv, NothingLostBehindTheBackup
<1> QED BY <1>1, RestoreCorrect, PTL

----------------------------------------------------------------------------
(* Mailed codes (SignIn) *)

\* A set gains at most one element at a time.
LEMMA OneMore ==
  ASSUME NEW A, IsFiniteSet(A), NEW x
  PROVE  /\ Cardinality(A) \in Nat /\ Cardinality(A \cup {x}) \in Nat
         /\ Cardinality(A \cup {x}) <= Cardinality(A) + 1
<1>1. Cardinality(A) \in Nat
  BY FS_CardinalityType
<1>2. Cardinality(A \cup {x}) = IF x \in A THEN Cardinality(A) ELSE Cardinality(A) + 1
  BY FS_AddElement
<1> QED BY <1>1, <1>2

\* SignIn counts as the library does.
LEMMA SameCountOfMails == \A Z : I!Cardinality(Z) = Cardinality(Z)
  BY DEF I!Cardinality, Cardinality

LEMMA SignInLimits ==
  /\ CodeTtl \in Nat /\ Hour \in Nat /\ Hour > 0 /\ TokenTtl \in Nat
  /\ GlobalLimit \in Nat /\ RecipientLimit \in Nat /\ Entries \in Nat
  /\ MaxTime \in Nat /\ MaxRestarts \in Nat /\ None \notin Nat
  BY SignupAssumption DEF I!SignInAssumption

StoredCode == [code : Nat, at : Nat, attempts : Nat]
Tally      == [wrong : Nat, changed : Nat]

ClockTypes ==
  /\ now \in Nat /\ now <= MaxTime /\ registered \subseteq Boxes
  /\ ends \in Nat /\ ends <= MaxRestarts
  /\ spent = None \/ spent \in Nat
CodesTypes ==
  /\ sent \in [I!Purposes -> [Boxes -> {None} \cup StoredCode]]
  /\ entered \in Seq(Tally)
  /\ logins \in Seq(Nat)
  /\ known \subseteq DOMAIN entered
  /\ \A m \in sending : m.p \in I!Purposes /\ m.to \in Boxes /\ m.code \in DOMAIN entered
BudgetTypes ==
  /\ budget \in [start : Nat, count : Nat] /\ budget.start <= now /\ budget.count <= GlobalLimit
  /\ times \in [Boxes -> SUBSET [code : Nat, at : Nat]] /\ \A x \in Boxes : IsFiniteSet(times[x])
  /\ mailed \subseteq [p : I!Purposes, to : Boxes, code : Nat, at : Nat] /\ IsFiniteSet(mailed)

\* What is stored for an address is a code of its own, not used yet, with all
\* the wrong entries against it among its attempts.
StoredInv ==
  /\ \A p \in I!Purposes, x \in Boxes : sent[p][x] # None =>
       /\ sent[p][x].code \in DOMAIN entered /\ sent[p][x].at <= now
       /\ sent[p][x].attempts <= Entries
       /\ entered[sent[p][x].code].wrong <= sent[p][x].attempts
       /\ entered[sent[p][x].code].changed = 0
  /\ \A p, q \in I!Purposes, x, y \in Boxes :
       sent[p][x] # None /\ sent[q][y] # None /\ sent[p][x].code = sent[q][y].code
         => p = q /\ x = y
EnteredInv == \A c \in DOMAIN entered : entered[c].changed <= 1 /\ entered[c].wrong <= Entries

\* The last login is the one that the token remembers.
LoginInv ==
  /\ spent # None => spent <= now
  /\ \A i \in DOMAIN logins : spent # None /\ logins[i] <= spent
  /\ \A i, j \in DOMAIN logins : i < j => logins[j] - logins[i] > TokenTtl

\* The list of an address has every mail of the last hour.
ListInv ==
  /\ \A m \in mailed : m.code \in DOMAIN entered /\ m.at <= now
  /\ \A m, n \in mailed : m.code = n.code => m = n
  /\ \A m \in mailed : now - m.at < Hour => [code |-> m.code, at |-> m.at] \in times[m.to]

ToInHour(x, t) == {m \in mailed : m.to = x /\ t - Hour < m.at /\ m.at <= t}
InWindow       == {m \in mailed : m.at >= budget.start}

HourInv   == \A x \in Boxes, t \in 0..now : Cardinality(ToInHour(x, t)) <= RecipientLimit
WindowInv == Cardinality(InWindow) <= budget.count

\* A window that is over has no mail of its last moment.
PastInv   == \A m \in mailed : m.at <= budget.start + Hour

SignInInv ==
  /\ ClockTypes /\ CodesTypes /\ BudgetTypes
  /\ StoredInv /\ EnteredInv /\ LoginInv
  /\ ListInv /\ HourInv /\ WindowInv /\ PastInv

LEMMA SignInInit == I!Init => SignInInv
<1> SUFFICES ASSUME I!Init PROVE SignInInv
  OBVIOUS
<1>1. /\ now = 0 /\ registered = {} /\ sending = {} /\ known = {} /\ spent = None
      /\ mailed = {} /\ entered = <<>> /\ logins = <<>> /\ ends = 0
      /\ budget = [start |-> 0, count |-> 0]
      /\ times = [x \in Boxes |-> {}]
      /\ sent = [p \in I!Purposes |-> [x \in Boxes |-> None]]
  BY DEF I!Init
<1>2. IsFiniteSet({}) /\ Cardinality({}) = 0
  BY FS_EmptySet
<1>3. ClockTypes
  BY <1>1, SignInLimits DEF ClockTypes
<1>4. CodesTypes
  BY <1>1 DEF CodesTypes
<1>5. BudgetTypes
  BY <1>1, <1>2, SignInLimits DEF BudgetTypes
<1>6. StoredInv /\ EnteredInv /\ LoginInv
  BY <1>1 DEF StoredInv, EnteredInv, LoginInv
<1>7. ListInv
  BY <1>1 DEF ListInv
<1>8. InWindow = {} /\ \A x, t : ToInHour(x, t) = {}
  BY <1>1 DEF InWindow, ToInHour
<1>9. HourInv /\ WindowInv /\ PastInv
  <2>1. 0 <= RecipientLimit /\ budget.count = 0
    BY <1>1, SignInLimits
  <2>2. PastInv
    BY <1>1 DEF PastInv
  <2>3. HourInv /\ WindowInv
    BY <1>2, <1>8, <2>1 DEF HourInv, WindowInv
  <2> QED BY <2>2, <2>3
<1> QED BY <1>3, <1>4, <1>5, <1>6, <1>7, <1>9 DEF SignInInv

\* Whatever happens to codes, mails and budgets while no mail is sent.
LEMMA BudgetsStand ==
  ASSUME SignInInv, UNCHANGED <<now, times, mailed, budget>>, DOMAIN entered \subseteq DOMAIN entered'
  PROVE  BudgetTypes' /\ ListInv' /\ HourInv' /\ WindowInv' /\ PastInv'
<1>1. BudgetTypes' /\ ListInv'
  BY DEF SignInInv, BudgetTypes, ListInv
<1>2. InWindow' = InWindow /\ \A x, t : ToInHour(x, t)' = ToInHour(x, t)
  BY DEF InWindow, ToInHour
<1> QED BY <1>1, <1>2 DEF SignInInv, HourInv, WindowInv, PastInv

\* A code is forgotten.
LEMMA CodeForgotten ==
  ASSUME SignInInv, NEW p \in I!Purposes, NEW x \in Boxes, I!Forget(p, x)
  PROVE  /\ sent' \in [I!Purposes -> [Boxes -> {None} \cup StoredCode]]
         /\ sent'[p][x] = None
         /\ \A q \in I!Purposes, y \in Boxes :
              q # p \/ y # x => sent'[q][y] = sent[q][y]
<1>1. sent \in [I!Purposes -> [Boxes -> {None} \cup StoredCode]]
  BY DEF SignInInv, CodesTypes
<1>2. sent' = [sent EXCEPT ![p][x] = None]
  BY DEF I!Forget
<1>3. sent' = [sent EXCEPT ![p] = [sent[p] EXCEPT ![x] = None]]
  BY <1>2
<1> QED BY <1>1, <1>3

LEMMA ForgetStep ==
  ASSUME SignInInv,
         UNCHANGED <<now, registered, budget, times, spent, mailed, entered, logins, ends>>,
         \/ \E m \in sending : I!MailSent(m) \/ I!MailFails(m)
         \/ \E p \in I!Purposes, x \in Boxes : I!CodeExpires(p, x) \/ I!TooManyTries(p, x)
         \/ \E x \in Boxes : I!RegistrationFails(x)
  PROVE  SignInInv'
<1>1. /\ sent' \in [I!Purposes -> [Boxes -> {None} \cup StoredCode]]
      /\ \A q \in I!Purposes, y \in Boxes : sent'[q][y] = None \/ sent'[q][y] = sent[q][y]
  <2>1. ASSUME NEW p \in I!Purposes, NEW x \in Boxes, I!Forget(p, x)
        PROVE  <1>1!1 /\ <1>1!2
    BY <2>1, CodeForgotten
  <2>2. ASSUME UNCHANGED sent PROVE <1>1!1 /\ <1>1!2
    BY <2>2 DEF SignInInv, CodesTypes
  <2>3. UNCHANGED sent \/ \E p \in I!Purposes, x \in Boxes : I!Forget(p, x)
    BY DEF SignInInv, CodesTypes, I!MailSent, I!MailFails, I!CodeExpires, I!TooManyTries,
           I!RegistrationFails, I!Purposes
  <2> QED BY <2>1, <2>2, <2>3
<1>2. sending' \subseteq sending
  BY DEF I!MailSent, I!MailFails, I!CodeExpires, I!TooManyTries, I!RegistrationFails
<1>3. known' \subseteq DOMAIN entered
  BY DEF SignInInv, CodesTypes, I!MailSent, I!MailFails, I!CodeExpires, I!TooManyTries, I!RegistrationFails
<1>4. ClockTypes' /\ CodesTypes'
  BY <1>1, <1>2, <1>3 DEF SignInInv, ClockTypes, CodesTypes
<1>5. StoredInv'
  BY <1>1 DEF SignInInv, StoredInv
<1>6. EnteredInv' /\ LoginInv'
  BY DEF SignInInv, EnteredInv, LoginInv
<1> QED BY <1>4, <1>5, <1>6, BudgetsStand DEF SignInInv

\* A code is entered: the entry is charged, or it lets in and the code is gone.
LEMMA EntryStep ==
  ASSUME SignInInv, NEW p \in I!Purposes, NEW x \in Boxes,
         I!WrongEntry(p, x) \/ I!RightEntry(p, x) \/ (p = "forgot" /\ I!RefusedReset(x))
  PROVE  SignInInv'
<1> DEFINE k == sent[p][x].code
<1>1. /\ sent[p][x] # None /\ sent[p][x].attempts < Entries
      /\ UNCHANGED <<now, sending, known, budget, times, spent, mailed, logins, ends>>
      /\ registered' \subseteq registered \cup {x}
  BY DEF I!WrongEntry, I!RightEntry, I!RefusedReset, I!Entry, I!Stored, I!historyVars
<1>2. sent \in [I!Purposes -> [Boxes -> {None} \cup StoredCode]] /\ entered \in Seq(Tally)
  BY DEF SignInInv, CodesTypes
<1>3. /\ k \in DOMAIN entered /\ sent[p][x] \in StoredCode
      /\ entered[k] \in Tally
      /\ entered[k].wrong <= sent[p][x].attempts /\ entered[k].changed = 0
  BY <1>1, <1>2 DEF SignInInv, StoredInv
<1>4. PICK e \in Tally : /\ entered' = [entered EXCEPT ![k] = e]
                         /\ e.wrong <= sent[p][x].attempts + 1 /\ e.changed <= 1
                         /\ I!RightEntry(p, x) \/ e.changed = 0
  <2>1. CASE I!WrongEntry(p, x)
    <3>1. entered' = [entered EXCEPT ![k].wrong = @ + 1]
      BY <2>1 DEF I!WrongEntry, I!Stored
    <3>2. PICK e : e = [entered[k] EXCEPT !.wrong = @ + 1]
      OBVIOUS
    <3>3. e \in Tally /\ e.wrong = entered[k].wrong + 1 /\ e.changed = entered[k].changed
      BY <1>3, <3>2 DEF Tally
    <3>4. entered' = [entered EXCEPT ![k] = e]
      BY <3>1, <3>2
    <3>5. e.wrong <= sent[p][x].attempts + 1 /\ e.changed = 0 /\ e.changed <= 1
      BY <1>3, <3>3 DEF Tally, StoredCode
    <3> QED BY <3>3, <3>4, <3>5, Zenon
  <2>2. CASE I!RightEntry(p, x)
    <3>1. entered' = [entered EXCEPT ![k].changed = @ + 1]
      BY <2>2 DEF I!RightEntry, I!Stored
    <3>2. PICK e : e = [entered[k] EXCEPT !.changed = @ + 1]
      OBVIOUS
    <3>3. e \in Tally /\ e.wrong = entered[k].wrong /\ e.changed = 1
      BY <1>3, <3>2 DEF Tally
    <3>4. entered' = [entered EXCEPT ![k] = e]
      BY <3>1, <3>2
    <3>5. e.wrong <= sent[p][x].attempts + 1 /\ e.changed <= 1
      BY <1>3, <3>3 DEF Tally, StoredCode
    <3> QED BY <2>2, <3>3, <3>4, <3>5, Zenon
  <2>3. CASE I!RefusedReset(x)
    <3>1. entered' = entered
      BY <2>3 DEF I!RefusedReset, I!historyVars
    <3>2. entered' = [entered EXCEPT ![k] = entered[k]]
      BY <1>2, <3>1
    <3>3. /\ entered[k] \in Tally /\ entered[k].changed = 0
          /\ entered[k].wrong <= sent[p][x].attempts + 1 /\ entered[k].changed <= 1
      BY <1>3 DEF Tally, StoredCode
    <3> QED BY <3>2, <3>3, Zenon
  <2> QED BY <2>1, <2>2, <2>3
<1>5. /\ entered' \in Seq(Tally) /\ DOMAIN entered' = DOMAIN entered
      /\ entered'[k] = e /\ \A c \in DOMAIN entered : c # k => entered'[c] = entered[c]
  BY <1>2, <1>3, <1>4
<1>6. /\ sent' \in [I!Purposes -> [Boxes -> {None} \cup StoredCode]]
      /\ \A q \in I!Purposes, y \in Boxes : q # p \/ y # x => sent'[q][y] = sent[q][y]
      /\ sent'[p][x] # None =>
           /\ e.changed = 0 /\ sent'[p][x].code = k /\ sent'[p][x].at = sent[p][x].at
           /\ sent'[p][x].attempts = sent[p][x].attempts + 1
  <2>1. CASE I!RightEntry(p, x)
    BY <2>1, CodeForgotten DEF I!RightEntry
  <2>2. CASE ~I!RightEntry(p, x)
    <3>1. sent' = [sent EXCEPT ![p][x].attempts = @ + 1]
      BY <2>2 DEF I!WrongEntry, I!RefusedReset
    <3>2. PICK s : s = [sent[p][x] EXCEPT !.attempts = @ + 1]
      OBVIOUS
    <3>3. /\ s \in StoredCode
          /\ s.code = k /\ s.at = sent[p][x].at /\ s.attempts = sent[p][x].attempts + 1
      BY <1>3, <3>2 DEF StoredCode
    <3>4. sent' = [sent EXCEPT ![p] = [sent[p] EXCEPT ![x] = s]]
      BY <3>1, <3>2
    <3> QED BY <1>2, <1>4, <2>2, <3>3, <3>4
  <2> QED BY <2>1, <2>2
<1>7. ClockTypes' /\ CodesTypes'
  BY <1>1, <1>5, <1>6 DEF SignInInv, ClockTypes, CodesTypes
<1>8. StoredInv'
  <2>1. \A q \in I!Purposes, y \in Boxes : (q # p \/ y # x) /\ sent[q][y] # None => sent[q][y].code # k
    BY <1>1 DEF SignInInv, StoredInv
  <2>2. ASSUME NEW q \in I!Purposes, NEW y \in Boxes, sent'[q][y] # None
        PROVE  /\ sent'[q][y].code \in DOMAIN entered' /\ sent'[q][y].at <= now'
               /\ sent'[q][y].attempts <= Entries
               /\ entered'[sent'[q][y].code].wrong <= sent'[q][y].attempts
               /\ entered'[sent'[q][y].code].changed = 0
               /\ sent[q][y] # None /\ sent'[q][y].code = sent[q][y].code
    <3>1. CASE q # p \/ y # x
      BY <1>1, <1>5, <1>6, <2>1, <2>2, <3>1 DEF SignInInv, StoredInv
    <3>2. CASE q = p /\ y = x
      <4>1. /\ e.changed = 0 /\ sent'[p][x].code = k /\ sent'[p][x].at = sent[p][x].at
            /\ sent'[p][x].attempts = sent[p][x].attempts + 1 /\ entered'[k] = e
        BY <1>5, <1>6, <2>2, <3>2
      <4>2. sent[p][x].at <= now /\ sent[p][x].attempts + 1 <= Entries
        BY <1>1, <1>3, SignInLimits DEF SignInInv, StoredInv, StoredCode
      <4> QED BY <1>1, <1>3, <1>4, <1>5, <3>2, <4>1, <4>2
    <3> QED BY <3>1, <3>2
  <2>3. \A q, r \in I!Purposes, y, z \in Boxes :
          sent'[q][y] # None /\ sent'[r][z] # None /\ sent'[q][y].code = sent'[r][z].code
            => q = r /\ y = z
    BY <2>2 DEF SignInInv, StoredInv
  <2> QED BY <2>2, <2>3 DEF StoredInv
<1>9. EnteredInv'
  <2>1. e.changed <= 1 /\ e.wrong <= Entries
    BY <1>1, <1>3, <1>4, SignInLimits DEF StoredCode, Tally
  <2> QED BY <1>5, <2>1 DEF SignInInv, EnteredInv
<1>10. LoginInv'
  BY <1>1 DEF SignInInv, LoginInv
<1> QED BY <1>1, <1>5, <1>7, <1>8, <1>9, <1>10, BudgetsStand DEF SignInInv

LEMMA TempLoginStep == ASSUME SignInInv, I!TempLogin PROVE SignInInv'
<1>1. /\ spent # None => now - spent > TokenTtl
      /\ spent' = now /\ logins' = Append(logins, now)
      /\ UNCHANGED <<now, registered, sent, sending, known, budget, times, mailed, entered, ends>>
  BY DEF I!TempLogin
<1>2. ClockTypes /\ CodesTypes /\ now \in Nat /\ logins \in Seq(Nat)
  BY DEF SignInInv, ClockTypes, CodesTypes
<1>3. ClockTypes' /\ CodesTypes'
  BY <1>1, <1>2 DEF ClockTypes, CodesTypes
<1>4. StoredInv' /\ EnteredInv'
  BY <1>1 DEF SignInInv, StoredInv, EnteredInv
<1>5. /\ DOMAIN logins' = 1..(Len(logins) + 1) /\ DOMAIN logins = 1..Len(logins)
      /\ Len(logins) \in Nat
      /\ logins'[Len(logins) + 1] = now
      /\ \A i \in DOMAIN logins : logins'[i] = logins[i] /\ logins[i] \in Nat
  BY <1>1, <1>2
<1>6. ASSUME NEW i \in DOMAIN logins PROVE now - logins[i] > TokenTtl
  <2>1. spent # None /\ logins[i] <= spent /\ now - spent > TokenTtl
    BY <1>1, <1>6 DEF SignInInv, LoginInv
  <2>2. spent \in Nat /\ TokenTtl \in Nat /\ logins[i] \in Nat
    BY <1>2, <1>5, <2>1, SignInLimits DEF ClockTypes
  <2> QED BY <1>2, <2>1, <2>2
<1>7. LoginInv'
  <2>1. spent' # None /\ spent' <= now'
    BY <1>1, <1>2, SignInLimits
  <2>2. ASSUME NEW i \in DOMAIN logins' PROVE logins'[i] <= spent'
    <3>1. CASE i \in DOMAIN logins
      BY <1>1, <1>2, <1>5, <1>6, <3>1, SignInLimits
    <3>2. CASE i = Len(logins) + 1
      BY <1>1, <1>2, <1>5, <3>2
    <3> QED BY <1>5, <3>1, <3>2
  <2>3. ASSUME NEW i \in DOMAIN logins', NEW j \in DOMAIN logins', i < j
        PROVE  logins'[j] - logins'[i] > TokenTtl
    <3>1. i \in DOMAIN logins
      BY <1>5, <2>3
    <3>2. CASE j \in DOMAIN logins
      BY <1>5, <2>3, <3>1, <3>2 DEF SignInInv, LoginInv
    <3>3. CASE j = Len(logins) + 1
      BY <1>5, <1>6, <3>1, <3>3
    <3> QED BY <1>5, <3>2, <3>3
  <2> QED BY <2>1, <2>2, <2>3 DEF LoginInv
<1> QED BY <1>1, <1>3, <1>4, <1>7, BudgetsStand DEF SignInInv

\* Time passes: what is of an hour that ends later was of the one before.
LEMMA ClockStep == ASSUME SignInInv, I!Tick PROVE SignInInv'
<1>1. /\ now < MaxTime /\ now' = now + 1
      /\ UNCHANGED <<registered, sent, sending, known, budget, times, spent, mailed, entered, logins, ends>>
  BY DEF I!Tick, I!historyVars
<1>2. now \in Nat /\ now' \in Nat /\ now < now' /\ now' <= MaxTime
  BY <1>1, SignInLimits DEF SignInInv, ClockTypes
<1>3. ClockTypes' /\ CodesTypes'
  BY <1>1, <1>2 DEF SignInInv, ClockTypes, CodesTypes
<1>4. BudgetTypes'
  <2>1. budget.start \in Nat /\ budget.start <= now
    BY DEF SignInInv, BudgetTypes
  <2>2. budget.start <= now'
    BY <1>2, <2>1
  <2> QED BY <1>1, <2>2 DEF SignInInv, BudgetTypes
<1>5. StoredInv'
  <2>1. ASSUME NEW p \in I!Purposes, NEW x \in Boxes, sent[p][x] # None
        PROVE  sent[p][x].at <= now'
    <3>1. sent[p][x].at \in Nat
      BY <2>1 DEF SignInInv, CodesTypes, StoredCode
    <3> QED BY <1>2, <2>1, <3>1 DEF SignInInv, StoredInv
  <2> QED BY <1>1, <2>1 DEF SignInInv, StoredInv
<1>6. EnteredInv'
  BY <1>1 DEF SignInInv, EnteredInv
<1>7. LoginInv'
  <2>1. spent # None => spent \in Nat /\ spent <= now'
    BY <1>2 DEF SignInInv, ClockTypes, LoginInv
  <2> QED BY <1>1, <2>1 DEF SignInInv, LoginInv
<1>8. \A m \in mailed : m.at \in Nat /\ m.at <= now
  BY DEF SignInInv, BudgetTypes, ListInv
<1>9. ListInv'
  <2>1. ASSUME NEW m \in mailed PROVE m.at <= now' /\ (now' - m.at < Hour => now - m.at < Hour)
    <3>1. m.at \in Nat /\ m.at <= now
      BY <1>8
    <3> QED BY <1>1, <1>2, <3>1, SignInLimits
  <2> QED BY <1>1, <2>1 DEF SignInInv, ListInv
<1>10. HourInv'
  <2> SUFFICES ASSUME NEW x \in Boxes, NEW t \in 0..now'
               PROVE  Cardinality(ToInHour(x, t)') <= RecipientLimit
    BY DEF HourInv
  <2>1. ToInHour(x, t)' = ToInHour(x, t)
    BY <1>1 DEF ToInHour
  <2>2. CASE t \in 0..now
    BY <2>1, <2>2 DEF SignInInv, HourInv
  <2>3. CASE t = now + 1
    <3>1. ToInHour(x, t) \subseteq ToInHour(x, now)
      <4> SUFFICES ASSUME NEW m \in mailed, m.to = x, t - Hour < m.at
                   PROVE  now - Hour < m.at /\ m.at <= now
        BY DEF ToInHour
      <4>1. m.at \in Nat /\ m.at <= now
        BY <1>8
      <4> QED BY <1>2, <2>3, <4>1, SignInLimits
    <3>2. IsFiniteSet(ToInHour(x, now))
      BY FS_Subset DEF ToInHour, SignInInv, BudgetTypes
    <3>3. /\ Cardinality(ToInHour(x, t)) <= Cardinality(ToInHour(x, now))
          /\ IsFiniteSet(ToInHour(x, t))
      BY <3>1, <3>2, FS_Subset
    <3>4. Cardinality(ToInHour(x, now)) <= RecipientLimit
      BY <1>2 DEF SignInInv, HourInv
    <3>5. Cardinality(ToInHour(x, now)) \in Nat /\ Cardinality(ToInHour(x, t)) \in Nat
      BY <3>2, <3>3, FS_CardinalityType
    <3> QED BY <2>1, <3>3, <3>4, <3>5, SignInLimits
  <2> QED BY <1>1, <1>2, <2>2, <2>3
<1>11. WindowInv' /\ PastInv'
  <2>1. InWindow' = InWindow
    BY <1>1 DEF InWindow
  <2> QED BY <1>1, <2>1 DEF SignInInv, WindowInv, PastInv
<1> QED BY <1>3, <1>4, <1>5, <1>6, <1>7, <1>9, <1>10, <1>11 DEF SignInInv

LEMMA EndStep == ASSUME SignInInv, I!Restart PROVE SignInInv'
<1>1. /\ ends < MaxRestarts /\ ends' = ends + 1
      /\ sent' = [p \in I!Purposes |-> [x \in Boxes |-> None]]
      /\ sending' = {} /\ budget' = [start |-> now, count |-> 0]
      /\ times' = [x \in Boxes |-> {}]
      /\ spent' = None /\ mailed' = {} /\ logins' = <<>>
      /\ UNCHANGED <<now, registered, known, entered>>
  BY DEF I!Restart
<1>2. IsFiniteSet({}) /\ Cardinality({}) = 0
  BY FS_EmptySet
<1>3. ClockTypes'
  <2>1. ends' \in Nat /\ ends' <= MaxRestarts
    BY <1>1, SignInLimits DEF SignInInv, ClockTypes
  <2> QED BY <1>1, <2>1 DEF SignInInv, ClockTypes
<1>4. CodesTypes'
  BY <1>1 DEF SignInInv, CodesTypes
<1>5. BudgetTypes'
  <2>1. now \in Nat
    BY DEF SignInInv, ClockTypes
  <2>2. budget' \in [start : Nat, count : Nat] /\ budget'.start <= now' /\ budget'.count <= GlobalLimit
    BY <1>1, <2>1, SignInLimits
  <2> QED BY <1>1, <1>2, <2>2 DEF BudgetTypes
<1>6. StoredInv' /\ EnteredInv' /\ LoginInv'
  BY <1>1 DEF SignInInv, StoredInv, EnteredInv, LoginInv
<1>7. ListInv'
  BY <1>1 DEF ListInv
<1>8. InWindow' = {} /\ \A x, t : ToInHour(x, t)' = {}
  BY <1>1 DEF InWindow, ToInHour
<1>9. HourInv' /\ WindowInv' /\ PastInv'
  <2>1. 0 <= RecipientLimit /\ budget'.count = 0
    BY <1>1, SignInLimits
  <2>2. PastInv'
    BY <1>1 DEF PastInv
  <2>3. HourInv' /\ WindowInv'
    BY <1>2, <1>8, <2>1 DEF HourInv, WindowInv
  <2> QED BY <2>2, <2>3
<1> QED BY <1>3, <1>4, <1>5, <1>6, <1>7, <1>9 DEF SignInInv

\* A mail that was asked for is charged to a window that holds those before it.
LEMMA Charged ==
  ASSUME SignInInv, I!Window.count < GlobalLimit, budget' = [I!Window EXCEPT !.count = @ + 1]
  PROVE  /\ budget' \in [start : Nat, count : Nat] /\ budget'.start <= now
         /\ budget'.count <= GlobalLimit
         /\ Cardinality({m \in mailed : m.at >= budget'.start}) + 1 <= budget'.count
         /\ now <= budget'.start + Hour
<1>1. /\ now \in Nat /\ budget \in [start : Nat, count : Nat] /\ budget.start <= now
      /\ IsFiniteSet(mailed) /\ \A m \in mailed : m.at \in Nat /\ m.at <= now
  BY DEF SignInInv, ClockTypes, BudgetTypes, ListInv
<1>2. PICK w : /\ w = I!Window /\ w \in [start : Nat, count : Nat] /\ w.start <= now
               /\ \/ w = [start |-> now, count |-> 0] /\ now - budget.start > Hour
                  \/ w = budget /\ now - budget.start <= Hour
  BY <1>1, SignInLimits DEF I!Window
<1>3. budget' = [w EXCEPT !.count = @ + 1] /\ w.count < GlobalLimit
  BY <1>2
<1>4. /\ budget' \in [start : Nat, count : Nat]
      /\ budget'.start = w.start /\ budget'.count = w.count + 1
  BY <1>2, <1>3
<1>5. budget'.start <= now /\ budget'.count <= GlobalLimit
  BY <1>2, <1>3, <1>4, SignInLimits
<1>6. PICK A : /\ A = {m \in mailed : m.at >= w.start} /\ A \subseteq mailed
  OBVIOUS
<1>7. Cardinality(A) \in Nat
  BY <1>1, <1>6, FS_Subset, FS_CardinalityType
<1>8. Cardinality(A) <= w.count
  <2>1. CASE w = budget
    BY <1>6, <2>1 DEF SignInInv, WindowInv, InWindow
  <2>2. CASE w = [start |-> now, count |-> 0] /\ now - budget.start > Hour
    <3>1. \A m \in mailed : ~(m.at >= w.start)
      <4> SUFFICES ASSUME NEW m \in mailed PROVE ~(m.at >= w.start)
        OBVIOUS
      <4>1. m.at \in Nat /\ m.at <= budget.start + Hour /\ w.start = now
        BY <1>1, <2>2 DEF SignInInv, PastInv
      <4> QED BY <1>1, <2>2, <4>1, SignInLimits
    <3>2. A = {}
      BY <1>6, <3>1
    <3>3. Cardinality(A) = 0 /\ w.count = 0
      BY <2>2, <3>2, FS_EmptySet
    <3> QED BY <3>3
  <2> QED BY <1>2, <2>1, <2>2
<1>9. Cardinality(A) + 1 <= budget'.count
  BY <1>2, <1>4, <1>7, <1>8
<1>10. now <= budget'.start + Hour
  BY <1>1, <1>2, <1>4, SignInLimits
<1> QED BY <1>4, <1>5, <1>6, <1>9, <1>10

LEMMA RefusalStep ==
  ASSUME SignInInv, NEW p \in I!Purposes, NEW x \in Boxes, I!SendRefused(p, x)
  PROVE  SignInInv'
<1>1. /\ I!Window.count < GlobalLimit /\ budget' = [I!Window EXCEPT !.count = @ + 1]
      /\ UNCHANGED <<now, registered, sent, sending, known, times, spent, mailed, entered, logins, ends>>
  BY DEF I!SendRefused, I!historyVars
<1>2. /\ budget' \in [start : Nat, count : Nat] /\ budget'.start <= now
      /\ budget'.count <= GlobalLimit
      /\ Cardinality({m \in mailed : m.at >= budget'.start}) + 1 <= budget'.count
      /\ now <= budget'.start + Hour
  BY <1>1, Charged
<1>3. ClockTypes' /\ CodesTypes' /\ BudgetTypes'
  BY <1>1, <1>2 DEF SignInInv, ClockTypes, CodesTypes, BudgetTypes
<1>4. StoredInv' /\ EnteredInv' /\ LoginInv' /\ ListInv'
  BY <1>1 DEF SignInInv, StoredInv, EnteredInv, LoginInv, ListInv
<1>5. HourInv'
  <2>1. \A y, t : ToInHour(y, t)' = ToInHour(y, t)
    BY <1>1 DEF ToInHour
  <2> QED BY <1>1, <2>1 DEF SignInInv, HourInv
<1>6. WindowInv'
  <2>1. PICK A : A = {m \in mailed : m.at >= budget'.start}
    OBVIOUS
  <2>2. InWindow' = A
    BY <1>1, <2>1 DEF InWindow
  <2>3. Cardinality(A) \in Nat
    <3>1. IsFiniteSet(mailed)
      BY DEF SignInInv, BudgetTypes
    <3> QED BY <2>1, <3>1, FS_Subset, FS_CardinalityType
  <2>4. Cardinality(A) <= budget'.count
    <3>1. Cardinality(A) + 1 <= budget'.count /\ budget'.count \in Nat
      BY <1>2, <2>1
    <3> QED BY <2>3, <3>1
  <2> QED BY <2>2, <2>4 DEF WindowInv
<1>7. PastInv'
  <2> SUFFICES ASSUME NEW m \in mailed PROVE m.at <= budget'.start + Hour
    BY <1>1 DEF PastInv
  <2>1. m.at \in Nat /\ m.at <= now /\ now \in Nat
    BY DEF SignInInv, ClockTypes, BudgetTypes, ListInv
  <2> QED BY <1>2, <2>1, SignInLimits
<1> QED BY <1>3, <1>4, <1>5, <1>6, <1>7 DEF SignInInv

\* The list of an address counts what it was sent in the last hour.
LEMMA Counted ==
  ASSUME SignInInv, NEW x \in Boxes
  PROVE  /\ IsFiniteSet(ToInHour(x, now)) /\ IsFiniteSet(I!Recent(x))
         /\ Cardinality(ToInHour(x, now)) <= Cardinality(I!Recent(x))
<1>1. IsFiniteSet(I!Recent(x)) /\ IsFiniteSet(ToInHour(x, now))
  BY FS_Subset DEF SignInInv, BudgetTypes, I!Recent, ToInHour
<1>2. PICK A, B : A = ToInHour(x, now) /\ B = I!Recent(x)
  OBVIOUS
<1>3. PICK f : f = [m \in A |-> [code |-> m.code, at |-> m.at]]
  OBVIOUS
<1>4. ASSUME NEW m \in A PROVE f[m] \in B
  <2>1. m \in mailed /\ m.to = x /\ now - Hour < m.at
    BY <1>2 DEF ToInHour
  <2>2. m.at \in Nat /\ now \in Nat
    BY <2>1 DEF SignInInv, ClockTypes, BudgetTypes
  <2>3. now - m.at < Hour
    BY <2>1, <2>2, SignInLimits
  <2>4. f[m] \in times[x] /\ f[m].at = m.at
    BY <1>3, <2>1, <2>3 DEF SignInInv, ListInv
  <2> QED BY <1>2, <2>3, <2>4 DEF I!Recent
<1>5. ASSUME NEW m \in A, NEW n \in A, f[m] = f[n] PROVE m = n
  <2>1. m.code = n.code
    BY <1>3, <1>5
  <2>2. m \in mailed /\ n \in mailed
    BY <1>2 DEF ToInHour
  <2> QED BY <2>1, <2>2 DEF SignInInv, ListInv
<1>6. f \in Injection(A, B)
  <2>1. f \in [A -> B] /\ \A m, n \in A : f[m] = f[n] => m = n
    BY <1>3, <1>4, <1>5
  <2> QED BY <2>1 DEF Injection, IsInjective
<1>7. Cardinality(A) <= Cardinality(B)
  BY <1>1, <1>2, <1>6, FS_Injection
<1> QED BY <1>1, <1>2, <1>7

LEMMA SendStep ==
  ASSUME SignInInv, NEW p \in I!Purposes, NEW x \in Boxes, I!Send(p, x)
  PROVE  SignInInv'
<1>1. PICK c, m, e : /\ c = Len(entered) + 1
                     /\ m = [p |-> p, to |-> x, code |-> c, at |-> now]
                     /\ e = [wrong |-> 0, changed |-> 0]
  OBVIOUS
<1>2. /\ I!Window.count < GlobalLimit /\ budget' = [I!Window EXCEPT !.count = @ + 1]
      /\ Cardinality(I!Recent(x)) < RecipientLimit
      /\ entered' = Append(entered, e)
      /\ sent' = [sent EXCEPT ![p][x] = [code |-> c, at |-> now, attempts |-> 0]]
      /\ sending' = sending \cup {[p |-> p, to |-> x, code |-> c]}
      /\ mailed' = mailed \cup {m}
      /\ times' = [times EXCEPT ![x] = I!Recent(x) \cup {[code |-> c, at |-> now]}]
      /\ UNCHANGED <<now, registered, known, spent, logins, ends>>
  BY <1>1, SameCountOfMails DEF I!Send
<1>3. /\ entered \in Seq(Tally) /\ now \in Nat /\ now <= MaxTime
      /\ sent \in [I!Purposes -> [Boxes -> {None} \cup StoredCode]]
      /\ times \in [Boxes -> SUBSET [code : Nat, at : Nat]]
      /\ IsFiniteSet(mailed)
      /\ mailed \subseteq [p : I!Purposes, to : Boxes, code : Nat, at : Nat]
  BY DEF SignInInv, ClockTypes, CodesTypes, BudgetTypes
<1>4. /\ entered' \in Seq(Tally) /\ c \in Nat /\ c > 0
      /\ DOMAIN entered = 1..(c - 1) /\ DOMAIN entered' = 1..c
      /\ entered'[c] = e /\ \A d \in DOMAIN entered : entered'[d] = entered[d]
  <2>1. e \in Tally
    BY <1>1 DEF Tally
  <2> QED BY <1>1, <1>2, <1>3, <2>1
<1>5. /\ c \in DOMAIN entered' /\ c \notin DOMAIN entered
      /\ DOMAIN entered \subseteq DOMAIN entered'
  BY <1>4
<1>6. PICK s \in StoredCode : /\ s.code = c /\ s.at = now /\ s.attempts = 0
                              /\ sent' = [sent EXCEPT ![p] = [sent[p] EXCEPT ![x] = s]]
  <2>1. [code |-> c, at |-> now, attempts |-> 0] \in StoredCode
    BY <1>3, <1>4 DEF StoredCode
  <2> QED BY <1>2, <2>1
<1>7. /\ sent' \in [I!Purposes -> [Boxes -> {None} \cup StoredCode]]
      /\ sent'[p][x] = s
      /\ \A q \in I!Purposes, y \in Boxes : q # p \/ y # x => sent'[q][y] = sent[q][y]
  BY <1>3, <1>6
<1>8. ClockTypes'
  BY <1>2 DEF SignInInv, ClockTypes
<1>9. CodesTypes'
  <2>1. \A n \in sending' : n.p \in I!Purposes /\ n.to \in Boxes /\ n.code \in DOMAIN entered'
    BY <1>2, <1>5 DEF SignInInv, CodesTypes
  <2> QED BY <1>2, <1>4, <1>5, <1>7, <2>1 DEF SignInInv, CodesTypes
<1>10. /\ budget' \in [start : Nat, count : Nat] /\ budget'.start <= now
       /\ budget'.count <= GlobalLimit
       /\ Cardinality({n \in mailed : n.at >= budget'.start}) + 1 <= budget'.count
       /\ now <= budget'.start + Hour
  BY <1>2, Charged
<1>11. /\ m.p = p /\ m.to = x /\ m.code = c /\ m.at = now
       /\ m \in [p : I!Purposes, to : Boxes, code : Nat, at : Nat]
  BY <1>1, <1>3, <1>4
<1>12. BudgetTypes'
  <2>1. /\ I!Recent(x) \subseteq [code : Nat, at : Nat] /\ IsFiniteSet(I!Recent(x))
    BY <1>3, Counted DEF I!Recent
  <2>2. /\ [code |-> c, at |-> now] \in [code : Nat, at : Nat]
        /\ IsFiniteSet(I!Recent(x) \cup {[code |-> c, at |-> now]})
    BY <1>3, <1>4, <2>1, FS_AddElement
  <2>3. times' \in [Boxes -> SUBSET [code : Nat, at : Nat]] /\ \A y \in Boxes : IsFiniteSet(times'[y])
    BY <1>2, <1>3, <2>1, <2>2 DEF SignInInv, BudgetTypes
  <2>4. IsFiniteSet(mailed')
    BY <1>2, <1>3, FS_AddElement
  <2> QED BY <1>2, <1>3, <1>10, <1>11, <2>3, <2>4 DEF BudgetTypes
<1>13. StoredInv'
  <2>1. ASSUME NEW q \in I!Purposes, NEW y \in Boxes, sent'[q][y] # None
        PROVE  /\ sent'[q][y].code \in DOMAIN entered' /\ sent'[q][y].at <= now'
               /\ sent'[q][y].attempts <= Entries
               /\ entered'[sent'[q][y].code].wrong <= sent'[q][y].attempts
               /\ entered'[sent'[q][y].code].changed = 0
               /\ q # p \/ y # x => sent[q][y] # None /\ sent'[q][y] = sent[q][y]
                                     /\ sent'[q][y].code \in DOMAIN entered
    <3>1. CASE q # p \/ y # x
      <4>1. sent'[q][y] = sent[q][y] /\ sent[q][y] # None
        BY <1>7, <2>1, <3>1
      <4> QED BY <1>2, <1>4, <1>5, <4>1 DEF SignInInv, StoredInv
    <3>2. CASE q = p /\ y = x
      <4>1. sent'[q][y] = s /\ entered'[c].wrong = 0 /\ entered'[c].changed = 0
        BY <1>1, <1>4, <1>7, <3>2
      <4>2. s.at <= now' /\ s.attempts <= Entries
        BY <1>2, <1>3, <1>6, SignInLimits
      <4> QED BY <1>5, <1>6, <3>2, <4>1, <4>2
    <3> QED BY <3>1, <3>2
  <2>2. ASSUME NEW q \in I!Purposes, NEW r \in I!Purposes, NEW y \in Boxes, NEW z \in Boxes,
               sent'[q][y] # None, sent'[r][z] # None, sent'[q][y].code = sent'[r][z].code
        PROVE  q = r /\ y = z
    <3>1. CASE (q # p \/ y # x) /\ (r # p \/ z # x)
      BY <2>1, <2>2, <3>1 DEF SignInInv, StoredInv
    <3>2. CASE (q = p /\ y = x) /\ (r = p /\ z = x)
      BY <3>2
    <3>3. CASE (q = p /\ y = x) /\ (r # p \/ z # x)
      BY <1>5, <1>6, <1>7, <2>1, <2>2, <3>3
    <3>4. CASE (q # p \/ y # x) /\ (r = p /\ z = x)
      BY <1>5, <1>6, <1>7, <2>1, <2>2, <3>4
    <3> QED BY <3>1, <3>2, <3>3, <3>4
  <2> QED BY <2>1, <2>2 DEF StoredInv
<1>14. EnteredInv'
  <2>1. entered'[c].changed = 0 /\ entered'[c].wrong = 0 /\ 0 <= Entries
    BY <1>1, <1>4, SignInLimits
  <2>2. ASSUME NEW d \in DOMAIN entered' PROVE entered'[d].changed <= 1 /\ entered'[d].wrong <= Entries
    <3>1. CASE d = c
      BY <2>1, <3>1
    <3>2. CASE d \in DOMAIN entered
      BY <1>4, <3>2 DEF SignInInv, EnteredInv
    <3> QED BY <1>4, <3>1, <3>2
  <2> QED BY <2>2 DEF EnteredInv
<1>15. LoginInv'
  BY <1>2 DEF SignInInv, LoginInv
<1>16. \A n \in mailed : n.code \in DOMAIN entered /\ n.at \in Nat /\ n.at <= now
  BY <1>3 DEF SignInInv, ListInv
<1>17. ListInv'
  <2>1. \A n \in mailed' : n = m \/ n \in mailed
    BY <1>2
  <2>2. \A n \in mailed' : n.code \in DOMAIN entered' /\ n.at <= now'
    BY <1>2, <1>3, <1>5, <1>11, <1>16, <2>1
  <2>3. \A n, o \in mailed' : n.code = o.code => n = o
    BY <1>5, <1>11, <1>16, <2>1 DEF SignInInv, ListInv
  <2>4. ASSUME NEW n \in mailed', now' - n.at < Hour
        PROVE  [code |-> n.code, at |-> n.at] \in times'[n.to]
    <3>1. CASE n = m
      BY <1>2, <1>3, <1>11, <3>1
    <3>2. CASE n \in mailed
      <4>1. [code |-> n.code, at |-> n.at] \in times[n.to] /\ n.to \in Boxes /\ now - n.at < Hour
        BY <1>2, <1>3, <2>4, <3>2 DEF SignInInv, ListInv
      <4>2. CASE n.to = x
        <5>1. [code |-> n.code, at |-> n.at] \in I!Recent(x)
          BY <4>1, <4>2 DEF I!Recent
        <5> QED BY <1>2, <1>3, <4>2, <5>1
      <4>3. CASE n.to # x
        BY <1>2, <1>3, <4>1, <4>3
      <4> QED BY <4>2, <4>3
    <3> QED BY <2>1, <3>1, <3>2
  <2> QED BY <2>2, <2>3, <2>4 DEF ListInv
<1>18. HourInv'
  <2> SUFFICES ASSUME NEW y \in Boxes, NEW t \in 0..now
               PROVE  Cardinality(ToInHour(y, t)') <= RecipientLimit
    BY <1>2 DEF HourInv
  <2>1. CASE y # x \/ t # now
    <3>1. ~(m.to = y /\ m.at <= t)
      BY <1>3, <1>11, <2>1
    <3>2. ToInHour(y, t)' = ToInHour(y, t)
      BY <1>2, <3>1 DEF ToInHour
    <3> QED BY <3>2 DEF SignInInv, HourInv
  <2>2. CASE y = x /\ t = now
    <3>1. now - Hour < now
      BY <1>3, SignInLimits
    <3>2. ToInHour(y, t)' = ToInHour(x, now) \cup {m}
      BY <1>2, <1>3, <1>11, <2>2, <3>1 DEF ToInHour
    <3>3. /\ IsFiniteSet(ToInHour(x, now)) /\ IsFiniteSet(I!Recent(x))
          /\ Cardinality(ToInHour(x, now)) <= Cardinality(I!Recent(x))
      BY Counted
    <3>4. /\ Cardinality(ToInHour(x, now)) \in Nat /\ Cardinality(I!Recent(x)) \in Nat
          /\ Cardinality(ToInHour(x, now) \cup {m}) \in Nat
          /\ Cardinality(ToInHour(x, now) \cup {m}) <= Cardinality(ToInHour(x, now)) + 1
      BY <3>3, OneMore
    <3>5. Cardinality(ToInHour(x, now) \cup {m}) <= RecipientLimit
      BY <1>2, <3>3, <3>4, SignInLimits
    <3> QED BY <3>2, <3>5
  <2> QED BY <2>1, <2>2
<1>19. WindowInv'
  <2>1. PICK A : A = {n \in mailed : n.at >= budget'.start}
    OBVIOUS
  <2>2. IsFiniteSet(A)
    BY <1>3, <2>1, FS_Subset
  <2>3. InWindow' = A \/ InWindow' = A \cup {m}
    <3>1. InWindow' = {n \in mailed \cup {m} : n.at >= budget'.start}
      BY <1>2 DEF InWindow
    <3> QED BY <2>1, <3>1
  <2>4. /\ Cardinality(A) \in Nat /\ Cardinality(A \cup {m}) \in Nat
        /\ Cardinality(A \cup {m}) <= Cardinality(A) + 1
    BY <2>2, OneMore
  <2>5. Cardinality(A) + 1 <= budget'.count /\ budget'.count \in Nat
    BY <1>10, <2>1
  <2>6. Cardinality(A) <= budget'.count /\ Cardinality(A \cup {m}) <= budget'.count
    BY <2>4, <2>5
  <2> QED BY <2>3, <2>6 DEF WindowInv
<1>20. PastInv'
  <2> SUFFICES ASSUME NEW n \in mailed \cup {m} PROVE n.at <= budget'.start + Hour
    BY <1>2 DEF PastInv
  <2>1. n.at \in Nat /\ n.at <= now
    BY <1>3, <1>11 DEF SignInInv, ListInv
  <2> QED BY <1>3, <1>10, <2>1, SignInLimits
<1> QED BY <1>8, <1>9, <1>12, <1>13, <1>14, <1>15, <1>17, <1>18, <1>19, <1>20 DEF SignInInv

LEMMA SignInStep == SignInInv /\ I!Next => SignInInv'
<1> SUFFICES ASSUME SignInInv, I!Next PROVE SignInInv'
  OBVIOUS
<1>1. CASE \/ \E m \in sending : I!MailSent(m) \/ I!MailFails(m)
           \/ \E p \in I!Purposes, x \in Boxes : I!CodeExpires(p, x) \/ I!TooManyTries(p, x)
           \/ \E x \in Boxes : I!RegistrationFails(x)
  <2>1. UNCHANGED <<now, registered, budget, times, spent, mailed, entered, logins, ends>>
    BY <1>1 DEF I!MailSent, I!MailFails, I!CodeExpires, I!TooManyTries, I!RegistrationFails, I!historyVars
  <2> QED BY <1>1, <2>1, ForgetStep
<1>2. CASE \/ \E p \in I!Purposes, x \in Boxes : I!WrongEntry(p, x) \/ I!RightEntry(p, x)
           \/ \E x \in Boxes : I!RefusedReset(x)
  <2>1. "forgot" \in I!Purposes
    BY DEF I!Purposes
  <2> QED BY <1>2, <2>1, EntryStep
<1>3. CASE \E p \in I!Purposes, x \in Boxes : I!Send(p, x)
  BY <1>3, SendStep
<1>4. CASE \E p \in I!Purposes, x \in Boxes : I!SendRefused(p, x)
  BY <1>4, RefusalStep
<1>5. CASE I!Tick
  BY <1>5, ClockStep
<1>6. CASE I!TempLogin
  BY <1>6, TempLoginStep
<1>7. CASE I!Restart
  BY <1>7, EndStep
<1> QED BY <1>1, <1>2, <1>3, <1>4, <1>5, <1>6, <1>7 DEF I!Next

LEMMA SignInUnchanged == SignInInv /\ UNCHANGED signInVars => SignInInv'
<1> SUFFICES ASSUME SignInInv, UNCHANGED signInVars PROVE SignInInv'
  OBVIOUS
<1>1. UNCHANGED <<now, registered, sent, sending, known, budget, times, spent, mailed, entered, logins, ends>>
  BY DEF signInVars
<1>2. ClockTypes' /\ CodesTypes' /\ StoredInv' /\ EnteredInv' /\ LoginInv'
  BY <1>1 DEF SignInInv, ClockTypes, CodesTypes, StoredInv, EnteredInv, LoginInv
<1> QED BY <1>1, <1>2, BudgetsStand DEF SignInInv

\* Codes change one password and stand Entries wrong entries, tokens let in once,
\* and no address gets more mails in an hour than it may, whatever overlaps,
\* fails, expires or restarts (auth.js:28-57, 459-467, 588-617).
THEOREM CodesBounded == AllSpec => []CodesAreBounded
<1> DEFINE Inv == part = "signin" => SignInInv
<1>1. AllInit => Inv
  BY SignInInit DEF AllInit
<1>2. Inv /\ [AllNext]_allVars => Inv'
  <2> SUFFICES ASSUME Inv, [AllNext]_allVars, part' = "signin" PROVE SignInInv'
    OBVIOUS
  <2>1. part = "signin" /\ SignInInv /\ (I!Next \/ UNCHANGED signInVars)
    BY DEF AllNext, allVars
  <2> QED BY <2>1, SignInStep, SignInUnchanged
<1>3. Inv => CodesAreBounded
  <2> SUFFICES ASSUME SignInInv PROVE I!CodesAreBounded
    BY DEF CodesAreBounded
  <2>1. I!TypeOK
    <3>1. ASSUME NEW p \in I!Purposes, NEW x \in Boxes, I!Stored(p, x) # None
          PROVE  /\ I!Stored(p, x).code \in I!Codes /\ I!Stored(p, x).at <= now
                 /\ I!Stored(p, x).attempts \in 0..Entries
      <4>1. sent[p][x] # None /\ sent[p][x] \in StoredCode
        BY <3>1 DEF SignInInv, CodesTypes, I!Stored
      <4>2. sent[p][x].attempts \in 0..Entries
        BY <4>1, SignInLimits DEF SignInInv, StoredInv, StoredCode
      <4> QED BY <4>1, <4>2 DEF SignInInv, StoredInv, I!Stored, I!Codes
    <3>2. /\ now \in 0..MaxTime /\ ends \in 0..MaxRestarts
      BY SignInLimits DEF SignInInv, ClockTypes
    <3>3. budget.start <= now /\ budget.count \in 0..GlobalLimit
      BY SignInLimits DEF SignInInv, BudgetTypes
    <3> QED BY <3>1, <3>2, <3>3 DEF I!TypeOK, I!Codes, SignInInv, ClockTypes, CodesTypes, LoginInv
  <2>2. I!UsedOnce
    BY DEF I!UsedOnce, I!Codes, SignInInv, EnteredInv, LoginInv
  <2>3. I!MailBudget
    BY SameCountOfMails DEF I!MailBudget, SignInInv, HourInv, WindowInv, ToInHour, InWindow
  <2> QED BY <2>1, <2>2, <2>3 DEF I!CodesAreBounded
<1> QED BY <1>1, <1>2, <1>3, PTL DEF AllSpec

----------------------------------------------------------------------------
(* The migrations of a start (Schema) *)

\* The program of a start, statement by statement.
LEMMA Statements ==
  /\ Len(S!Program) = 28
  /\ S!Program[1] = S!Create("users") /\ S!Program[2] = S!Create("nodes")
  /\ S!Program[3] = S!Create("traffic")
  /\ S!Program[4] = S!Look("nodes")
  /\ S!Program[5] = S!Column("nodes", "socks5_host", "socks5_host")
  /\ S!Program[6] = S!Column("nodes", "socks5_port", "socks5_host")
  /\ S!Program[7] = S!Column("nodes", "min_level", "min_level")
  /\ S!Program[8] = S!Column("nodes", "agent_token", "agent_token")
  /\ S!Program[9] = S!Do("tokens", "nodes") /\ S!Program[10] = S!Do("names", "nodes")
  /\ S!Program[11] = S!Index("nodes", "nodes_name", "none")
  /\ S!Program[12] = S!Look("users")
  /\ S!Program[13] = S!Column("users", "telegram_id", "telegram_id")
  /\ S!Program[14] = S!Index("users", "users_telegram", "telegram_id")
  /\ S!Program[15] = S!Column("users", "oauth", "oauth")
  /\ S!Program[16] = S!Index("users", "users_oauth", "none")
  /\ S!Program[17] = S!Do("new", "users") /\ S!Program[18] = S!Do("copy", "users")
  /\ S!Program[19] = S!Do("drop", "users") /\ S!Program[20] = S!Do("rename", "users")
  /\ S!Program[21] = S!Index("users", "users_telegram", "none")
  /\ S!Program[22] = S!Look("traffic")
  /\ S!Program[23] = S!Do("new", "traffic") /\ S!Program[24] = S!Do("copy", "traffic")
  /\ S!Program[25] = S!Do("drop", "traffic") /\ S!Program[26] = S!Do("rename", "traffic")
  /\ S!Program[27] = S!Do("fill", "traffic") /\ S!Program[28] = S!Do("prune", "users")
  BY DEF S!Program, S!CreateTables, S!MigrateNodes, S!MigrateUsers, S!MigrateTraffic, S!Summarise,
         S!Rebuild

\* Which statements of which table there are of each kind
Placed(what, t) ==
  /\ what = "create" => (stmt = 1 /\ t = "users") \/ (stmt = 2 /\ t = "nodes") \/ (stmt = 3 /\ t = "traffic")
  /\ what = "look"   => (stmt = 4 /\ t = "nodes") \/ (stmt = 12 /\ t = "users") \/ (stmt = 22 /\ t = "traffic")
  /\ what = "column" => (stmt \in 5..8 /\ t = "nodes") \/ (stmt \in {13, 15} /\ t = "users")
  /\ what = "tokens" => stmt = 9 /\ t = "nodes"
  /\ what = "names"  => stmt = 10 /\ t = "nodes"
  /\ what = "index"  => (stmt = 11 /\ t = "nodes") \/ (stmt \in {14, 16, 21} /\ t = "users")
  /\ what = "new"    => (stmt = 17 /\ t = "users") \/ (stmt = 23 /\ t = "traffic")
  /\ what = "copy"   => (stmt = 18 /\ t = "users") \/ (stmt = 24 /\ t = "traffic")
  /\ what = "drop"   => (stmt = 19 /\ t = "users") \/ (stmt = 25 /\ t = "traffic")
  /\ what = "rename" => (stmt = 20 /\ t = "users") \/ (stmt = 26 /\ t = "traffic")
  /\ what = "fill"   => stmt = 27 /\ t = "traffic"
  /\ what = "prune"  => stmt = 28 /\ t = "users"

LEMMA Place ==
  ASSUME NEW t, NEW what, S!Next1(t, what)
  PROVE  stmt \in 1..28 /\ Placed(what, t)
<1>1. stmt \in 1..28 /\ S!Program[stmt].do = what /\ S!Program[stmt].t = t
  BY Statements DEF S!Next1, S!Starting
<1> QED BY <1>1, Statements DEF Placed, S!Create, S!Look, S!Column, S!Index, S!Do

----------------------------------------------------------------------------
\* There is a greater name for every name, and there are finitely many nodes.
NamesWithoutEnd == Names = Nat /\ IsFiniteSet(Nodes)

SomeTable  == [cols : SUBSET S!Columns, rows : SUBSET (Owners \cup Nodes)]

SchemaTypes ==
  /\ stmt \in 0..29
  /\ tab \in [S!Tables -> {None} \cup SomeTable]
  /\ new \in [S!Tables -> {None} \cup SomeTable]
  /\ seen \in [S!Tables -> SUBSET S!Columns]
  /\ idx \subseteq S!Indices /\ token \subseteq Nodes /\ totals \subseteq Owners
  /\ name \in [Nodes -> Nat] /\ used \subseteq Nodes
  /\ deaths \in 0..MaxDeaths /\ starts \in 0..MaxStarts /\ (stmt > 0 => starts < MaxStarts)

\* nodes only gets columns, tokens and names.
NodesInv ==
  /\ tab["nodes"] # None /\ new["nodes"] = None
  /\ tab["nodes"].rows = Nodes
  /\ stmt > 4 => seen["nodes"] \subseteq tab["nodes"].cols
  /\ stmt > 7 => "min_level" \in tab["nodes"].cols
  /\ stmt > 8 => "agent_token" \in tab["nodes"].cols

\* The rows that were met have names of their own.
NamesInv ==
  /\ \A m, n \in used : name[m] = name[n] => m = n
  /\ stmt > 10 => used = Nodes
  /\ stmt > 11 => "nodes_name" \in idx

\* In a life without a crash, the second column of a group is there with the
\* first, and every node has a token when there is a column for it.
GroupsInv == deaths = 0 =>
  /\ stmt # 6 /\ "socks5_host" \in tab["nodes"].cols => "socks5_port" \in tab["nodes"].cols
  /\ stmt \in 5..6 /\ "socks5_host" \in seen["nodes"] => "socks5_port" \in tab["nodes"].cols
  /\ stmt > 6 => "socks5_port" \in tab["nodes"].cols
  /\ stmt # 9 /\ "agent_token" \in tab["nodes"].cols => token = Nodes
  /\ stmt \in 5..9 /\ "agent_token" \in seen["nodes"] => token = Nodes
  /\ stmt > 9 => token = Nodes

\* users and traffic_daily are rebuilt: between statements r and r + 3 the new
\* table is made, filled, and put in the place of the old one.
Rebuilding(t, r) ==
  /\ stmt = r + 3 => tab[t] = None
  /\ stmt \in (r + 1)..(r + 3) => new[t] # None
  /\ stmt = r + 1 => new[t].rows = {}
  /\ stmt = r + 2 => new[t].rows = tab[t].rows
  /\ tab[t] # None => tab[t].rows \subseteq Owners
  /\ new[t] # None => new[t].rows \subseteq Owners /\ new[t].cols = S!RebuiltColumns(t)
  /\ \A u \in Owners : (tab[t] # None /\ u \in tab[t].rows) \/ (new[t] # None /\ u \in new[t].rows)
  /\ deaths = 0 =>
       /\ stmt \notin (r + 1)..(r + 3) => new[t] = None
       /\ stmt # r + 3 => tab[t] # None /\ tab[t].rows = Owners

UsersInv ==
  /\ Rebuilding("users", 17)
  /\ stmt \in (2..19) \cup (21..29) => tab["users"] # None
  /\ tab["users"] # None => tab["users"].cols \subseteq {"nodeloc_id", "telegram_id", "oauth"}
  /\ stmt \in 13..17 => /\ seen["users"] \subseteq tab["users"].cols
                        /\ "nodeloc_id" \in tab["users"].cols => "nodeloc_id" \in seen["users"]
  /\ stmt \in (14..19) \cup (21..29) => "telegram_id" \in tab["users"].cols
  /\ stmt > 20 => "nodeloc_id" \notin tab["users"].cols
  /\ tab["users"] = None => idx \cap {"users_telegram", "users_oauth"} = {}

\* In a life without a crash, telegram_id has its index, and from the second
\* start on users is not rebuilt and keeps its oauth columns.
SettlingInv == deaths = 0 =>
  /\ stmt \notin {14, 20, 21} /\ "telegram_id" \in tab["users"].cols => "users_telegram" \in idx
  /\ stmt \in {13, 14} /\ "telegram_id" \in seen["users"] => "users_telegram" \in idx
  /\ starts > 0 =>
       /\ stmt \notin 18..21 /\ "nodeloc_id" \notin tab["users"].cols
       /\ stmt > 15 => "oauth" \in tab["users"].cols
       /\ stmt > 16 => "users_oauth" \in idx

TrafficInv ==
  /\ Rebuilding("traffic", 23)
  /\ stmt \in (4..25) \cup (27..29) => tab["traffic"] # None
  /\ tab["traffic"] # None => tab["traffic"].cols \subseteq {"cascade"}
  /\ stmt = 23 => seen["traffic"] = tab["traffic"].cols
  /\ stmt > 26 => tab["traffic"].cols = {}

TotalsInv == deaths = 0 => totals \in {{}, Owners} /\ (stmt > 27 => totals = Owners)

SchemaInv ==
  /\ SchemaTypes /\ NodesInv /\ NamesInv /\ GroupsInv /\ UsersInv /\ SettlingInv /\ TrafficInv /\ TotalsInv

LEMMA SchemaBounds == MaxDeaths \in Nat /\ MaxStarts \in Nat /\ None \notin SomeTable
  BY SchemaAssumption DEF S!SchemaAssumption, SomeTable

\* A start begins with the first statement, whatever the one before left.
LEMMA SchemaBegins == ASSUME SchemaInv, S!Start PROVE SchemaInv'
<1>1. /\ stmt = 0 /\ stmt' = 1 /\ used' = {}
      /\ UNCHANGED <<tab, new, idx, token, totals, name, seen, deaths, starts>>
      /\ starts < MaxStarts
  BY DEF S!Start
<1>2. SchemaTypes'
  BY <1>1 DEF SchemaInv, SchemaTypes
<1>3. NodesInv' /\ NamesInv' /\ GroupsInv'
  BY <1>1 DEF SchemaInv, NodesInv, NamesInv, GroupsInv
<1>4. UsersInv' /\ SettlingInv'
  BY <1>1 DEF SchemaInv, UsersInv, SettlingInv, Rebuilding
<1>5. TrafficInv' /\ TotalsInv'
  BY <1>1 DEF SchemaInv, TrafficInv, TotalsInv, Rebuilding
<1> QED BY <1>2, <1>3, <1>4, <1>5 DEF SchemaInv

\* The panel is stopped, dies, or finds a table in its way.
LEMMA SchemaEnds ==
  ASSUME SchemaInv, S!Stop \/ S!Crash \/ \E t \in S!Tables : S!NewTableFails(t)
  PROVE  SchemaInv'
<1>1. /\ stmt' = 0 /\ UNCHANGED <<tab, new, idx, token, totals, name, seen, used>>
      /\ deaths' \in 0..MaxDeaths /\ starts' \in 0..MaxStarts /\ deaths' >= deaths
      /\ deaths' = 0 => stmt \in {17, 23, 29} /\ (starts' > 0 => starts > 0 \/ stmt = 29)
  <2>1. CASE S!Stop
    BY <2>1, Statements, SchemaBounds DEF S!Stop, S!Running, SchemaInv, SchemaTypes
  <2>2. CASE S!Crash
    BY <2>2, SchemaBounds DEF S!Crash, SchemaInv, SchemaTypes
  <2>3. ASSUME NEW t \in S!Tables, S!NewTableFails(t)
        PROVE  /\ stmt' = 0 /\ stmt \in {17, 23}
               /\ UNCHANGED <<tab, new, idx, token, totals, name, seen, used, deaths, starts>>
    BY <2>3, Place DEF S!NewTableFails, Placed
  <2> QED BY <2>1, <2>2, <2>3 DEF SchemaInv, SchemaTypes
<1>2. SchemaTypes'
  BY <1>1 DEF SchemaInv, SchemaTypes
<1>3. NodesInv' /\ NamesInv' /\ GroupsInv'
  BY <1>1 DEF SchemaInv, NodesInv, NamesInv, GroupsInv, SchemaTypes
<1>4. UsersInv'
  BY <1>1 DEF SchemaInv, UsersInv, Rebuilding, SchemaTypes
<1>5. SettlingInv'
  BY <1>1 DEF SchemaInv, UsersInv, SettlingInv, SchemaTypes
<1>6. TrafficInv' /\ TotalsInv'
  BY <1>1 DEF SchemaInv, TrafficInv, TotalsInv, Rebuilding, SchemaTypes
<1> QED BY <1>2, <1>3, <1>4, <1>5, <1>6 DEF SchemaInv

\* Tokens are filled in.
LEMMA TokensStep ==
  ASSUME SchemaInv, S!TokensFilled \/ \E n \in Nodes : S!FillToken(n)
  PROVE  SchemaInv'
<1>1. /\ stmt = 9 /\ stmt' \in {9, 10} /\ token \subseteq token' /\ token' \subseteq Nodes
      /\ UNCHANGED <<tab, new, idx, totals, name, seen, used, deaths, starts>>
      /\ stmt' = 10 => token' = token /\ ("agent_token" \notin seen["nodes"] => token = Nodes)
  <2>1. CASE S!TokensFilled
    BY <2>1, Place DEF S!TokensFilled, S!Done, Placed, SchemaInv, SchemaTypes
  <2>2. ASSUME NEW n \in Nodes, S!FillToken(n)
        PROVE  /\ stmt = 9 /\ stmt' = 9 /\ token' = token \cup {n}
               /\ UNCHANGED <<tab, new, idx, totals, name, seen, used, deaths, starts>>
    BY <2>2, Place DEF S!FillToken, Placed
  <2> QED BY <2>1, <2>2 DEF SchemaInv, SchemaTypes
<1>2. SchemaTypes'
  BY <1>1 DEF SchemaInv, SchemaTypes
<1>3. NodesInv' /\ NamesInv'
  BY <1>1 DEF SchemaInv, NodesInv, NamesInv
<1>4. GroupsInv'
  BY <1>1 DEF SchemaInv, SchemaTypes, GroupsInv
<1>5. UsersInv' /\ SettlingInv'
  BY <1>1 DEF SchemaInv, UsersInv, SettlingInv, Rebuilding
<1>6. TrafficInv' /\ TotalsInv'
  BY <1>1 DEF SchemaInv, TrafficInv, TotalsInv, Rebuilding
<1> QED BY <1>2, <1>3, <1>4, <1>5, <1>6 DEF SchemaInv

LEMMA NamesEnd == ASSUME SchemaInv, S!NamesDone PROVE SchemaInv'
<1>1. /\ stmt = 10 /\ stmt' = 11 /\ used = Nodes
      /\ UNCHANGED <<tab, new, idx, token, totals, name, seen, used, deaths, starts>>
  BY Place DEF S!NamesDone, S!Done, Placed
<1>2. SchemaTypes' /\ NodesInv' /\ NamesInv' /\ GroupsInv'
  BY <1>1 DEF SchemaInv, SchemaTypes, NodesInv, NamesInv, GroupsInv
<1>3. UsersInv' /\ SettlingInv'
  BY <1>1 DEF SchemaInv, UsersInv, SettlingInv, Rebuilding
<1>4. TrafficInv' /\ TotalsInv'
  BY <1>1 DEF SchemaInv, TrafficInv, TotalsInv, Rebuilding
<1> QED BY <1>2, <1>3, <1>4 DEF SchemaInv

LEMMA TotalsStep == ASSUME SchemaInv, S!FillTotals \/ S!PruneTotals PROVE SchemaInv'
<1>1. /\ stmt \in {27, 28} /\ stmt' = stmt + 1
      /\ stmt = 27 => totals' = IF totals = {} THEN tab["traffic"].rows ELSE totals
      /\ stmt = 28 => totals' = totals \cap tab["users"].rows
      /\ UNCHANGED <<tab, new, idx, token, name, seen, used, deaths, starts>>
  BY Place DEF S!FillTotals, S!PruneTotals, S!Done, Placed
<1>2. /\ tab["traffic"] # None /\ tab["traffic"].rows \subseteq Owners
      /\ tab["users"] # None /\ tab["users"].rows \subseteq Owners
      /\ deaths = 0 => tab["traffic"].rows = Owners /\ tab["users"].rows = Owners
  BY <1>1 DEF SchemaInv, UsersInv, TrafficInv, Rebuilding
<1>3. SchemaTypes'
  BY <1>1, <1>2 DEF SchemaInv, SchemaTypes
<1>4. NodesInv' /\ NamesInv' /\ GroupsInv'
  BY <1>1 DEF SchemaInv, NodesInv, NamesInv, GroupsInv
<1>5. UsersInv' /\ SettlingInv'
  BY <1>1 DEF SchemaInv, UsersInv, SettlingInv, Rebuilding
<1>6. TrafficInv'
  BY <1>1 DEF SchemaInv, TrafficInv, Rebuilding
<1>7. TotalsInv'
  <2> SUFFICES ASSUME deaths = 0
               PROVE  (totals' = {} \/ totals' = Owners) /\ (stmt' > 27 => totals' = Owners)
    BY <1>1 DEF TotalsInv
  <2>1. /\ totals = {} \/ totals = Owners
        /\ stmt > 27 => totals = Owners
    BY DEF SchemaInv, TotalsInv
  <2>2. CASE stmt = 27
    <3>1. totals' = Owners
      BY <1>1, <1>2, <2>1, <2>2
    <3> QED BY <3>1
  <2>3. CASE stmt = 28
    <3>1. totals = Owners /\ totals' = totals \cap Owners
      BY <1>1, <1>2, <2>1, <2>3
    <3> QED BY <3>1
  <2> QED BY <1>1, <2>2, <2>3
<1> QED BY <1>3, <1>4, <1>5, <1>6, <1>7 DEF SchemaInv

\* A table that is as it should be is not rebuilt.
LEMMA SkipStep == ASSUME SchemaInv, NEW t \in S!Tables, S!SkipRebuild(t) PROVE SchemaInv'
<1>1. /\ \/ t = "users" /\ stmt = 17 /\ stmt' = 22
         \/ t = "traffic" /\ stmt = 23 /\ stmt' = 27
      /\ {"nodeloc_id", "cascade"} \cap seen[t] = {}
      /\ UNCHANGED <<tab, new, idx, token, totals, name, seen, used, deaths, starts>>
  <2>1. Len(S!Rebuild(t)) = 4
    BY DEF S!Rebuild
  <2> QED BY <2>1, Place DEF S!SkipRebuild, S!Obsolete, S!Done, Placed
<1>2. SchemaTypes'
  BY <1>1 DEF SchemaInv, SchemaTypes
<1>3. NodesInv' /\ NamesInv' /\ GroupsInv'
  BY <1>1 DEF SchemaInv, NodesInv, NamesInv, GroupsInv
<1>4. UsersInv'
  BY <1>1 DEF SchemaInv, UsersInv, Rebuilding
<1>5. SettlingInv'
  BY <1>1 DEF SchemaInv, UsersInv, SettlingInv
<1>6. TrafficInv' /\ TotalsInv'
  BY <1>1 DEF SchemaInv, TrafficInv, TotalsInv, Rebuilding
<1> QED BY <1>2, <1>3, <1>4, <1>5, <1>6 DEF SchemaInv

\* A column is added unless the look found the one that guards it.
LEMMA ColumnStep == ASSUME SchemaInv, NEW t \in S!Tables, S!AddColumn(t) PROVE SchemaInv'
<1>1. PICK c, g : /\ c = S!Program[stmt].c /\ g = S!Program[stmt].g
                  /\ \/ t = "nodes" /\ stmt = 5 /\ c = "socks5_host" /\ g = "socks5_host"
                     \/ t = "nodes" /\ stmt = 6 /\ c = "socks5_port" /\ g = "socks5_host"
                     \/ t = "nodes" /\ stmt = 7 /\ c = "min_level" /\ g = "min_level"
                     \/ t = "nodes" /\ stmt = 8 /\ c = "agent_token" /\ g = "agent_token"
                     \/ t = "users" /\ stmt = 13 /\ c = "telegram_id" /\ g = "telegram_id"
                     \/ t = "users" /\ stmt = 15 /\ c = "oauth" /\ g = "oauth"
  <2>1. (t = "nodes" /\ stmt \in 5..8) \/ (t = "users" /\ stmt \in {13, 15})
    BY Place DEF S!AddColumn, Placed
  <2> QED BY <2>1, Statements DEF S!Column
<1>2. /\ stmt' = stmt + 1
      /\ tab' = IF g \in seen[t] THEN tab ELSE [tab EXCEPT ![t].cols = @ \cup {c}]
      /\ UNCHANGED <<new, idx, token, totals, name, seen, used, deaths, starts>>
  BY <1>1 DEF S!AddColumn, S!Done
<1>3. tab[t] # None
  BY <1>1 DEF SchemaInv, NodesInv, UsersInv
<1>4. tab[t] \in SomeTable /\ c \in S!Columns
  BY <1>1, <1>3 DEF SchemaInv, SchemaTypes, S!Columns
<1>5. PICK x \in SomeTable : /\ tab' = [tab EXCEPT ![t] = x] /\ x.rows = tab[t].rows
                             /\ x.cols = IF g \in seen[t] THEN tab[t].cols ELSE tab[t].cols \cup {c}
  <2>1. CASE g \in seen[t]
    BY <1>2, <1>4, <2>1 DEF SchemaInv, SchemaTypes
  <2>2. CASE g \notin seen[t]
    <3>1. PICK x : x = [tab[t] EXCEPT !.cols = tab[t].cols \cup {c}]
      OBVIOUS
    <3>2. x \in SomeTable /\ x.rows = tab[t].rows /\ x.cols = tab[t].cols \cup {c}
      BY <1>4, <3>1 DEF SomeTable
    <3>3. tab' = [tab EXCEPT ![t] = x]
      BY <1>2, <2>2, <3>1
    <3> QED BY <2>2, <3>2, <3>3
  <2> QED BY <2>1, <2>2
<1>6. /\ tab' \in [S!Tables -> {None} \cup SomeTable]
      /\ tab'[t] # None /\ tab'[t].rows = tab[t].rows
      /\ tab'[t].cols = IF g \in seen[t] THEN tab[t].cols ELSE tab[t].cols \cup {c}
      /\ \A y \in S!Tables \ {t} : tab'[y] = tab[y]
  BY <1>5, SchemaBounds DEF SchemaInv, SchemaTypes
<1>7. SchemaTypes'
  BY <1>1, <1>2, <1>6 DEF SchemaInv, SchemaTypes
<1>8. NodesInv' /\ NamesInv'
  BY <1>1, <1>2, <1>3, <1>6 DEF SchemaInv, NodesInv, NamesInv, S!Tables
<1>9. GroupsInv'
  BY <1>1, <1>2, <1>3, <1>6 DEF SchemaInv, NodesInv, GroupsInv, S!Tables
<1>10. UsersInv'
  BY <1>1, <1>2, <1>3, <1>6 DEF SchemaInv, UsersInv, Rebuilding, S!Tables
<1>11. SettlingInv'
  BY <1>1, <1>2, <1>3, <1>6 DEF SchemaInv, UsersInv, SettlingInv, S!Tables
<1>12. TrafficInv' /\ TotalsInv'
  BY <1>1, <1>2, <1>3, <1>6 DEF SchemaInv, TrafficInv, TotalsInv, Rebuilding, S!Tables
<1> QED BY <1>7, <1>8, <1>9, <1>10, <1>11, <1>12 DEF SchemaInv

\* A look at the columns shows them as they are until a statement adds one.
LEMMA LookStep == ASSUME SchemaInv, NEW t \in S!Tables, S!LookAt(t) PROVE SchemaInv'
<1>1. /\ \/ t = "nodes" /\ stmt = 4
         \/ t = "users" /\ stmt = 12
         \/ t = "traffic" /\ stmt = 22
      /\ stmt' = stmt + 1 /\ seen' = [seen EXCEPT ![t] = tab[t].cols]
      /\ UNCHANGED <<tab, new, idx, token, totals, name, used, deaths, starts>>
  BY Place DEF S!LookAt, S!Done, Placed
<1>2. tab[t] # None
  BY <1>1 DEF SchemaInv, NodesInv, UsersInv, TrafficInv
<1>3. /\ seen' \in [S!Tables -> SUBSET S!Columns] /\ seen'[t] = tab[t].cols
      /\ \A y \in S!Tables \ {t} : seen'[y] = seen[y]
  BY <1>1, <1>2 DEF SchemaInv, SchemaTypes, SomeTable
<1>4. SchemaTypes'
  BY <1>1, <1>3 DEF SchemaInv, SchemaTypes
<1>5. NodesInv' /\ NamesInv'
  BY <1>1, <1>3 DEF SchemaInv, NodesInv, NamesInv, S!Tables
<1>6. GroupsInv'
  BY <1>1, <1>3 DEF SchemaInv, NodesInv, GroupsInv, S!Tables
<1>7. UsersInv'
  BY <1>1, <1>3 DEF SchemaInv, UsersInv, Rebuilding, S!Tables
<1>8. SettlingInv'
  BY <1>1, <1>3 DEF SchemaInv, UsersInv, SettlingInv, S!Tables
<1>9. TrafficInv' /\ TotalsInv'
  BY <1>1, <1>2, <1>3 DEF SchemaInv, TrafficInv, TotalsInv, Rebuilding, S!Tables
<1> QED BY <1>4, <1>5, <1>6, <1>7, <1>8, <1>9 DEF SchemaInv

\* An index is made when its column is there and the look asks for it.
LEMMA IndexStep == ASSUME SchemaInv, NEW t \in S!Tables, S!CreateIndex(t) PROVE SchemaInv'
<1>1. PICK i, g : /\ i = S!Program[stmt].i /\ g = S!Program[stmt].g
                  /\ \/ t = "nodes" /\ stmt = 11 /\ i = "nodes_name" /\ g = "none"
                     \/ t = "users" /\ stmt = 14 /\ i = "users_telegram" /\ g = "telegram_id"
                     \/ t = "users" /\ stmt = 16 /\ i = "users_oauth" /\ g = "none"
                     \/ t = "users" /\ stmt = 21 /\ i = "users_telegram" /\ g = "none"
  <2>1. (t = "nodes" /\ stmt = 11) \/ (t = "users" /\ stmt \in {14, 16, 21})
    BY Place DEF S!CreateIndex, Placed
  <2> QED BY <2>1, Statements DEF S!Index
<1>2. /\ stmt' = stmt + 1
      /\ idx' = IF g \in seen[t] \/ ~S!Possible(i) THEN idx ELSE idx \cup {i}
      /\ UNCHANGED <<tab, new, token, totals, name, seen, used, deaths, starts>>
  BY <1>1 DEF S!CreateIndex, S!Done
<1>3. "none" \notin seen[t]
  BY DEF SchemaInv, SchemaTypes, S!Columns
<1>4. /\ i = "users_oauth" => (S!Possible(i) <=> "oauth" \in tab["users"].cols)
      /\ i = "users_telegram" => (S!Possible(i) <=> "telegram_id" \in tab["users"].cols)
  BY DEF S!Possible
<1>5. i = "nodes_name" => S!Possible(i)
  <2>1. stmt = 11 => used = Nodes /\ \A m, n \in Nodes : name[m] = name[n] => m = n
    BY DEF SchemaInv, NamesInv
  <2>2. stmt = 11 => S!IsInjective(name)
    BY <2>1 DEF S!IsInjective, SchemaInv, SchemaTypes
  <2> QED BY <1>1, <2>2 DEF S!Possible
<1>6. SchemaTypes'
  <2>1. i \in S!Indices /\ idx' \subseteq idx \cup {i}
    BY <1>1, <1>2 DEF S!Indices
  <2>2. idx' \subseteq S!Indices
    BY <2>1 DEF SchemaInv, SchemaTypes
  <2> QED BY <1>1, <1>2, <2>2 DEF SchemaInv, SchemaTypes
<1>7. NodesInv' /\ NamesInv'
  BY <1>1, <1>2, <1>3, <1>5 DEF SchemaInv, NodesInv, NamesInv
<1>8. GroupsInv'
  BY <1>1, <1>2 DEF SchemaInv, GroupsInv
<1>9. UsersInv'
  BY <1>1, <1>2 DEF SchemaInv, UsersInv, Rebuilding
<1>10. SettlingInv'
  BY <1>1, <1>2, <1>3, <1>4 DEF SchemaInv, UsersInv, SettlingInv
<1>11. TrafficInv' /\ TotalsInv'
  BY <1>1, <1>2 DEF SchemaInv, TrafficInv, TotalsInv, Rebuilding
<1> QED BY <1>6, <1>7, <1>8, <1>9, <1>10, <1>11 DEF SchemaInv

\* A table that is not there is made anew.
LEMMA CreateStep == ASSUME SchemaInv, NEW t \in S!Tables, S!CreateTable(t) PROVE SchemaInv'
<1>1. /\ (stmt = 1 /\ t = "users") \/ (stmt = 2 /\ t = "nodes") \/ (stmt = 3 /\ t = "traffic")
      /\ stmt' = stmt + 1
      /\ tab' = IF tab[t] = None THEN [tab EXCEPT ![t] = [cols |-> S!FreshColumns(t), rows |-> {}]] ELSE tab
      /\ UNCHANGED <<new, idx, token, totals, name, seen, used, deaths, starts>>
  BY Place DEF S!CreateTable, S!Done, Placed
<1>2. /\ t = "nodes" => tab[t] # None
      /\ deaths = 0 => tab[t] # None
      /\ tab[t] = None => \A u \in Owners : new[t] # None /\ u \in new[t].rows
  BY <1>1 DEF SchemaInv, NodesInv, UsersInv, TrafficInv, Rebuilding
<1>3. PICK e : /\ e = [cols |-> S!FreshColumns(t), rows |-> {}]
               /\ e \in SomeTable /\ e # None /\ e.rows = {}
               /\ t = "users" => e.cols = {"oauth"}
               /\ t = "traffic" => e.cols = {}
  <2>1. /\ S!FreshColumns("users") = {"oauth"} /\ S!FreshColumns("traffic") = {}
        /\ S!FreshColumns("nodes") = {"socks5_host", "socks5_port"}
    BY DEF S!FreshColumns
  <2>2. S!FreshColumns(t) \in SUBSET S!Columns
    BY <1>1, <2>1 DEF S!Columns
  <2>3. [cols |-> S!FreshColumns(t), rows |-> {}] \in SomeTable
    BY <2>2 DEF SomeTable
  <2> QED BY <2>1, <2>3, SchemaBounds
<1>4. /\ tab' \in [S!Tables -> {None} \cup SomeTable]
      /\ tab'[t] = IF tab[t] = None THEN e ELSE tab[t]
      /\ \A y \in S!Tables \ {t} : tab'[y] = tab[y]
  BY <1>1, <1>3 DEF SchemaInv, SchemaTypes
<1>5. SchemaTypes'
  BY <1>1, <1>4 DEF SchemaInv, SchemaTypes
<1>6. tab'["nodes"] = tab["nodes"]
  BY <1>2, <1>4 DEF S!Tables
<1>7. NodesInv' /\ NamesInv' /\ GroupsInv'
  BY <1>1, <1>6 DEF SchemaInv, NodesInv, NamesInv, GroupsInv
<1>8. UsersInv'
  BY <1>1, <1>2, <1>3, <1>4 DEF SchemaInv, UsersInv, Rebuilding, S!Tables
<1>9. SettlingInv'
  BY <1>1, <1>2, <1>4 DEF SchemaInv, SettlingInv, S!Tables
<1>10. TrafficInv' /\ TotalsInv'
  BY <1>1, <1>2, <1>3, <1>4 DEF SchemaInv, TrafficInv, TotalsInv, Rebuilding, S!Tables
<1> QED BY <1>5, <1>7, <1>8, <1>9, <1>10 DEF SchemaInv

\* The table that is to replace the old one: made, filled, put in its place.
LEMMA NewStep == ASSUME SchemaInv, NEW t \in S!Tables, S!NewTable(t) PROVE SchemaInv'
<1>1. /\ (stmt = 17 /\ t = "users") \/ (stmt = 23 /\ t = "traffic")
      /\ stmt' = stmt + 1 /\ new[t] = None
      /\ {"nodeloc_id", "cascade"} \cap seen[t] # {}
      /\ new' = [new EXCEPT ![t] = [cols |-> S!RebuiltColumns(t), rows |-> {}]]
      /\ UNCHANGED <<tab, idx, token, totals, name, seen, used, deaths, starts>>
  BY Place DEF S!NewTable, S!Obsolete, S!Done, Placed
<1>2. PICK e : /\ e = [cols |-> S!RebuiltColumns(t), rows |-> {}]
               /\ e \in SomeTable /\ e # None /\ e.rows = {} /\ e.cols = S!RebuiltColumns(t)
  <2>1. [cols |-> S!RebuiltColumns(t), rows |-> {}] \in SomeTable
    BY DEF SomeTable, S!RebuiltColumns, S!Columns
  <2> QED BY <2>1, SchemaBounds
<1>3. /\ new' \in [S!Tables -> {None} \cup SomeTable] /\ new'[t] = e
      /\ \A y \in S!Tables \ {t} : new'[y] = new[y]
  BY <1>1, <1>2 DEF SchemaInv, SchemaTypes
<1>4. SchemaTypes'
  BY <1>1, <1>3 DEF SchemaInv, SchemaTypes
<1>5. NodesInv' /\ NamesInv' /\ GroupsInv'
  BY <1>1, <1>3 DEF SchemaInv, NodesInv, NamesInv, GroupsInv, S!Tables
<1>6. UsersInv'
  BY <1>1, <1>2, <1>3 DEF SchemaInv, UsersInv, Rebuilding, S!Tables
<1>7. SettlingInv'
  BY <1>1 DEF SchemaInv, UsersInv, SettlingInv
<1>8. TrafficInv' /\ TotalsInv'
  BY <1>1, <1>2, <1>3 DEF SchemaInv, TrafficInv, TotalsInv, Rebuilding, S!Tables
<1> QED BY <1>4, <1>5, <1>6, <1>7, <1>8 DEF SchemaInv

\* What is copied into it is all there is.
LEMMA CopyStep == ASSUME SchemaInv, NEW t \in S!Tables, S!CopyRows(t) PROVE SchemaInv'
<1>1. /\ (stmt = 18 /\ t = "users") \/ (stmt = 24 /\ t = "traffic")
      /\ stmt' = stmt + 1
      /\ new' = [new EXCEPT ![t].rows = tab[t].rows]
      /\ UNCHANGED <<tab, idx, token, totals, name, seen, used, deaths, starts>>
  BY Place DEF S!CopyRows, S!Done, Placed
<1>2. tab[t] # None /\ new[t] # None
  BY <1>1 DEF SchemaInv, UsersInv, TrafficInv, Rebuilding
<1>3. PICK e : e = [new[t] EXCEPT !.rows = tab[t].rows]
  OBVIOUS
<1>4. e \in SomeTable /\ e # None /\ e.rows = tab[t].rows /\ e.cols = new[t].cols
  BY <1>2, <1>3, SchemaBounds DEF SchemaInv, SchemaTypes, SomeTable
<1>5. /\ new' \in [S!Tables -> {None} \cup SomeTable] /\ new'[t] = e
      /\ \A y \in S!Tables \ {t} : new'[y] = new[y]
  <2>1. new' = [new EXCEPT ![t] = e]
    BY <1>1, <1>3
  <2> QED BY <1>4, <2>1 DEF SchemaInv, SchemaTypes
<1>6. SchemaTypes'
  BY <1>1, <1>5 DEF SchemaInv, SchemaTypes
<1>7. NodesInv' /\ NamesInv' /\ GroupsInv'
  BY <1>1, <1>5 DEF SchemaInv, NodesInv, NamesInv, GroupsInv, S!Tables
<1>8. UsersInv'
  BY <1>1, <1>2, <1>4, <1>5 DEF SchemaInv, UsersInv, Rebuilding, S!Tables
<1>9. SettlingInv'
  BY <1>1 DEF SchemaInv, SettlingInv
<1>10. TrafficInv' /\ TotalsInv'
  BY <1>1, <1>2, <1>4, <1>5 DEF SchemaInv, TrafficInv, TotalsInv, Rebuilding, S!Tables
<1> QED BY <1>6, <1>7, <1>8, <1>9, <1>10 DEF SchemaInv

\* The old table goes when its rows are in the new one.
LEMMA DropStep == ASSUME SchemaInv, NEW t \in S!Tables, S!DropTable(t) PROVE SchemaInv'
<1>1. /\ (stmt = 19 /\ t = "users") \/ (stmt = 25 /\ t = "traffic")
      /\ stmt' = stmt + 1
      /\ tab' = [tab EXCEPT ![t] = None]
      /\ idx' = IF t = "users" THEN idx \ {"users_telegram", "users_oauth"} ELSE idx
      /\ UNCHANGED <<new, token, totals, name, seen, used, deaths, starts>>
  BY Place DEF S!DropTable, S!Done, Placed
<1>2. /\ tab' \in [S!Tables -> {None} \cup SomeTable] /\ tab'[t] = None
      /\ \A y \in S!Tables \ {t} : tab'[y] = tab[y]
  BY <1>1 DEF SchemaInv, SchemaTypes
<1>3. SchemaTypes'
  BY <1>1, <1>2 DEF SchemaInv, SchemaTypes
<1>4. NodesInv' /\ NamesInv' /\ GroupsInv'
  BY <1>1, <1>2 DEF SchemaInv, NodesInv, NamesInv, GroupsInv, S!Tables
<1>5. UsersInv'
  BY <1>1, <1>2 DEF SchemaInv, UsersInv, Rebuilding, S!Tables
<1>6. SettlingInv'
  BY <1>1, <1>2 DEF SchemaInv, SettlingInv, S!Tables
<1>7. TrafficInv' /\ TotalsInv'
  BY <1>1, <1>2 DEF SchemaInv, TrafficInv, TotalsInv, Rebuilding, S!Tables
<1> QED BY <1>3, <1>4, <1>5, <1>6, <1>7 DEF SchemaInv

LEMMA RenameStep == ASSUME SchemaInv, NEW t \in S!Tables, S!RenameTable(t) PROVE SchemaInv'
<1>1. /\ (stmt = 20 /\ t = "users") \/ (stmt = 26 /\ t = "traffic")
      /\ stmt' = stmt + 1
      /\ tab' = [tab EXCEPT ![t] = new[t]] /\ new' = [new EXCEPT ![t] = None]
      /\ UNCHANGED <<idx, token, totals, name, seen, used, deaths, starts>>
  BY Place DEF S!RenameTable, S!Done, Placed
<1>2. /\ tab[t] = None /\ new[t] # None /\ new[t].rows = Owners
      /\ t = "users" => new[t].cols = {"telegram_id"}
      /\ t = "traffic" => new[t].cols = {}
  <2>1. tab[t] = None /\ new[t] # None /\ new[t].cols = S!RebuiltColumns(t)
    BY <1>1 DEF SchemaInv, UsersInv, TrafficInv, Rebuilding
  <2>2. new[t].rows \subseteq Owners /\ \A u \in Owners : u \in new[t].rows
    BY <1>1, <2>1 DEF SchemaInv, UsersInv, TrafficInv, Rebuilding
  <2>3. S!RebuiltColumns("users") = {"telegram_id"} /\ S!RebuiltColumns("traffic") = {}
    BY DEF S!RebuiltColumns
  <2> QED BY <2>1, <2>2, <2>3
<1>3. /\ tab' \in [S!Tables -> {None} \cup SomeTable] /\ tab'[t] = new[t]
      /\ new' \in [S!Tables -> {None} \cup SomeTable] /\ new'[t] = None
      /\ \A y \in S!Tables \ {t} : tab'[y] = tab[y] /\ new'[y] = new[y]
  BY <1>1 DEF SchemaInv, SchemaTypes
<1>4. SchemaTypes'
  BY <1>1, <1>3 DEF SchemaInv, SchemaTypes
<1>5. NodesInv' /\ NamesInv' /\ GroupsInv'
  BY <1>1, <1>3 DEF SchemaInv, NodesInv, NamesInv, GroupsInv, S!Tables
<1>6. UsersInv'
  BY <1>1, <1>2, <1>3 DEF SchemaInv, UsersInv, Rebuilding, S!Tables
<1>7. SettlingInv'
  BY <1>1, <1>2, <1>3 DEF SchemaInv, SettlingInv, S!Tables
<1>8. TrafficInv' /\ TotalsInv'
  BY <1>1, <1>2, <1>3 DEF SchemaInv, TrafficInv, TotalsInv, Rebuilding, S!Tables
<1> QED BY <1>4, <1>5, <1>6, <1>7, <1>8 DEF SchemaInv

----------------------------------------------------------------------------
\* Finitely many names leave a first one that is free and greater than a given
\* one.
LEMMA FirstFree ==
  ASSUME NEW M, IsFiniteSet(M), NEW y \in Nat
  PROVE  LET free == {x \in Nat \ M : x > y} IN \E x \in free : \A z \in free : x <= z
<1> DEFINE free == {x \in Nat \ M : x > y}
<1>1. PICK k : k = Cardinality(M) /\ k \in Nat
  BY FS_CardinalityType
<1>2. free # {}
  <2> SUFFICES ASSUME free = {} PROVE FALSE
    OBVIOUS
  <2>1. (y + 1)..(y + k + 1) \subseteq M
    BY <1>1
  <2>2. PICK a, b : a = y + 1 /\ b = y + k + 1 /\ a \in Int /\ b \in Int
    BY <1>1
  <2>4. Cardinality(a..b) = IF a > b THEN 0 ELSE b - a + 1
    BY <2>2, FS_Interval
  <2>3. Cardinality(a..b) <= k
    BY <1>1, <2>1, <2>2, FS_Subset
  <2> QED BY <1>1, <2>2, <2>3, <2>4
<1>3. free \subseteq Nat
  OBVIOUS
<1>4. PICK x \in free : \A z \in free : ~ (<<z, x>> \in OpToRel(<, Nat))
  BY <1>2, <1>3, NatLessThanWellFounded, WFMin, Zenon
<1>5. \A z \in free : x <= z
  <2>1. \A z \in free : z \in Nat /\ x \in Nat => ~(z < x)
    BY <1>4, Zenon DEF OpToRel
  <2> QED BY <1>3, <2>1
<1> QED BY <1>5

\* A row whose name was met gets one that was not.
LEMMA NormaliseStep ==
  ASSUME NamesWithoutEnd, SchemaInv, NEW n \in Nodes, S!Normalise(n)
  PROVE  SchemaInv'
<1>1. PICK M, free : /\ M = {name[m] : m \in used} /\ free = {x \in Names \ M : x > name[n]}
  OBVIOUS
<1>2. /\ stmt = 10 /\ n \notin used /\ used' = used \cup {n}
      /\ name' = IF name[n] \notin M THEN name
                 ELSE [name EXCEPT ![n] = CHOOSE x \in free : \A y \in free : x <= y]
      /\ UNCHANGED <<stmt, tab, new, idx, token, totals, seen, deaths, starts>>
  BY <1>1, Place DEF S!Normalise, S!NextByName, Placed
<1>3. name \in [Nodes -> Nat] /\ used \subseteq Nodes
  BY DEF SchemaInv, SchemaTypes
<1>4. IsFiniteSet(M)
  <2>1. IsFiniteSet(used)
    BY <1>3, FS_Subset DEF NamesWithoutEnd
  <2>2. PICK f : f = [m \in used |-> name[m]]
    OBVIOUS
  <2>3. f \in Surjection(used, M)
    BY <1>1, <2>2 DEF Surjection
  <2> QED BY <2>1, <2>3, FS_Surjection
<1>5. \E x \in free : \A y \in free : x <= y
  BY <1>1, <1>3, <1>4, FirstFree DEF NamesWithoutEnd
<1>6. PICK x : x = (CHOOSE z \in free : \A y \in free : z <= y) /\ x \in free
  BY <1>5
<1>7. x \in Nat /\ x \notin M
  BY <1>1, <1>6 DEF NamesWithoutEnd
<1>8. /\ name' \in [Nodes -> Nat] /\ name'[n] \notin M
      /\ \A m \in used : name'[m] = name[m]
  BY <1>2, <1>3, <1>6, <1>7
<1>9. SchemaTypes'
  BY <1>2, <1>3, <1>8 DEF SchemaInv, SchemaTypes
<1>10. NamesInv'
  <2>1. \A m \in used : name'[m] # name'[n]
    BY <1>1, <1>8
  <2> QED BY <1>2, <1>8, <2>1 DEF SchemaInv, NamesInv
<1>11. NodesInv' /\ GroupsInv'
  BY <1>2 DEF SchemaInv, NodesInv, GroupsInv
<1>12. UsersInv' /\ SettlingInv'
  BY <1>2 DEF SchemaInv, UsersInv, SettlingInv, Rebuilding
<1>13. TrafficInv' /\ TotalsInv'
  BY <1>2 DEF SchemaInv, TrafficInv, TotalsInv, Rebuilding
<1> QED BY <1>9, <1>10, <1>11, <1>12, <1>13 DEF SchemaInv

LEMMA SchemaInit == ASSUME NamesWithoutEnd, S!Init PROVE SchemaInv
<1>1. /\ stmt = 0 /\ new = [t \in S!Tables |-> None] /\ seen = [t \in S!Tables |-> {}]
      /\ used = {} /\ deaths = 0 /\ starts = 0
      /\ totals = {} \/ totals = Owners
      /\ name \in [Nodes -> OldNames]
      /\ idx = IF "telegram_id" \in tab["users"].cols THEN {"users_telegram"} ELSE {}
      /\ token = IF "agent_token" \in tab["nodes"].cols THEN Nodes ELSE {}
  BY DEF S!Init, S!OldRows
<1>2. PICK c : /\ c \in [S!Tables -> SUBSET S!Columns] /\ \A t \in S!Tables : c[t] \in S!OldColumns(t)
               /\ tab = [t \in S!Tables |-> [cols |-> c[t], rows |-> S!OldRows(t)]]
  BY DEF S!Init
<1>3. /\ c["users"] \in {{"nodeloc_id"}, {"nodeloc_id", "telegram_id"}, {"telegram_id", "oauth"}}
      /\ c["nodes"] \in {{}, {"socks5_host", "socks5_port"},
                         {"socks5_host", "socks5_port", "min_level", "agent_token"}}
      /\ c["traffic"] \in {{"cascade"}, {}}
  <2>1. {"users", "nodes", "traffic"} = S!Tables
    BY DEF S!Tables
  <2>2. c["users"] \in S!OldColumns("users") /\ c["nodes"] \in S!OldColumns("nodes")
        /\ c["traffic"] \in S!OldColumns("traffic")
    BY <1>2, <2>1
  <2> QED BY <2>2 DEF S!OldColumns
<1>4. /\ tab["users"].cols = c["users"] /\ tab["users"].rows = Owners
      /\ tab["nodes"].cols = c["nodes"] /\ tab["nodes"].rows = Nodes
      /\ tab["traffic"].cols = c["traffic"] /\ tab["traffic"].rows = Owners
      /\ tab \in [S!Tables -> SomeTable]
  <2>1. \A t \in S!Tables : [cols |-> c[t], rows |-> S!OldRows(t)] \in SomeTable
    BY <1>2 DEF SomeTable, S!OldRows
  <2> QED BY <1>2, <2>1 DEF S!Tables, S!OldRows
<1>5. /\ tab["users"] # None /\ tab["nodes"] # None /\ tab["traffic"] # None
      /\ new["users"] = None /\ new["nodes"] = None /\ new["traffic"] = None
  BY <1>1, <1>4, SchemaBounds DEF S!Tables
<1>6. SchemaTypes
  <2>1. OldNames \subseteq Nat /\ 0 \in 0..MaxDeaths /\ 0 \in 0..MaxStarts
    BY SchemaAssumption, SchemaBounds DEF S!SchemaAssumption
  <2>2. name \in [Nodes -> Nat] /\ totals \subseteq Owners /\ token \subseteq Nodes
    BY <1>1, <2>1
  <2>3. idx \subseteq S!Indices
    BY <1>1 DEF S!Indices
  <2>4. /\ new \in [S!Tables -> {None} \cup SomeTable] /\ tab \in [S!Tables -> {None} \cup SomeTable]
        /\ seen \in [S!Tables -> SUBSET S!Columns]
    BY <1>1, <1>4
  <2> QED BY <1>1, <2>1, <2>2, <2>3, <2>4 DEF SchemaTypes
<1>7. NodesInv /\ NamesInv
  BY <1>1, <1>4, <1>5 DEF NodesInv, NamesInv
<1>8. GroupsInv
  BY <1>1, <1>3, <1>4 DEF GroupsInv
<1>9. UsersInv /\ SettlingInv
  <2>1. UsersInv
    BY <1>1, <1>3, <1>4, <1>5 DEF UsersInv, Rebuilding
  <2>2. SettlingInv
    BY <1>1, <1>4 DEF SettlingInv
  <2> QED BY <2>1, <2>2
<1>10. TrafficInv /\ TotalsInv
  BY <1>1, <1>3, <1>4, <1>5 DEF TrafficInv, TotalsInv, Rebuilding
<1> QED BY <1>6, <1>7, <1>8, <1>9, <1>10 DEF SchemaInv

LEMMA SchemaStep == NamesWithoutEnd /\ SchemaInv /\ S!Next => SchemaInv'
<1> SUFFICES ASSUME NamesWithoutEnd, SchemaInv, S!Next PROVE SchemaInv'
  OBVIOUS
<1>1. CASE S!Start
  BY <1>1, SchemaBegins
<1>2. CASE S!Stop \/ S!Crash
  BY <1>2, SchemaEnds
<1>3. CASE S!TokensFilled
  BY <1>3, TokensStep
<1>4. CASE S!NamesDone
  BY <1>4, NamesEnd
<1>5. CASE S!FillTotals \/ S!PruneTotals
  BY <1>5, TotalsStep
<1>6. ASSUME NEW n \in Nodes, S!FillToken(n) \/ S!Normalise(n) PROVE SchemaInv'
  BY <1>6, TokensStep, NormaliseStep
<1>7. ASSUME NEW t \in S!Tables,
             \/ S!CreateTable(t) \/ S!LookAt(t) \/ S!AddColumn(t) \/ S!CreateIndex(t)
             \/ S!SkipRebuild(t) \/ S!NewTable(t) \/ S!NewTableFails(t)
             \/ S!CopyRows(t) \/ S!DropTable(t) \/ S!RenameTable(t)
      PROVE  SchemaInv'
  BY <1>7, CreateStep, LookStep, ColumnStep, IndexStep, SkipStep, NewStep, SchemaEnds,
     CopyStep, DropStep, RenameStep
<1> QED BY <1>1, <1>2, <1>3, <1>4, <1>5, <1>6, <1>7 DEF S!Next

LEMMA SchemaUnchanged == SchemaInv /\ UNCHANGED schemaVars => SchemaInv'
<1> SUFFICES ASSUME SchemaInv, UNCHANGED schemaVars PROVE SchemaInv'
  OBVIOUS
<1>1. UNCHANGED <<stmt, tab, new, idx, token, totals, name, seen, used, deaths, starts>>
  BY DEF schemaVars
<1>2. SchemaTypes' /\ NodesInv' /\ NamesInv' /\ GroupsInv'
  BY <1>1 DEF SchemaInv, SchemaTypes, NodesInv, NamesInv, GroupsInv
<1>3. UsersInv' /\ SettlingInv' /\ TrafficInv' /\ TotalsInv'
  BY <1>1 DEF SchemaInv, UsersInv, SettlingInv, TrafficInv, TotalsInv, Rebuilding
<1> QED BY <1>2, <1>3 DEF SchemaInv

\* Wherever a start is cut off, no row is lost, the next start repairs what one
\* statement can repair, and starts that are completed lead to one schema
\* (migrations.js:8-252).  Names are numbers without end, as suffixes are.
THEOREM SchemaSound == ASSUME NamesWithoutEnd PROVE AllSpec => []SchemaIsSound
<1> DEFINE Inv == part = "schema" => SchemaInv
<1>1. AllInit => Inv
  BY SchemaInit DEF AllInit
<1>2. Inv /\ [AllNext]_allVars => Inv'
  <2> SUFFICES ASSUME Inv, [AllNext]_allVars, part' = "schema" PROVE SchemaInv'
    OBVIOUS
  <2>1. part = "schema" /\ SchemaInv /\ (S!Next \/ UNCHANGED schemaVars)
    BY DEF AllNext, allVars
  <2> QED BY <2>1, SchemaStep, SchemaUnchanged
<1>3. Inv => SchemaIsSound
  <2> SUFFICES ASSUME SchemaInv PROVE S!SchemaIsSound
    BY DEF SchemaIsSound
  <2>1. S!TypeOK
    <3>1. \A t \in S!Tables : /\ tab[t] # None => tab[t] \in SomeTable
                              /\ new[t] # None => new[t] \in SomeTable
      BY DEF SchemaInv, SchemaTypes
    <3>2. ASSUME NEW t \in S!Tables, NEW x \in {tab, new}, x[t] # None
          PROVE  x[t].cols \subseteq S!Columns /\ x[t].rows \subseteq S!OldRows(t)
      <4>1. x[t] \in SomeTable
        BY <3>1, <3>2
      <4>2. x[t].rows \subseteq S!OldRows(t)
        BY <3>2 DEF SchemaInv, NodesInv, UsersInv, TrafficInv, Rebuilding, S!OldRows, S!Tables
      <4> QED BY <4>1, <4>2 DEF SomeTable
    <3>3. /\ idx \subseteq S!Indices /\ token \subseteq Nodes /\ totals \subseteq Owners
          /\ name \in [Nodes -> Names] /\ used \subseteq Nodes
          /\ \A t \in S!Tables : seen[t] \subseteq S!Columns
          /\ deaths \in 0..MaxDeaths /\ starts \in 0..MaxStarts
      BY DEF SchemaInv, SchemaTypes, NamesWithoutEnd
    <3>4. {"users_telegram", "users_oauth"} \cap idx # {} => tab["users"] # None
      BY DEF SchemaInv, UsersInv
    <3> QED BY <3>2, <3>3, <3>4 DEF S!TypeOK
  <2>2. S!RowsSurvive
    BY DEF S!RowsSurvive, S!OldRows, S!Tables, SchemaInv, NodesInv, UsersInv, TrafficInv, Rebuilding
  <2>3. S!Running => stmt = 29
    BY Statements DEF S!Running
  <2>4. stmt = 29 => S!IsInjective(name)
    BY DEF SchemaInv, SchemaTypes, NamesInv, S!IsInjective
  <2>5. S!RepairsItself
    BY <2>3, <2>4 DEF S!RepairsItself, SchemaInv, NodesInv, NamesInv, UsersInv
  <2>6. S!WholeWithoutCrash
    <3> SUFFICES ASSUME stmt = 29, deaths = 0
                 PROVE  /\ {"socks5_port", "agent_token"} \subseteq tab["nodes"].cols
                        /\ token = Nodes /\ totals = Owners
                        /\ \A t \in S!Tables : tab[t].rows = S!OldRows(t) /\ new[t] = None
                        /\ {"nodeloc_id", "cascade"} \cap (tab["users"].cols \cup tab["traffic"].cols) = {}
                        /\ "users_telegram" \in idx
      BY <2>3 DEF S!WholeWithoutCrash
    <3>1. {"socks5_port", "agent_token"} \subseteq tab["nodes"].cols /\ token = Nodes /\ totals = Owners
      BY DEF SchemaInv, NodesInv, GroupsInv, TotalsInv
    <3>2. \A t \in S!Tables : tab[t].rows = S!OldRows(t) /\ new[t] = None
      BY DEF SchemaInv, NodesInv, UsersInv, TrafficInv, Rebuilding, S!OldRows, S!Tables
    <3>3. {"nodeloc_id", "cascade"} \cap (tab["users"].cols \cup tab["traffic"].cols) = {}
      BY DEF SchemaInv, UsersInv, TrafficInv
    <3>4. "users_telegram" \in idx
      BY DEF SchemaInv, UsersInv, SettlingInv
    <3> QED BY <3>1, <3>2, <3>3, <3>4
  <2>7. S!SchemaSettles
    <3> SUFFICES ASSUME stmt = 29, deaths = 0, starts >= 1
                 PROVE  "oauth" \in tab["users"].cols /\ idx = S!Indices
      BY <2>3 DEF S!SchemaSettles
    <3>1. starts > 0
      BY DEF SchemaInv, SchemaTypes
    <3>2. "nodes_name" \in idx /\ "users_telegram" \in idx
      BY DEF SchemaInv, NamesInv, UsersInv, SettlingInv
    <3>3. "oauth" \in tab["users"].cols /\ "users_oauth" \in idx
      BY <3>1 DEF SchemaInv, SettlingInv
    <3> QED BY <3>2, <3>3 DEF SchemaInv, SchemaTypes, S!Indices
  <2> QED BY <2>1, <2>2, <2>5, <2>6, <2>7 DEF S!SchemaIsSound
<1> QED BY <1>1, <1>2, <1>3, PTL DEF AllSpec
=============================================================================
