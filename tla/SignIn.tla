-------------------------------- MODULE SignIn --------------------------------
(***************************************************************************)
(* Mailed codes and their budgets, the resetting of a password and the     *)
(* temporary administrator login (routes/auth.js).  All of it is memory of *)
(* the process; the one await is the mail, between the storing of a code   *)
(* and the handling of a failure.                                          *)
(*                                                                         *)
(* Time is counted in cool-downs.  Whose account an address is, and the    *)
(* invitation a registration needs, is Signup.                             *)
(***************************************************************************)
EXTENDS Integers, Sequences, FiniteSets

CONSTANTS
  Addresses,
  CodeTtl,        \* CODE_TTL in cool-downs
  Hour,           \* the hour of the budgets
  GlobalLimit,    \* GLOBAL_HOURLY_LIMIT
  RecipientLimit, \* RECIPIENT_HOURLY_LIMIT
  MaxTries,       \* wrong entries a code stands
  TokenTtl,       \* TEMP_LOGIN_USED_TOKEN_TTL_MS
  TokenUntil,     \* TEMP_LOGIN_EXPIRES_AT
  MaxTime,        \* bound: time
  MaxCodes,       \* bound: codes generated
  MaxRestarts,    \* bound: restarts of the panel
  None

SignInAssumption ==
  /\ {CodeTtl, Hour, TokenTtl} \subseteq Nat \ {0}
  /\ {GlobalLimit, RecipientLimit, MaxTries, TokenUntil, MaxTime, MaxCodes, MaxRestarts} \subseteq Nat
  /\ None \notin Nat

Purposes == {"register", "forgot"}

VARIABLES
  now,
  registered,  \* addresses that have an account
  codes,       \* emailCodes and forgotCodes: None or the code, when, entries
  mails,       \* awaited mails
  known,       \* codes that reached the owner of the address
  window,      \* globalSendWindowStart, globalSendCount
  times,       \* recipientSendTimes; the entries of a list differ by their code
  spent,       \* usedTempLoginTokens: when the token was used, or None
  log,         \* history of this process: mails sent
  entered,     \* history of each code: wrong entries against it, changes it made
  logins,      \* history of this process: temporary logins
  restarts

vars == <<now, registered, codes, mails, known, window, times, spent, log, entered, logins, restarts>>

historyVars == <<entered, logins>>

Stored(p, x)  == codes[p][x]
Expired(p, x) == Stored(p, x) # None /\ now > Stored(p, x).at + CodeTtl
Cool(p, x)    == Stored(p, x) # None => now - Stored(p, x).at >= 1
Forget(p, x)  == codes' = [codes EXCEPT ![p][x] = None]
Codes         == DOMAIN entered
----------------------------------------------------------------------------
Init ==
  /\ now = 0
  /\ registered = {}
  /\ codes = [p \in Purposes |-> [x \in Addresses |-> None]]
  /\ mails = {} /\ known = {}
  /\ window = [start |-> 0, count |-> 0]
  /\ times = [x \in Addresses |-> {}]
  /\ spent = None
  /\ log = {} /\ entered = <<>> /\ logins = <<>>
  /\ restarts = 0

Tick ==
  /\ now < MaxTime
  /\ now' = now + 1
  /\ UNCHANGED <<registered, codes, mails, known, window, times, spent, log, historyVars, restarts>>

\* checkGlobalSendLimit: the window begins anew with the first call after an hour
Window == IF now - window.start > Hour THEN [start |-> now, count |-> 0] ELSE window

\* checkRecipientLimit: the mails of the last hour
Recent(x) == {m \in times[x] : now - m.at < Hour}

Asked(p, x) == (p = "forgot" <=> x \in registered) /\ Cool(p, x)

\* Variant: the mails of the last hour are counted per purpose
SendByPurpose(p, x) ==
  /\ Asked(p, x) /\ Len(entered) < MaxCodes
  /\ Window.count < GlobalLimit
  /\ Cardinality(Recent(x)) < RecipientLimit \/ \A m \in log : m.to = x => m.p # p
  /\ LET c == Len(entered) + 1 IN
     /\ entered' = Append(entered, [wrong |-> 0, changed |-> 0])
     /\ codes' = [codes EXCEPT ![p][x] = [code |-> c, at |-> now, attempts |-> 0]]
     /\ mails' = mails \cup {[p |-> p, to |-> x, code |-> c]}
     /\ log' = log \cup {[p |-> p, to |-> x, code |-> c, at |-> now]}
     /\ times' = [times EXCEPT ![x] = Recent(x) \cup {[code |-> c, at |-> now]}]
  /\ window' = [Window EXCEPT !.count = @ + 1]
  /\ UNCHANGED <<now, registered, known, spent, logins, restarts>>

\* POST /send-email-code, /forgot-send-code up to the await
Send(p, x) ==
  /\ Asked(p, x) /\ Len(entered) < MaxCodes
  /\ Window.count < GlobalLimit
  /\ Cardinality(Recent(x)) < RecipientLimit
  /\ LET c == Len(entered) + 1 IN
     /\ entered' = Append(entered, [wrong |-> 0, changed |-> 0])
     /\ codes' = [codes EXCEPT ![p][x] = [code |-> c, at |-> now, attempts |-> 0]]
     /\ mails' = mails \cup {[p |-> p, to |-> x, code |-> c]}
     /\ log' = log \cup {[p |-> p, to |-> x, code |-> c, at |-> now]}
     /\ times' = [times EXCEPT ![x] = Recent(x) \cup {[code |-> c, at |-> now]}]
  /\ window' = [Window EXCEPT !.count = @ + 1]
  /\ UNCHANGED <<now, registered, known, spent, logins, restarts>>

\* Refused for the recipient's sake: the common budget was charged before
SendRefused(p, x) ==
  /\ Asked(p, x)
  /\ Window.count < GlobalLimit
  /\ Cardinality(Recent(x)) >= RecipientLimit
  /\ window' = [Window EXCEPT !.count = @ + 1]
  /\ UNCHANGED <<now, registered, codes, mails, known, times, spent, log, historyVars, restarts>>

MailSent(m) ==
  /\ mails' = mails \ {m} /\ known' = known \cup {m.code}
  /\ UNCHANGED <<now, registered, codes, window, times, spent, log, historyVars, restarts>>

\* The error takes away the code of the address, be it that of a later mail
MailFails(m) ==
  /\ mails' = mails \ {m}
  /\ Forget(m.p, m.to)
  /\ UNCHANGED <<now, registered, known, window, times, spent, log, historyVars, restarts>>

\* cleanupExpiredCodes, and an entry that comes too late
CodeExpires(p, x) ==
  /\ Expired(p, x) /\ Forget(p, x)
  /\ UNCHANGED <<now, registered, mails, known, window, times, spent, log, historyVars, restarts>>

Entry(p, x) == Stored(p, x) # None /\ ~Expired(p, x)

\* The entry after the last that is allowed takes the code away
TooManyTries(p, x) ==
  /\ Entry(p, x) /\ Stored(p, x).attempts >= MaxTries
  /\ Forget(p, x)
  /\ UNCHANGED <<now, registered, mails, known, window, times, spent, log, historyVars, restarts>>

\* Another code
WrongEntry(p, x) ==
  /\ Entry(p, x) /\ Stored(p, x).attempts < MaxTries
  /\ codes' = [codes EXCEPT ![p][x].attempts = @ + 1]
  /\ entered' = [entered EXCEPT ![Stored(p, x).code].wrong = @ + 1]
  /\ UNCHANGED <<now, registered, mails, known, window, times, spent, log, logins, restarts>>

\* POST /forgot-reset with the right code and a password that is refused: the
\* entry was charged before.  POST /email-register charges only for another
\* code: a right one that is refused, for the password, the closed registration,
\* the domain or the invitation, leaves everything as it was.
RefusedReset(x) ==
  /\ Entry("forgot", x) /\ Stored("forgot", x).attempts < MaxTries
  /\ Stored("forgot", x).code \in known
  /\ codes' = [codes EXCEPT !["forgot"][x].attempts = @ + 1]
  /\ UNCHANGED <<now, registered, mails, known, window, times, spent, log, historyVars, restarts>>

\* POST /forgot-reset, /email-register with the right code: the account gets
\* its password
RightEntry(p, x) ==
  /\ Entry(p, x) /\ Stored(p, x).attempts < MaxTries
  /\ Stored(p, x).code \in known
  /\ entered' = [entered EXCEPT ![Stored(p, x).code].changed = @ + 1]
  /\ Forget(p, x)
  /\ registered' = registered \cup {x}
  /\ UNCHANGED <<now, mails, known, window, times, spent, log, logins, restarts>>

\* The account of an accepted registration cannot be made; its code is gone
RegistrationFails(x) ==
  /\ Entry("register", x) /\ Stored("register", x).attempts < MaxTries
  /\ Stored("register", x).code \in known
  /\ Forget("register", x)
  /\ UNCHANGED <<now, registered, mails, known, window, times, spent, log, historyVars, restarts>>

\* POST /temp-login; consumeTempLoginTokenIfNeeded forgets a use after its time
TempLogin ==
  /\ now <= TokenUntil
  /\ spent # None => now - spent > TokenTtl
  /\ spent' = now /\ logins' = Append(logins, now)
  /\ UNCHANGED <<now, registered, codes, mails, known, window, times, log, entered, restarts>>

\* The maps and counters of the module are gone
Restart ==
  /\ restarts < MaxRestarts
  /\ restarts' = restarts + 1
  /\ codes' = [p \in Purposes |-> [x \in Addresses |-> None]]
  /\ mails' = {}
  /\ window' = [start |-> now, count |-> 0]
  /\ times' = [x \in Addresses |-> {}]
  /\ spent' = None /\ log' = {} /\ logins' = <<>>
  /\ UNCHANGED <<now, registered, known, entered>>

Next ==
  \/ Tick \/ TempLogin \/ Restart
  \/ \E m \in mails : MailSent(m) \/ MailFails(m)
  \/ \E p \in Purposes, x \in Addresses :
       \/ Send(p, x) \/ SendRefused(p, x) \/ CodeExpires(p, x)
       \/ TooManyTries(p, x) \/ WrongEntry(p, x) \/ RightEntry(p, x)
  \/ \E x \in Addresses : RefusedReset(x) \/ RegistrationFails(x)

Spec == Init /\ [][Next]_vars
----------------------------------------------------------------------------
\* Types, and a code that is stored or mailed was generated.
TypeOK ==
  /\ now \in 0..MaxTime /\ registered \subseteq Addresses
  /\ \A p \in Purposes, x \in Addresses : Stored(p, x) # None =>
       Stored(p, x).code \in Codes /\ Stored(p, x).at <= now /\ Stored(p, x).attempts \in 0..MaxTries
  /\ \A m \in mails : m.code \in Codes /\ m.to \in Addresses
  /\ known \subseteq Codes
  /\ window.start <= now /\ window.count \in 0..GlobalLimit
  /\ spent # None => spent <= now
  /\ restarts \in 0..MaxRestarts

\* What may be used once is used once: a code lets in at most one password and
\* stands at most MaxTries wrong entries, however sending, failing, entering and
\* restarting are interleaved (how often a right registration code is entered and
\* refused has no bound); a temporary token lets in once in its time, in one life
\* of the process (auth.js:459-467, 590-617, 702-733).
UsedOnce ==
  /\ \A c \in Codes : entered[c].changed <= 1 /\ entered[c].wrong <= MaxTries
  /\ \A i, j \in DOMAIN logins : i < j => logins[j] - logins[i] > TokenTtl

\* In any hour of a process's life an address gets at most RecipientLimit
\* mails, for both purposes together; and the common count is never below the
\* number of mails sent since its window began, so that all of them stay below
\* the common limit (auth.js:28-57).
MailBudget ==
  /\ \A x \in Addresses, t \in 0..now :
       Cardinality({m \in log : m.to = x /\ t - Hour < m.at /\ m.at <= t}) <= RecipientLimit
  /\ Cardinality({m \in log : m.at >= window.start}) <= window.count

\* Codes and tokens are used once, and mails stay within their budgets
\* (auth.js:28-57, 588-617).
CodesAreBounded == TypeOK /\ UsedOnce /\ MailBudget
=============================================================================
