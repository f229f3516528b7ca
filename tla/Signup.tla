-------------------------------- MODULE Signup --------------------------------
(***************************************************************************)
(* Registration: by e-mail with a mailed code and an invitation, or through *)
(* NodeLoc (routes/auth.js, services/database.js, repos/userRepo.js).  The  *)
(* handlers have one await, the mail: it lies between the storing of a code *)
(* and the handling of its failure, and other requests come in between.     *)
(*                                                                         *)
(* A code that has expired counts as deleted, as the handlers treat it.    *)
(* Limits on the number of mails and the switches that close registration  *)
(* altogether are left out.  What becomes of an account is Binding.        *)
(***************************************************************************)
EXTENDS Integers, Sequences, FiniteSets, SequencesExt

CONSTANTS
  Accounts,    \* the accounts that may be registered
  Kind,        \* "email" or "nodeloc"
  Address,     \* the normalised e-mail address of an account
  Invites,     \* bound: rows of invite_codes at a time
  MaxCodes,    \* bound: codes stored or being mailed
  MaxTries,    \* wrong entries that a code survives
  MaxRestarts, \* bound: restarts of the panel
  None

SignupAssumption ==
  /\ Kind \in [Accounts -> {"email", "nodeloc"}]
  /\ MaxCodes \in Nat /\ MaxTries \in Nat /\ MaxRestarts \in Nat

Addresses == {Address[a] : a \in Accounts}

\* Codes are numbered; 0 is the fixed code of the first user
Skip == 0

VARIABLES
  users,     \* rows of users, by id
  admin,     \* users.is_admin
  invites,   \* invite_codes: None or a row
  inviteOnly, \* setting invite_registration_enabled
  codes,     \* emailCodes: None, or the code, the wrong entries, whether a minute
             \* has passed since and whether the code is known to its owner
  mails,     \* awaited mails: <<address, code>>
  joined,    \* history: registrations per invitation
  restarts

vars == <<users, admin, invites, inviteOnly, codes, mails, joined, restarts>>

userVars   == <<users, admin>>
inviteVars == <<invites, joined>>

Rows == Range(users)

\* isEmailRegistered; the address of a NodeLoc profile counts as well
IsRegistered(x) == \E a \in Rows : Address[a] = x

\* Variant: a code is unused while no account is named as its user, which an
\* account that was deleted is not any more
UsableUnnamed(i) == invites[i] # None /\ invites[i].usedBy = None /\ invites[i].young

\* getUsableInviteCode
Usable(i) == invites[i] # None /\ ~invites[i].used /\ invites[i].young

Invitation(by) == [by |-> by, young |-> TRUE, used |-> FALSE, usedBy |-> None]

\* The first code that is neither stored nor in a mail
NewCodes ==
  LET inUse == {m[2] : m \in mails} \cup {codes[x].code : x \in {y \in Addresses : codes[y] # None}}
      free  == (1..MaxCodes) \ inUse IN
  {c \in free : \A d \in free : c <= d}
----------------------------------------------------------------------------
Init ==
  /\ users = <<>> /\ admin = {}
  /\ invites = [i \in Invites |-> None]
  /\ inviteOnly \in BOOLEAN
  /\ codes = [x \in Addresses |-> None]
  /\ mails = {}
  /\ joined = [i \in Invites |-> 0]
  /\ restarts = 0

Store(x, c) ==
  codes' = [codes EXCEPT ![x] = [code |-> c, wrong |-> 0, cool |-> FALSE, known |-> c = Skip]]
Forget(x)   == codes' = [codes EXCEPT ![x] = None]

\* POST /send-email-code while there is no user
SendFirst(x) ==
  /\ users = <<>>
  /\ Store(x, Skip)
  /\ UNCHANGED <<userVars, inviteVars, inviteOnly, mails, restarts>>

\* POST /send-email-code
SendCode(x) ==
  /\ users # <<>> /\ ~IsRegistered(x)
  /\ inviteOnly => \E i \in Invites : Usable(i)
  /\ codes[x] # None => codes[x].cool
  /\ \E c \in NewCodes : Store(x, c) /\ mails' = mails \cup {<<x, c>>}
  /\ UNCHANGED <<userVars, inviteVars, inviteOnly, restarts>>

Read(m) ==
  codes' = [codes EXCEPT ![m[1]] = IF @ # None /\ @.code = m[2] THEN [@ EXCEPT !.known = TRUE] ELSE @]

\* The mail arrives; sendMail resolves, or rejects whether or not it arrived
MailArrives(m) ==
  /\ Read(m)
  /\ UNCHANGED <<userVars, inviteVars, inviteOnly, mails, restarts>>
MailSent(m) ==
  /\ mails' = mails \ {m}
  /\ Read(m)
  /\ UNCHANGED <<userVars, inviteVars, inviteOnly, restarts>>
MailFails(m) ==
  /\ mails' = mails \ {m}
  /\ Forget(m[1])
  /\ UNCHANGED <<userVars, inviteVars, inviteOnly, restarts>>

\* A minute, ten minutes
CodeCools(x) ==
  /\ codes[x] # None /\ ~codes[x].cool
  /\ codes' = [codes EXCEPT ![x].cool = TRUE]
  /\ UNCHANGED <<userVars, inviteVars, inviteOnly, mails, restarts>>
CodeExpires(x) ==
  /\ codes[x] # None /\ codes[x].cool
  /\ Forget(x)
  /\ UNCHANGED <<userVars, inviteVars, inviteOnly, mails, restarts>>

\* POST /email-register with a wrong code, or with any after too many
WrongCode(x) ==
  /\ codes[x] # None
  /\ IF codes[x].wrong >= MaxTries THEN Forget(x)
     ELSE codes' = [codes EXCEPT ![x].wrong = @ + 1]
  /\ UNCHANGED <<userVars, inviteVars, inviteOnly, mails, restarts>>

\* getDefaultSignupSettings and the INSERT: the first user becomes administrator
InsertUser(a) ==
  /\ users' = Append(users, a)
  /\ admin' = IF users = <<>> THEN admin \cup {a} ELSE admin

\* The transaction of createInvitedEmailUser
UseInvite(i, a) ==
  /\ Usable(i)
  /\ invites' = [invites EXCEPT ![i] = [@ EXCEPT !.used = TRUE, !.usedBy = a]]
  /\ joined' = [joined EXCEPT ![i] = @ + 1]

\* POST /email-register with the code
EmailRegister(a) ==
  LET x == Address[a] IN
  /\ a \notin Rows /\ Kind[a] = "email"
  /\ codes[x] # None /\ codes[x].wrong < MaxTries /\ codes[x].known
  /\ ~IsRegistered(x)
  /\ InsertUser(a)
  /\ IF inviteOnly /\ users # <<>> THEN \E i \in Invites : UseInvite(i, a)
     ELSE UNCHANGED inviteVars
  /\ Forget(x)
  /\ UNCHANGED <<inviteOnly, mails, restarts>>

\* The NodeLoc callback for a subject without an account; the address of the
\* profile is not compared with those registered
NodeLocRegister(a) ==
  /\ a \notin Rows /\ Kind[a] = "nodeloc"
  /\ InsertUser(a)
  /\ UNCHANGED <<inviteVars, inviteOnly, codes, mails, restarts>>

\* generateInviteCodeForUser: once a week, the administrator as often as he likes
Generate(a, i) ==
  /\ a \in Rows /\ invites[i] = None
  /\ a \in admin \/ \A j \in Invites :
       invites[j] # None /\ invites[j].by = a => ~invites[j].young
  /\ invites' = [invites EXCEPT ![i] = Invitation(a)]
  /\ joined' = [joined EXCEPT ![i] = 0]
  /\ UNCHANGED <<userVars, inviteOnly, codes, mails, restarts>>

\* A week later: the code expires, unless the administrator made it
WeekPasses(i) ==
  /\ invites[i] # None /\ invites[i].young /\ invites[i].by \notin admin
  /\ invites' = [invites EXCEPT ![i].young = FALSE]
  /\ UNCHANGED <<userVars, joined, inviteOnly, codes, mails, restarts>>

\* cleanupExpiredInviteCodes
Cleanup ==
  LET dead == {i \in Invites : invites[i] # None /\ ~invites[i].used /\ ~invites[i].young} IN
  /\ dead # {}
  /\ invites' = [i \in Invites |-> IF i \in dead THEN None ELSE invites[i]]
  /\ UNCHANGED <<userVars, joined, inviteOnly, codes, mails, restarts>>

\* The administrator turns invitations on or off
SwitchInvites ==
  /\ inviteOnly' = ~inviteOnly
  /\ UNCHANGED <<userVars, inviteVars, codes, mails, restarts>>

\* deleteUserCascade, for an ordinary account.  The foreign keys delete the
\* invitations of the account and clear used_by_user_id.
DeleteUser(a) ==
  /\ a \in Rows \ admin
  /\ \E k \in DOMAIN users : users[k] = a /\ users' = RemoveAt(users, k)
  /\ invites' = [i \in Invites |->
                   IF invites[i] = None \/ invites[i].by = a THEN None
                   ELSE [invites[i] EXCEPT !.usedBy = IF @ = a THEN None ELSE @]]
  /\ UNCHANGED <<admin, joined, inviteOnly, codes, mails, restarts>>

Restart ==
  /\ restarts < MaxRestarts
  /\ restarts' = restarts + 1
  /\ codes' = [x \in Addresses |-> None]
  /\ mails' = {}
  /\ UNCHANGED <<userVars, inviteVars, inviteOnly>>

Next ==
  \/ \E x \in Addresses : SendFirst(x) \/ SendCode(x) \/ CodeCools(x) \/ CodeExpires(x) \/ WrongCode(x)
  \/ \E m \in mails : MailArrives(m) \/ MailSent(m) \/ MailFails(m)
  \/ \E a \in Accounts : EmailRegister(a) \/ NodeLocRegister(a) \/ DeleteUser(a)
  \/ \E a \in Accounts, i \in Invites : Generate(a, i)
  \/ \E i \in Invites : WeekPasses(i)
  \/ Cleanup \/ SwitchInvites \/ Restart

Spec == Init /\ [][Next]_vars

----------------------------------------------------------------------------
Codes == [code : 0..MaxCodes, wrong : 0..MaxTries, cool : BOOLEAN, known : BOOLEAN]
InviteRows == [by : Accounts, young : BOOLEAN, used : BOOLEAN, usedBy : Accounts \cup {None}]

\* The variables have their types, and an invitation names accounts that exist.
TypeOK ==
  /\ Rows \subseteq Accounts /\ IsInjective(users) /\ admin \subseteq Rows
  /\ \A i \in Invites : invites[i] # None =>
       /\ invites[i] \in InviteRows
       /\ invites[i].by \in Rows /\ invites[i].usedBy \in Rows \cup {None}
  /\ inviteOnly \in BOOLEAN
  /\ \A x \in Addresses : codes[x] # None => codes[x] \in Codes
  /\ mails \subseteq Addresses \X (1..MaxCodes)
  /\ restarts \in 0..MaxRestarts

\* However many people start to register while the panel is empty, by e-mail or
\* through NodeLoc, exactly one administrator comes of it, and nobody deletes him.
OneAdministrator == users # <<>> => Cardinality(admin) = 1

\* Accounts of one address: only a NodeLoc account may join an earlier one.  A
\* code that was mailed before the address was registered does not open a
\* second account.
AddressHeldOnce ==
  \A i, j \in 1..Len(users) :
    i < j /\ Address[users[i]] = Address[users[j]] => Kind[users[j]] = "nodeloc"

\* An invitation lets one account in, also after that account was deleted.
InvitedOnce == \A i \in Invites : joined[i] <= 1

\* In a week an ordinary account lets at most one other in: the code it is given
\* after the last one was used is a week younger.
OneGuestPerWeek ==
  \A i, j \in Invites :
    /\ invites[i] # None /\ invites[j] # None /\ i # j
    /\ invites[i].by = invites[j].by /\ invites[i].by \notin admin
    => ~(invites[i].young /\ invites[j].young)

\* Registrations that overlap do not win the same thing twice: the place of the
\* administrator, an address, an invitation, the week of a member's code
\* (auth.js:437-540, database.js:603-680).
RegistrationIsSound ==
  TypeOK /\ OneAdministrator /\ AddressHeldOnce /\ InvitedOnce /\ OneGuestPerWeek
=============================================================================
