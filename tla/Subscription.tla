----------------------------- MODULE Subscription -----------------------------
(***************************************************************************)
(* The subscription of one user: what a client gets that asks with his     *)
(* link (routes/subscription.js), the guard in front of it                 *)
(* (services/subGuard.js, middleware/rateLimit.js), and the resets of the  *)
(* link and of the keys in it (routes/panel.js, services/rotate.js).       *)
(*                                                                         *)
(* A request is handled in one go.  Links and keys are numbered in the     *)
(* order in which they were the user's.  The guard limits addresses in the *)
(* same way as clients, so that a client stands for either.  A body is the key  *)
(* it was built with; that it names no nodes once the traffic is used up,  *)
(* the notice about many addresses and the limits on the size of the tables *)
(* are left out.                                                           *)
(***************************************************************************)
EXTENDS Integers, FiniteSets

CONSTANTS
  Clients,   \* user agents
  MaxReq,    \* guard: requests with a link in a minute
  MaxSeen,   \* guard: clients of a link in two minutes
  UaLimit,   \* guard_auto_reset_ua_24h_limit; 0 turns it off
  MaxLinks,  \* bound: links
  MaxKeys,   \* bound: keys
  None

SubscriptionAssumption ==
  /\ IsFiniteSet(Clients)
  /\ MaxReq \in Nat /\ MaxSeen \in Nat /\ UaLimit \in 0..20
  /\ MaxLinks \in Nat \ {0} /\ MaxKeys \in Nat \ {0}

VARIABLES
  link,     \* users.sub_token
  key,      \* user_node_uuid, for all the user's nodes
  active,   \* neither blocked nor frozen
  guard,    \* tokenGuard for the present link: requests, clients seen, whether banned
  lasting,  \* guard_token_ban_ms is longer than the windows of the guard and the
            \* life of a cached body, as it is by default
  cache,    \* _subCache: None or the key in the body, per link
  events,   \* clients in the user's sub_access_event of the last 24 hours
  resetBy,  \* the user has reset the link himself in the last 24 hours
  nodeKey,  \* the key that the nodes accept
  pushDue,  \* a push to all nodes is due
  pushLost, \* history: a restart came before it
  served,   \* the link and the key of the request just answered, or None
  asked,    \* history: clients that asked since the keys were last reset
  floor     \* history: the key given at that reset

vars == <<link, key, active, guard, lasting, cache, events, resetBy, nodeKey,
          pushDue, pushLost, served, asked, floor>>

keyVars == <<key, floor, nodeKey, pushDue, pushLost>>

Links == 1..MaxLinks
Quiet == [count |-> 0, seen |-> {}, banned |-> FALSE]
\* What the guard remembers shows again when the ban is over
Banned == [count |-> 0, seen |-> {}, banned |-> TRUE]

\* getUserBySubToken
Valid(l) == l = link /\ active

\* checkBehavior
Checked(c) ==
  LET seen == guard.seen \cup {c} IN
  IF guard.banned THEN guard
  ELSE IF guard.count + 1 > MaxReq \/ Cardinality(seen) > MaxSeen THEN Banned
  ELSE [count |-> guard.count + 1, seen |-> seen, banned |-> FALSE]

Guard(l, c)   == guard' = IF l = link THEN Checked(c) ELSE guard
Passes(l, c)  == l # link \/ ~Checked(c).banned
Refuses(l, c) == l # link \/ Checked(c).banned

\* logSubAccessEvent, with the user the link belongs to
Note(l, c) ==
  /\ events' = IF Valid(l) THEN events \cup {c} ELSE events
  /\ asked' = IF Valid(l) THEN asked \cup {c} ELSE asked

\* Variant: one client more
TooManyByTwo == UaLimit > 0 /\ Cardinality(events) > UaLimit + 1

\* The condition of enforceUaAutoReset
TooMany == UaLimit > 0 /\ Cardinality(events) > UaLimit
----------------------------------------------------------------------------
Init ==
  /\ link = 1 /\ key = 1 /\ nodeKey = 1 /\ floor = 1
  /\ active = TRUE
  /\ guard = Quiet
  /\ lasting \in BOOLEAN
  /\ cache = [l \in Links |-> None]
  /\ events = {} /\ asked = {}
  /\ resetBy = FALSE /\ pushDue = FALSE /\ pushLost = FALSE
  /\ served = None

\* Refused before the guard: by address, for its signature or, in the mode
\* enforce, as an unknown client
Refuse(l, c) ==
  /\ Note(l, c)
  /\ served' = None
  /\ UNCHANGED <<link, keyVars, lasting, active, guard, cache, resetBy>>

\* Refused by the guard
Block(l, c) ==
  /\ Refuses(l, c)
  /\ Guard(l, c)
  /\ Note(l, c)
  /\ served' = None
  /\ UNCHANGED <<link, keyVars, lasting, active, cache, resetBy>>

\* Variant: what is in the cache is sent without looking the user up
FromCacheUnchecked(l, c) ==
  /\ Passes(l, c) /\ cache[l] # None
  /\ Guard(l, c)
  /\ Note(l, c)
  /\ served' = [link |-> l, key |-> cache[l]]
  /\ UNCHANGED <<link, keyVars, lasting, active, cache, resetBy>>

\* Within a minute of another request: nothing is counted or built
FromCache(l, c) ==
  /\ Passes(l, c) /\ cache[l] # None /\ Valid(l)
  /\ Guard(l, c)
  /\ Note(l, c)
  /\ served' = [link |-> l, key |-> cache[l]]
  /\ UNCHANGED <<link, keyVars, lasting, active, cache, resetBy>>

\* The link is nobody's, or its owner is blocked or frozen
Unknown(l, c) ==
  /\ Passes(l, c) /\ ~Valid(l)
  /\ Guard(l, c)
  /\ cache' = [cache EXCEPT ![l] = None]
  /\ served' = None
  /\ UNCHANGED <<link, keyVars, lasting, active, events, asked, resetBy>>

\* resetSubToken alone, rotateUserAllNodeUuids
NewLink == link < MaxLinks /\ link' = link + 1 /\ guard' = Quiet
NewKey  == key < MaxKeys /\ key' = key + 1 /\ floor' = key + 1

\* enforceUaAutoReset; the refusal of this request is noted after the window
\* was cleared
AutoReset(l, c) ==
  /\ Passes(l, c) /\ Valid(l) /\ cache[l] = None
  /\ TooMany
  /\ NewLink /\ NewKey
  /\ events' = {c} /\ asked' = {c}
  /\ pushDue' = TRUE
  /\ served' = None
  /\ UNCHANGED <<nodeKey, pushLost, lasting, active, cache, resetBy>>

\* The body is built and cached
Build(l, c) ==
  /\ Passes(l, c) /\ Valid(l) /\ cache[l] = None
  /\ ~TooMany
  /\ Guard(l, c)
  /\ cache' = [cache EXCEPT ![l] = key]
  /\ Note(l, c)
  /\ served' = [link |-> l, key |-> key]
  /\ UNCHANGED <<link, keyVars, lasting, active, resetBy>>

Request(l, c) ==
  Block(l, c) \/ FromCache(l, c) \/ Unknown(l, c) \/ AutoReset(l, c) \/ Build(l, c)

\* POST /api/reset-subscription, once a day
SelfReset ==
  /\ ~resetBy
  /\ NewLink /\ NewKey
  /\ events' = {} /\ asked' = {}
  /\ resetBy' = TRUE
  /\ pushDue' = TRUE
  /\ served' = None
  /\ UNCHANGED <<nodeKey, pushLost, lasting, active, cache>>

\* POST /users/:id/reset-token and the nightly rotation: the link only
ResetLink ==
  /\ NewLink
  /\ served' = None
  /\ UNCHANGED <<keyVars, lasting, active, cache, events, asked, resetBy>>

\* The nightly rotation of the keys, which are pushed next
Rotate ==
  /\ key < MaxKeys
  /\ key' = key + 1
  /\ pushDue' = TRUE
  /\ served' = None
  /\ UNCHANGED <<link, floor, nodeKey, pushLost, lasting, active, guard, cache, events, asked, resetBy>>

Push ==
  /\ pushDue
  /\ nodeKey' = key
  /\ pushDue' = FALSE /\ pushLost' = FALSE
  /\ served' = None
  /\ UNCHANGED <<link, key, floor, lasting, active, guard, cache, events, asked, resetBy>>

\* The user is frozen, blocked or released
Change ==
  /\ active' = ~active
  /\ served' = None
  /\ UNCHANGED <<link, keyVars, lasting, guard, cache, events, asked, resetBy>>

\* A minute: the cached body is old, the guard starts another window
CacheExpires(l) ==
  /\ cache[l] # None
  /\ cache' = [cache EXCEPT ![l] = None]
  /\ served' = None
  /\ UNCHANGED <<link, keyVars, lasting, active, guard, events, asked, resetBy>>
WindowEnds ==
  /\ guard.count > 0
  /\ guard' = [guard EXCEPT !.count = 0]
  /\ served' = None
  /\ UNCHANGED <<link, keyVars, lasting, active, cache, events, asked, resetBy>>
\* Two minutes
SeenExpires ==
  /\ guard.count = 0
  /\ \E c \in guard.seen : guard' = [guard EXCEPT !.seen = @ \ {c}]
  /\ served' = None
  /\ UNCHANGED <<link, keyVars, lasting, active, cache, events, asked, resetBy>>
\* A quarter of an hour, or as long as the settings say.  A ban that lasts is
\* over when all is forgotten that was counted, seen and cached before it; after
\* a shorter one the guard still knows any of it.
BanEnds ==
  /\ guard.banned
  /\ lasting => cache[link] = None
  /\ guard' \in {g \in [count : 0..MaxReq, seen : SUBSET Clients, banned : {FALSE}] :
                   Cardinality(g.seen) <= MaxSeen /\ (lasting => g = Quiet)}
  /\ served' = None
  /\ UNCHANGED <<link, keyVars, lasting, active, cache, events, asked, resetBy>>
\* 24 hours after an event, after a reset
EventAges ==
  /\ \/ \E c \in events : events' = events \ {c} /\ UNCHANGED resetBy
     \/ resetBy /\ resetBy' = FALSE /\ UNCHANGED events
  /\ served' = None
  /\ UNCHANGED <<link, keyVars, lasting, active, guard, cache, asked>>

\* reloadSubGuard, after a change of the settings
ReloadGuard ==
  /\ guard' = Quiet
  /\ lasting' \in BOOLEAN
  /\ served' = None
  /\ UNCHANGED <<link, keyVars, active, cache, events, asked, resetBy>>
\* The timer of the push is in memory
Restart ==
  /\ pushDue' = FALSE
  /\ pushLost' = (pushLost \/ pushDue)
  /\ guard' = Quiet
  /\ cache' = [l \in Links |-> None]
  /\ served' = None
  /\ UNCHANGED <<link, key, floor, nodeKey, lasting, active, events, asked, resetBy>>

Next ==
  \/ \E l \in Links, c \in Clients : l <= link /\ (Refuse(l, c) \/ Request(l, c))
  \/ \E l \in Links : CacheExpires(l)
  \/ WindowEnds \/ SeenExpires \/ BanEnds
  \/ SelfReset \/ ResetLink \/ Rotate \/ Push \/ Change
  \/ EventAges \/ ReloadGuard \/ Restart

\* Time passes, and somebody goes on using the link
Fairness ==
  /\ \A l \in Links : WF_vars(CacheExpires(l))
  /\ WF_vars(BanEnds)
  /\ WF_vars(\E c \in Clients : Request(link, c))

Spec == Init /\ [][Next]_vars /\ Fairness

----------------------------------------------------------------------------
\* The variables have their types; the counts of the guard stay within its limits.
TypeOK ==
  /\ link \in Links /\ key \in 1..MaxKeys /\ floor \in 1..key /\ nodeKey \in 1..key
  /\ {lasting, active, resetBy, pushDue, pushLost} \subseteq BOOLEAN
  /\ guard \in [count : 0..MaxReq, seen : SUBSET Clients, banned : BOOLEAN]
  /\ Cardinality(guard.seen) <= MaxSeen
  /\ \A l \in Links : cache[l] # None => cache[l] \in 1..key
  /\ events \subseteq Clients /\ asked \subseteq Clients
  /\ served # None => served \in [link : Links, key : 1..key]

\* A subscription goes to the present link of a user in good standing only, and
\* what is cached makes no difference.
ServedToTheUser == served # None => Valid(served.link)

\* Once the keys were reset with the link, nobody is sent the old keys, whatever
\* was cached before; a nightly rotation alone leaves up to a minute.
NewLinkNewKeys == served # None => served.key >= floor

\* When keys that the nodes accept are not the user's any more, a push is due:
\* every way to reset them asks for one, and only a restart loses it.
KeysReachNodes == nodeKey # key => pushDue \/ pushLost

\* A link that more than UaLimit clients keep using does not stay: neither the
\* cache, which bypasses the count, nor the bans keep it alive.  (The last link
\* the bound allows is exempt, and a limit that is turned off; so are bans shorter
\* than the guard's memory, after which every request may be refused again.)
SharedLinkGoes ==
  \A l \in 1..(MaxLinks - 1) :
    ~<>[](/\ link = l /\ active /\ key < MaxKeys /\ lasting
          /\ UaLimit > 0 /\ Cardinality(events) > UaLimit)

\* Only the present link of a user in good standing is served, with keys no older
\* than the last reset, and the nodes are told of every change of the keys
\* (subscription.js:64-280).
LinksAreSound == TypeOK /\ ServedToTheUser /\ NewLinkNewKeys /\ KeysReachNodes
=============================================================================
