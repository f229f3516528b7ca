------------------------------ MODULE MCAccounts ------------------------------
(* Instances for TLC of what befalls accounts: Accounts (one account that has  *)
(* both ways to log in, one node of a higher group), Binding (two accounts and *)
(* two Telegram accounts) and Subscription (two clients, one more than the     *)
(* limit; two links, three keys).  One of the three takes its course.           *)
EXTENDS Accounts

CONSTANTS n1, Members, Telegrams, None, Clients, MaxReq, MaxSeen, UaLimit, MaxLinks, MaxKeys

VipOnly == [n \in {n1} |-> 1]

VARIABLES
  part,
  users, gift, telegram, token, ripe, shut, probe, found, gifts, stops,
  link, key, active, guard, lasting, cache, events, resetBy, nodeKey, pushDue, pushLost, answered, asked, floor

bindingVars == <<users, gift, telegram, token, ripe, shut, probe, found, gifts, stops>>
subVars     == <<link, key, active, guard, lasting, cache, events, resetBy, nodeKey, pushDue, pushLost,
                 answered, asked, floor>>
allVars     == <<part, vars, bindingVars, subVars>>

B == INSTANCE Binding WITH Accounts <- Members, limit <- gift, restarts <- stops
L == INSTANCE Subscription WITH served <- answered

ASSUME PartsAssumption == B!BindingBoundsAssumption /\ L!SubscriptionAssumption

AllInit ==
  /\ part \in {"accounts", "binding", "subscription"} /\ Init /\ B!Init /\ L!Init
  /\ part # "accounts" => limit = [u \in Users |-> 0]
  /\ part # "subscription" => lasting

AllNext ==
  \/ part = "accounts" /\ Next /\ UNCHANGED <<part, bindingVars, subVars>>
  \/ part = "binding"  /\ B!Next /\ UNCHANGED <<part, vars, subVars>>
  \/ part = "subscription" /\ L!Next /\ UNCHANGED <<part, vars, bindingVars>>

\* The fairness of the part that takes its course
AccountsFairness ==
  /\ \A n \in Nodes : WF_vars(part = "accounts" /\ Push(n))
  /\ WF_vars(part = "accounts" /\ Rotate)
  /\ WF_vars(part = "accounts" /\ FourOClock)
  /\ \A u \in Users : WF_vars(part = "accounts" /\ Fetch(u))
BindingFairness ==
  /\ WF_bindingVars(part = "binding" /\ B!FourOClock)
  /\ WF_bindingVars(part = "binding" /\ B!ProbeStart)
  /\ WF_bindingVars(part = "binding" /\ B!ProbeEnd)
  /\ WF_bindingVars(part = "binding" /\ \E p \in probe : B!ProbeNext(p))
  /\ \A a \in Members : WF_bindingVars(part = "binding" /\ B!Ripen(a))
SubscriptionFairness ==
  /\ \A l \in 1..MaxLinks : WF_subVars(part = "subscription" /\ L!CacheExpires(l))
  /\ WF_subVars(part = "subscription" /\ L!BanEnds)
  /\ WF_subVars(part = "subscription" /\ \E c \in Clients : L!Request(link, c))

AllSpec ==
  /\ AllInit /\ [][AllNext]_allVars
  /\ AccountsFairness /\ BindingFairness /\ SubscriptionFairness
----------------------------------------------------------------------------
\* One account per Telegram, and no traffic without one
BindingsAreSound  == B!BindingsAreSound
\* Those who block the bot are unbound, the unbound are deleted
UnboundAreCleared == B!UnboundAreCleared
\* Links serve their user, with the present keys
LinksAreSound     == L!LinksAreSound
\* A link that too many clients use is reset
SharedLinkGoes    == L!SharedLinkGoes
=============================================================================
