---------------------------- MODULE IpSwapProofs ----------------------------
(***************************************************************************)
(* Theorems about IpSwap for any machine: the types and what can overwrite *)
(* the host of an IPv6 node, for any number of swaps at once and any       *)
(* failing calls; and that one swap at a time leaks no address; and about  *)
(* ContainerCore, for any numbers of users, connections and units.         *)
(*                                                                         *)
(* That the container loses no traffic is inductive only together with     *)
(* DrainInv: Drain writes what it takes from a counter over what it took   *)
(* before, which is harmless because a counter it has still to take has    *)
(* nothing in its hand.                                                    *)
(***************************************************************************)
EXTENDS MCIpSwap, FiniteSetTheorems, TLAPS

USE NodesAssumption, AddrAssumption, MaxStopsAssumption

Labels == {"idle", "describe", "detach", "release", "allocate", "attach", "update"}
Local == [at : Labels, node : Nodes, oldHost : Addrs \cup {SixAddr, None},
          old : Addrs \cup {None}, new : Addrs \cup {None}]

\* From its allocation on a swap knows the new address.
NewKnown == \A s \in Swaps : swap[s].at \in {"attach", "update"} => swap[s].new \in Addrs

TypeInv == TypeOK /\ NewKnown

----------------------------------------------------------------------------
\* Ending a swap leaves the local variables typed ...
LEMMA GiveUpType ==
  ASSUME TypeInv, NEW s \in Swaps, GiveUp(s)
  PROVE  swap' \in [Swaps -> Local] /\ NewKnown'
BY DEF TypeInv, TypeOK, NewKnown, GiveUp, NoSwap, Local, Labels

\* ... and so does moving one.
LEMMA GotoType ==
  ASSUME TypeInv, NEW s \in Swaps, NEW l \in Labels, Goto(s, l),
         l \in {"attach", "update"} => swap[s].new \in Addrs
  PROVE  swap' \in [Swaps -> Local] /\ NewKnown'
BY DEF TypeInv, TypeOK, NewKnown, Goto, Local, Labels

\* Every step of a swap keeps the types.
LEMMA SwapTypeStep ==
  ASSUME TypeInv, NEW s \in Swaps, SwapStep(s)
  PROVE  TypeInv'
<1> USE DEF TypeInv, Labels, Local
<1>0. swap \in [Swaps -> Local]
  BY DEF TypeOK
<1>1. CASE Describe(s)
  <2> DEFINE looked == [swap[s] EXCEPT !.old = attached, !.at = IF attached = None THEN "allocate" ELSE "detach"]
  <2>1. swap' = [swap EXCEPT ![s] = looked]
    BY <1>1 DEF Describe
  <2>2. looked \in Local /\ looked.at \in {"allocate", "detach"}
    BY <1>0 DEF TypeOK
  <2> HIDE DEF looked
  <2>3. swap' \in [Swaps -> Local] /\ NewKnown'
    BY <1>0, <2>1, <2>2 DEF NewKnown
  <2> QED BY <1>1, <2>3 DEF Describe, TypeOK
<1>2. CASE Detach(s)
  <2>1. swap' \in [Swaps -> Local] /\ NewKnown'
    BY <1>2, GotoType, GiveUpType DEF Detach
  <2> QED BY <1>2, <2>1 DEF Detach, TypeOK
<1>3. CASE Release(s)
  <2>1. swap' \in [Swaps -> Local] /\ NewKnown'
    BY <1>3, GotoType, GiveUpType DEF Release
  <2> QED BY <1>3, <2>1 DEF Release, TypeOK
<1>4. CASE Allocate(s)
  <2>1. swap' \in [Swaps -> Local] /\ NewKnown'
    <3>1. PICK a \in Addrs : swap' = [swap EXCEPT ![s] = [@ EXCEPT !.new = a, !.at = "attach"]]
      BY <1>4 DEF Allocate
    <3> QED BY <1>0, <3>1 DEF NewKnown
  <2> QED BY <1>4, <2>1 DEF Allocate, TypeOK
<1>5. CASE Attach(s)
  <2>1. swap[s].new \in Addrs
    BY <1>5 DEF Attach, NewKnown
  <2>2. swap' \in [Swaps -> Local] /\ NewKnown'
    BY <1>5, <2>1, GotoType DEF Attach
  <2> QED BY <1>5, <2>1, <2>2 DEF Attach, TypeOK
<1>6. CASE AttachFails(s)
  <2>1. swap' \in [Swaps -> Local] /\ NewKnown'
    BY <1>6, GiveUpType DEF AttachFails
  <2> QED BY <1>6, <2>1 DEF AttachFails, TypeOK
<1>7. CASE CallFails(s)
  <2>1. swap' \in [Swaps -> Local] /\ NewKnown'
    BY <1>7, GiveUpType DEF CallFails
  <2> QED BY <1>7, <2>1 DEF CallFails, TypeOK
<1>8. CASE UpdateDb(s)
  <2>1. swap' \in [Swaps -> Local] /\ NewKnown'
    BY <1>8, GiveUpType DEF UpdateDb
  <2>2. swap[s].new \in Addrs
    BY <1>8 DEF UpdateDb, NewKnown
  <2>3. host' \in [Nodes -> Addrs \cup {SixAddr}] /\ sshHost' \in [Nodes -> Addrs]
    BY <1>8, <2>2 DEF UpdateDb, TypeOK
  <2> QED BY <1>8, <2>1, <2>3 DEF UpdateDb, TypeOK
<1> QED
  BY <1>1, <1>2, <1>3, <1>4, <1>5, <1>6, <1>7, <1>8 DEF SwapStep

\* So does every step.
LEMMA TypeStep == TypeInv /\ [Next]_vars => TypeInv'
<1> SUFFICES ASSUME TypeInv, [Next]_vars PROVE TypeInv'
  OBVIOUS
<1>0. swap \in [Swaps -> Local]
  BY DEF TypeInv, TypeOK, Local, Labels
<1>1. ASSUME NEW s \in Swaps, NEW n \in Bound, Start(s, n) PROVE TypeInv'
  <2>1. swap' \in [Swaps -> Local] /\ NewKnown'
    BY <1>0, <1>1 DEF Start, NoSwap, TypeInv, TypeOK, NewKnown, Local, Labels
  <2> QED BY <1>1, <2>1 DEF Start, TypeInv, TypeOK, Local, Labels
<1>2. ASSUME NEW s \in Swaps, SwapStep(s) PROVE TypeInv'
  BY <1>2, SwapTypeStep
<1>3. CASE AutoCorrect(cached) \/ AutoCorrect(attached)
  <2>1. ASSUME NEW ip \in Addrs, AutoCorrect(ip) PROVE TypeInv'
    BY <2>1 DEF AutoCorrect, TypeInv, TypeOK, NewKnown
  <2> QED BY <1>3, <2>1 DEF AutoCorrect, TypeInv, TypeOK
<1>4. CASE Restart
  <2>1. swap' \in [Swaps -> Local] /\ NewKnown'
    BY <1>4 DEF Restart, NoSwap, NewKnown, Local, Labels
  <2> QED BY <1>4, <2>1 DEF Restart, TypeInv, TypeOK, Local, Labels
<1>5. CASE UNCHANGED vars
  BY <1>5 DEF vars, TypeInv, TypeOK, NewKnown
<1> QED BY <1>1, <1>2, <1>3, <1>4, <1>5 DEF Next

\* Before the first swap no local variable is in use.
LEMMA TypeInit == Init => TypeInv
<1> SUFFICES ASSUME Init PROVE TypeInv
  OBVIOUS
<1>1. PICK a \in Addrs : /\ allocated = {a} /\ attached = a /\ cached = a
                         /\ host = [n \in Nodes |-> IF n \in V6 THEN SixAddr ELSE a]
                         /\ sshHost = [n \in Nodes |-> a]
  BY DEF Init
<1>2. swap = [s \in Swaps |-> NoSwap] /\ stops = 0 /\ hasty \in BOOLEAN
  BY DEF Init
<1>3. swap \in [Swaps -> Local] /\ NewKnown
  BY <1>2 DEF NoSwap, NewKnown, Local, Labels
<1> QED BY <1>1, <1>2, <1>3 DEF TypeInv, TypeOK, Local, Labels

\* The variables of IpSwap have their types.
THEOREM TypeCorrect == Spec => []TypeOK
BY TypeInit, TypeStep, PTL DEF Spec, TypeInv

----------------------------------------------------------------------------
\* What makes SixKeptByOthers true: a host never becomes the IPv6 address, so a
\* swap called for a node that still has it remembers it as the former host.
SixInv ==
  \A s \in Swaps : swap[s].at # "idle" /\ host[swap[s].node] = SixAddr => swap[s].oldHost = SixAddr

\* Hosts do not become the IPv6 address.
LEMMA NoNewSix ==
  ASSUME TypeInv, [Next]_vars, NEW n \in Nodes, host'[n] = SixAddr
  PROVE  host[n] = SixAddr
<1>0. host \in [Nodes -> Addrs \cup {SixAddr}]
  BY DEF TypeInv, TypeOK
<1>1. ASSUME NEW s \in Swaps, UpdateDb(s) PROVE host[n] = SixAddr
  <2>1. swap[s].new \in Addrs
    BY <1>1 DEF UpdateDb, TypeInv, NewKnown
  <2> QED BY <1>0, <1>1, <2>1 DEF UpdateDb
<1>2. ASSUME NEW ip \in Addrs, AutoCorrect(ip) PROVE host[n] = SixAddr
  BY <1>0, <1>2 DEF AutoCorrect
<1>3. CASE AutoCorrect(cached) \/ AutoCorrect(attached)
  BY <1>2, <1>3 DEF AutoCorrect, TypeInv, TypeOK
<1>4. ASSUME NEW s \in Swaps, SwapStep(s), ~UpdateDb(s) PROVE UNCHANGED host
  BY <1>4 DEF SwapStep, Describe, Detach, Release, Allocate, Attach, AttachFails, CallFails
<1>5. ASSUME NEW s \in Swaps, NEW m \in Bound, Start(s, m) PROVE UNCHANGED host
  BY <1>5 DEF Start
<1>6. CASE Restart \/ UNCHANGED vars
  BY <1>6 DEF Restart, vars
<1> QED BY <1>1, <1>3, <1>4, <1>5, <1>6 DEF Next

\* A swap keeps its node and what it remembers until it ends.
LEMMA SwapKeeps ==
  ASSUME TypeInv, NEW s \in Swaps, SwapStep(s), NEW t \in Swaps, swap'[t].at # "idle"
  PROVE  swap[t].at # "idle" /\ swap'[t].node = swap[t].node /\ swap'[t].oldHost = swap[t].oldHost
<1>0. swap \in [Swaps -> Local]
  BY DEF TypeInv, TypeOK, Local, Labels
<1> DEFINE Kept == swap[t].at # "idle" /\ swap'[t].node = swap[t].node
                                      /\ swap'[t].oldHost = swap[t].oldHost
<1>1. ASSUME NEW l \in Labels, swap[s].at # "idle", Goto(s, l) PROVE Kept
  BY <1>0, <1>1 DEF Goto, Local
<1>2. ASSUME GiveUp(s) PROVE Kept
  BY <1>0, <1>2 DEF GiveUp, NoSwap, Local
<1>3. ASSUME NEW a \in Addrs \cup {None}, NEW l \in Labels, swap[s].at # "idle",
             swap' = [swap EXCEPT ![s] = [@ EXCEPT !.old = a, !.at = l]]
      PROVE  Kept
  BY <1>0, <1>3 DEF Local
<1>4. ASSUME NEW a \in Addrs, NEW l \in Labels, swap[s].at # "idle",
             swap' = [swap EXCEPT ![s] = [@ EXCEPT !.new = a, !.at = l]]
      PROVE  Kept
  BY <1>0, <1>4 DEF Local
<1>5. \/ \E l \in Labels : swap[s].at # "idle" /\ Goto(s, l)
      \/ GiveUp(s)
      \/ \E a \in Addrs \cup {None}, l \in Labels :
           swap[s].at # "idle" /\ swap' = [swap EXCEPT ![s] = [@ EXCEPT !.old = a, !.at = l]]
      \/ \E a \in Addrs, l \in Labels :
           swap[s].at # "idle" /\ swap' = [swap EXCEPT ![s] = [@ EXCEPT !.new = a, !.at = l]]
  <2>1. CASE Describe(s)
    BY <2>1 DEF Describe, TypeInv, TypeOK, Labels
  <2>2. CASE Allocate(s)
    BY <2>2 DEF Allocate, Labels
  <2>3. CASE Detach(s) \/ Release(s) \/ Attach(s) \/ AttachFails(s) \/ CallFails(s) \/ UpdateDb(s)
    BY <2>3 DEF Detach, Release, Attach, AttachFails, CallFails, UpdateDb, Labels
  <2> QED BY <2>1, <2>2, <2>3 DEF SwapStep
<1>6. Kept
  <2> HIDE DEF Kept
  <2> QED BY <1>1, <1>2, <1>3, <1>4, <1>5
<1> QED BY <1>6

\* Every step keeps SixInv.
LEMMA SixStep == TypeInv /\ SixInv /\ [Next]_vars => SixInv'
<1> SUFFICES ASSUME TypeInv, SixInv, [Next]_vars,
                    NEW t \in Swaps, swap'[t].at # "idle", host'[swap'[t].node] = SixAddr
             PROVE  swap'[t].oldHost = SixAddr
  BY DEF SixInv
<1>0. swap \in [Swaps -> Local] /\ host \in [Nodes -> Addrs \cup {SixAddr}]
  BY DEF TypeInv, TypeOK, Local, Labels
<1> DEFINE Kept == swap[t].at # "idle" /\ swap'[t].node = swap[t].node
                                      /\ swap'[t].oldHost = swap[t].oldHost
<1>1. CASE Kept
  <2>1. swap[t].node \in Nodes
    BY <1>0 DEF Local
  <2>2. host[swap[t].node] = SixAddr
    BY <1>1, <2>1, NoNewSix
  <2> QED BY <1>1, <2>2 DEF SixInv
<1>2. ASSUME NEW s \in Swaps, NEW n \in Bound, Start(s, n) PROVE Kept \/ swap'[t].oldHost = SixAddr
  <2>1. CASE t = s
    BY <1>0, <1>2, <2>1 DEF Start, NoSwap, Local
  <2>2. CASE t # s
    BY <1>0, <1>2, <2>2 DEF Start, Local
  <2> QED BY <2>1, <2>2
<1>3. ASSUME NEW s \in Swaps, SwapStep(s) PROVE Kept
  BY <1>3, SwapKeeps
<1>4. CASE AutoCorrect(cached) \/ AutoCorrect(attached)
  BY <1>1, <1>4 DEF AutoCorrect
<1>5. CASE Restart
  BY <1>5 DEF Restart, NoSwap
<1>6. CASE UNCHANGED vars
  BY <1>1, <1>6 DEF vars
<1> QED BY <1>1, <1>2, <1>3, <1>4, <1>5, <1>6 DEF Next

\* An IPv6 host goes only by a swap called for a node that has it: the peers a
\* swap rewrites are those that have its former host, and a report leaves IPv6
\* nodes theirs.
LEMMA SixByOwn ==
  ASSUME TypeInv, SixInv, [Next]_vars, NEW n \in V6, host[n] = SixAddr, host'[n] # SixAddr
  PROVE  \E s \in Swaps : swap[s].at = "update" /\ swap[s].oldHost = SixAddr
<1>0. host \in [Nodes -> Addrs \cup {SixAddr}]
  BY DEF TypeInv, TypeOK
<1>1. ASSUME NEW s \in Swaps, UpdateDb(s)
      PROVE  \E t \in Swaps : swap[t].at = "update" /\ swap[t].oldHost = SixAddr
  <2>1. swap[s].at = "update"
    BY <1>1 DEF UpdateDb
  <2>2. n = swap[s].node \/ host[n] = swap[s].oldHost
    BY <1>0, <1>1 DEF UpdateDb
  <2> QED BY <2>1, <2>2 DEF SixInv
<1>2. ASSUME NEW ip, AutoCorrect(ip) PROVE FALSE
  BY <1>0, <1>2 DEF AutoCorrect
<1>3. ASSUME NEW s \in Swaps, SwapStep(s), ~UpdateDb(s) PROVE UNCHANGED host
  BY <1>3 DEF SwapStep, Describe, Detach, Release, Allocate, Attach, AttachFails, CallFails
<1>4. ASSUME NEW s \in Swaps, NEW m \in Bound, Start(s, m) PROVE UNCHANGED host
  BY <1>4 DEF Start
<1>5. CASE Restart \/ UNCHANGED vars
  BY <1>5 DEF Restart, vars
<1> QED BY <1>1, <1>2, <1>3, <1>4, <1>5 DEF Next

\* Through any number of overlapping swaps of any nodes, reports with fresh and
\* stale addresses, failures and restarts, an IPv6 host is overwritten only by a
\* swap called for a node that has it: the code's "only ssh_host, never host" for
\* IPv6 twins (aws.js:459) holds, for the node itself it does not.
THEOREM SixSafe == Spec => SixKeptByOthers
<1>1. Init => SixInv
  BY DEF Init, NoSwap, SixInv
<1>2. TypeInv /\ SixInv /\ [Next]_vars
        => [\A n \in V6 : host[n] = SixAddr /\ host'[n] # SixAddr
              => \E s \in Swaps : swap[s].at = "update" /\ swap[s].oldHost = SixAddr]_vars
  BY SixByOwn
<1> QED BY <1>1, <1>2, TypeInit, TypeStep, SixStep, PTL DEF Spec, SixKeptByOthers

----------------------------------------------------------------------------
\* The inductive form of NoAddressLeaked for one swap at a time: between the
\* detachment and the attachment the machine has no address, and what is about
\* to be detached is what the machine has.
LeakInv ==
  /\ NoAddressLeaked
  /\ stops = 0 =>
       \A s \in Swaps :
         /\ swap[s].at = "detach" => swap[s].old = attached
         /\ swap[s].at \in {"release", "allocate", "attach"} => attached = None

\* With one swap, what is allocated is attached or held by that swap.
LEMMA HeldByOne ==
  ASSUME NEW s \in Swaps, \A t \in Swaps : t = s
  PROVE  UNION {Held(t) : t \in Swaps} = Held(s)
<1>1. {Held(t) : t \in Swaps} = {Held(s)}
  OBVIOUS
<1> QED BY <1>1

\* While no restart has happened, a step of the only swap leaves no address
\* behind, unless the release itself fails.
LEMMA LeakSwapStep ==
  ASSUME "release" \notin Failing, NEW s \in Swaps, \A t \in Swaps : t = s,
         TypeInv, LeakInv, SwapStep(s)
  PROVE  LeakInv'
<1> DEFINE Own(at, old, new) ==
             IF at = "release" THEN {old} ELSE IF at = "attach" THEN {new} ELSE {}
<1>0. swap \in [Swaps -> Local] /\ allocated \subseteq Addrs /\ attached \in Addrs \cup {None}
  BY DEF TypeInv, TypeOK, Local, Labels
<1>1. stops' = stops
  BY DEF SwapStep, Describe, Detach, Release, Allocate, Attach, AttachFails, CallFails, UpdateDb
<1>2. CASE stops # 0
  BY <1>1, <1>2 DEF LeakInv, NoAddressLeaked
<1>3. CASE stops = 0
  <2>1. Held(s) = Own(swap[s].at, swap[s].old, swap[s].new)
    BY DEF Held
  <2>2. Held(s)' = Own(swap'[s].at, swap'[s].old, swap'[s].new)
    BY DEF Held
  <2>3. allocated \subseteq {attached} \cup Own(swap[s].at, swap[s].old, swap[s].new)
    BY <1>3, <2>1, HeldByOne DEF LeakInv, NoAddressLeaked
  <2>4. /\ swap[s].at = "detach" => swap[s].old = attached
        /\ swap[s].at \in {"release", "allocate", "attach"} => attached = None
    BY <1>3 DEF LeakInv
  <2> DEFINE Good == /\ allocated' \subseteq {attached'} \cup Own(swap'[s].at, swap'[s].old, swap'[s].new)
                     /\ swap'[s].at = "detach" => swap'[s].old = attached'
                     /\ swap'[s].at \in {"release", "allocate", "attach"} => attached' = None
  <2>5. ASSUME GiveUp(s) PROVE swap'[s].at = "idle"
    BY <1>0, <2>5 DEF GiveUp, NoSwap
  <2>6. ASSUME NEW l, Goto(s, l)
        PROVE  swap'[s].at = l /\ swap'[s].old = swap[s].old /\ swap'[s].new = swap[s].new
    BY <1>0, <2>6 DEF Goto, Local
  <2>7. (UNION {Held(t) : t \in Swaps})' = Held(s)'
    <3>1. {Held(t)' : t \in Swaps} = {Held(s)'}
      OBVIOUS
    <3> QED BY <3>1
  <2> SUFFICES Good
    <3>1. ASSUME Good PROVE LeakInv'
      <4>1. NoAddressLeaked'
        BY <2>2, <2>7, <3>1 DEF NoAddressLeaked
      <4> QED BY <3>1, <4>1 DEF LeakInv
    <3> QED BY <3>1
  <2>8. CASE Describe(s)
    <3>1. /\ swap'[s].old = attached
          /\ swap'[s].at = IF attached = None THEN "allocate" ELSE "detach"
      BY <1>0, <2>8 DEF Describe, Local
    <3> QED BY <2>3, <2>8, <3>1 DEF Describe
  <2>9. CASE Detach(s)
    <3>1. attached' = None /\ Goto(s, "release")
      BY <2>4, <2>9 DEF Detach
    <3> QED BY <2>3, <2>4, <2>9, <2>6, <3>1 DEF Detach
  <2>10. CASE Release(s)
    <3>1. CASE swap[s].old \in allocated
      <4>1. allocated' = allocated \ {swap[s].old} /\ Goto(s, "allocate")
        BY <2>10, <3>1 DEF Release
      <4> QED BY <1>0, <2>3, <2>4, <2>10, <2>6, <4>1 DEF Release
    <3>2. CASE swap[s].old \notin allocated
      <4>1. allocated' = allocated /\ GiveUp(s)
        BY <2>10, <3>2 DEF Release
      <4> QED BY <1>0, <2>3, <2>4, <2>10, <2>5, <3>2, <4>1 DEF Release
    <3> QED BY <3>1, <3>2
  <2>11. CASE Allocate(s)
    <3>1. swap'[s].at = "attach" /\ swap'[s].new \in Addrs /\ allocated' = allocated \cup {swap'[s].new}
      BY <1>0, <2>11 DEF Allocate, Local
    <3> QED BY <1>0, <2>3, <2>4, <2>11, <3>1 DEF Allocate
  <2>12. CASE Attach(s)
    <3>1. attached' = swap[s].new /\ swap'[s].at = "update"
      BY <2>12, <2>6 DEF Attach
    <3> QED BY <1>0, <2>3, <2>4, <2>12, <3>1 DEF Attach
  <2>13. CASE AttachFails(s)
    BY <1>0, <2>3, <2>4, <2>13, <2>5 DEF AttachFails
  <2>14. CASE CallFails(s)
    BY <1>0, <2>3, <2>4, <2>14, <2>5 DEF CallFails
  <2>15. CASE UpdateDb(s)
    BY <1>0, <2>3, <2>4, <2>15, <2>5 DEF UpdateDb
  <2> HIDE DEF Good
  <2> QED BY <2>8, <2>9, <2>10, <2>11, <2>12, <2>13, <2>14, <2>15 DEF SwapStep
<1> QED BY <1>2, <1>3

\* Neither does any other step: a new swap holds nothing, a correction
\* allocates nothing, and a restart ends the promise.
LEMMA LeakStep ==
  ASSUME "release" \notin Failing, \A s, t \in Swaps : s = t
  PROVE  TypeInv /\ LeakInv /\ [Next]_vars => LeakInv'
<1> SUFFICES ASSUME TypeInv, LeakInv, [Next]_vars PROVE LeakInv'
  OBVIOUS
<1>0. swap \in [Swaps -> Local] /\ stops \in Nat
  BY DEF TypeInv, TypeOK, Local, Labels
<1>1. ASSUME NEW s \in Swaps, NEW n \in Bound, Start(s, n) PROVE LeakInv'
  <2>1. swap'[s].at = "describe" /\ swap[s].at = "idle" /\ \A t \in Swaps : t = s
    BY <1>0, <1>1 DEF Start, NoSwap
  <2>2. Held(s) = {} /\ Held(s)' = {}
    BY <2>1 DEF Held
  <2>3. UNION {Held(t) : t \in Swaps} = {}
    BY <2>1, <2>2, HeldByOne
  <2>4. (UNION {Held(t) : t \in Swaps})' = Held(s)'
    <3>1. {Held(t)' : t \in Swaps} = {Held(s)'}
      BY <2>1
    <3> QED BY <3>1
  <2>5. NoAddressLeaked'
    BY <1>1, <2>2, <2>3, <2>4 DEF Start, LeakInv, NoAddressLeaked
  <2> QED BY <2>1, <2>5 DEF LeakInv
<1>2. ASSUME NEW s \in Swaps, SwapStep(s) PROVE LeakInv'
  BY <1>2, LeakSwapStep
<1>3. CASE AutoCorrect(cached) \/ AutoCorrect(attached)
  <2>1. UNCHANGED <<allocated, attached, swap, stops>>
    BY <1>3 DEF AutoCorrect
  <2> QED BY <2>1 DEF LeakInv, NoAddressLeaked, Held
<1>4. CASE Restart
  <2>1. stops' # 0
    BY <1>0, <1>4 DEF Restart
  <2> QED BY <2>1 DEF LeakInv, NoAddressLeaked
<1>5. CASE UNCHANGED vars
  BY <1>5 DEF vars, LeakInv, NoAddressLeaked, Held
<1> QED BY <1>1, <1>2, <1>3, <1>4, <1>5 DEF Next

\* One swap at a time leaks no address, whatever the corrections by reports do
\* meanwhile, as long as the panel stays up and a release does not fail: the
\* old address is released and the new one attached, or released again.
\* Run swap_twice shows that two overlapping swaps do leak one.
THEOREM NoLeakAlone ==
  ASSUME "release" \notin Failing, \A s, t \in Swaps : s = t
  PROVE  Spec => []NoAddressLeaked
<1>1. Init => LeakInv
  BY DEF Init, NoSwap, LeakInv, NoAddressLeaked
<1> QED BY <1>1, TypeInit, TypeStep, LeakStep, PTL DEF Spec, LeakInv

----------------------------------------------------------------------------
(* The container core *)

\* ContainerCore counts as the library does.
LEMMA SameCount == \A Z : C!Cardinality(Z) = Cardinality(Z)
  BY DEF C!Cardinality, Cardinality

LEMMA CoreLimits ==
  /\ MaxUnits \in Nat /\ MaxRestarts \in Nat /\ MaxChanges \in Nat
  /\ None \notin Users /\ None \notin SUBSET C!Counters
  BY CoreAssumption DEF C!CoreAssumption

\* The goroutines that hold a unit they have read and not yet counted.
Holders(u, d) == {c \in Conns : conn[c].user = u /\ pump[<<c, d>>] = "holding"}

\* Connections and goroutines.
ConnTypes ==
  /\ conn \in [Conns -> [user : Users \cup {None}, at : {"none", "dialing", "relay"}, closed : BOOLEAN]]
  /\ pump \in [Conns \X C!Dirs -> {"off", "reading", "holding", "ended"}]
  /\ \A c \in Conns :
       /\ conn[c].at # "none" => conn[c].user \in Users
       /\ \A d \in C!Dirs : pump[<<c, d>>] # "off" <=> conn[c].at = "relay"

\* Where units can be.
UnitTypes ==
  /\ ctr \in [C!Counters -> Nat] /\ hand \in [C!Counters -> Nat]
  /\ wire \in [C!Counters -> Nat] /\ recorded \in [C!Counters -> Nat]
  /\ lost \in [C!Counters -> Nat] /\ moved \in [C!Counters -> 0..MaxUnits]
  /\ \A u \in Users, d \in C!Dirs : IsFiniteSet(Holders(u, d))

TableTypes ==
  /\ allowed \subseteq Users /\ table \subseteq Users
  /\ changes \in 0..MaxChanges /\ restarts \in 0..MaxRestarts
  /\ fetch # None => fetch.users \subseteq Users
  /\ session \in BOOLEAN

\* What Drain has taken is only of the counters it does not have to take any
\* more, so that taking a counter overwrites nothing.
DrainInv ==
  /\ todo # None => todo \subseteq C!Counters
  /\ \A k \in C!Counters : todo = None \/ k \in todo => hand[k] = 0

Accounted ==
  \A u \in Users, d \in C!Dirs :
    moved[<<u, d>>] = ctr[<<u, d>>] + hand[<<u, d>>] + wire[<<u, d>>] + recorded[<<u, d>>] + lost[<<u, d>>]
                  + Cardinality(Holders(u, d))

CoreInv == ConnTypes /\ UnitTypes /\ TableTypes /\ DrainInv /\ Accounted

\* A sum of counters is one of natural numbers.
LEMMA PlusType ==
  ASSUME NEW f \in [C!Counters -> Nat], NEW g \in [C!Counters -> Nat]
  PROVE  /\ C!Plus(f, g) \in [C!Counters -> Nat]
         /\ \A u \in Users, d \in C!Dirs : C!Plus(f, g)[<<u, d>>] = f[<<u, d>>] + g[<<u, d>>]
  BY DEF C!Plus, C!Counters

LEMMA ZeroType ==
  /\ C!Zero \in [C!Counters -> Nat]
  /\ \A u \in Users, d \in C!Dirs : C!Zero[<<u, d>>] = 0
  BY DEF C!Zero, C!Counters

LEMMA HoldersCounted ==
  UnitTypes => \A u \in Users, d \in C!Dirs : Cardinality(Holders(u, d)) \in Nat
  BY FS_CardinalityType DEF UnitTypes

\* The invariant gives the bounds of TypeOK: no place holds more than was moved.
LEMMA CoreTypes == CoreInv => C!TypeOK
<1> SUFFICES ASSUME CoreInv PROVE C!TypeOK
  OBVIOUS
<1>1. ASSUME NEW k \in C!Counters
      PROVE  ctr[k] <= MaxUnits /\ hand[k] <= MaxUnits /\ wire[k] <= MaxUnits /\ recorded[k] <= MaxUnits
  <2>1. PICK u \in Users, d \in C!Dirs : k = <<u, d>>
    BY DEF C!Counters
  <2>2. /\ moved[<<u, d>>] \in 0..MaxUnits /\ ctr[<<u, d>>] \in Nat /\ hand[<<u, d>>] \in Nat /\ wire[<<u, d>>] \in Nat
        /\ recorded[<<u, d>>] \in Nat /\ lost[<<u, d>>] \in Nat /\ Cardinality(Holders(u, d)) \in Nat
    BY <2>1, HoldersCounted DEF CoreInv, UnitTypes, C!Counters
  <2>3. /\ moved[<<u, d>>] = ctr[<<u, d>>] + hand[<<u, d>>] + wire[<<u, d>>] + recorded[<<u, d>>] + lost[<<u, d>>]
                      + Cardinality(Holders(u, d))
    BY DEF CoreInv, Accounted
  <2> QED BY <2>1, <2>2, <2>3, CoreLimits
<1>2. /\ ctr \in [C!Counters -> 0..MaxUnits] /\ hand \in [C!Counters -> 0..MaxUnits]
      /\ wire \in [C!Counters -> 0..MaxUnits] /\ recorded \in [C!Counters -> 0..MaxUnits]
  BY <1>1, CoreLimits DEF CoreInv, UnitTypes
<1>3. \A c \in Conns : conn[c].at = "relay" => conn[c].user # None
  BY CoreLimits DEF CoreInv, ConnTypes
<1> QED BY <1>2, <1>3 DEF CoreInv, ConnTypes, TableTypes, DrainInv, C!TypeOK

----------------------------------------------------------------------------
(* Connections *)

\* As long as nobody starts or ends to hold, and no counter moves, all is
\* accounted for.
LEMMA HoldersSame ==
  ASSUME CoreInv, ConnTypes', UNCHANGED <<ctr, todo, hand, session, wire, recorded, lost, moved>>,
         \A u \in Users, d \in C!Dirs : Holders(u, d)' = Holders(u, d), TableTypes'
  PROVE  CoreInv'
<1>1. UnitTypes'
  BY DEF CoreInv, UnitTypes
<1>2. DrainInv' /\ Accounted'
  BY DEF CoreInv, DrainInv, Accounted
<1> QED BY <1>1, <1>2 DEF CoreInv

LEMMA ConnStep ==
  ASSUME CoreInv, NEW c \in Conns,
         (\E u \in Users : C!Accept(c, u)) \/ C!DialFails(c) \/ C!Relay(c)
  PROVE  CoreInv'
<1> USE DEF C!Dirs
<1>1. UNCHANGED <<allowed, changes, table, fetch, restarts, ctr, todo, hand, session, wire, recorded, lost, moved>>
  BY DEF C!Accept, C!DialFails, C!Relay, C!panelVars, C!storeVars, C!meterVars, C!reportVars
<1>2. TableTypes'
  BY <1>1 DEF CoreInv, TableTypes
<1>3. ConnTypes
  BY DEF CoreInv
<1>4. table \subseteq Users
  BY DEF CoreInv, TableTypes
<1>5. ASSUME NEW u \in Users, C!Accept(c, u)
      PROVE  ConnTypes' /\ \A v \in Users, d \in C!Dirs : Holders(v, d)' = Holders(v, d)
  <2>1. /\ conn[c].at = "none" /\ u \in Users
        /\ conn' = [conn EXCEPT ![c] = [@ EXCEPT !.user = u, !.at = "dialing"]] /\ pump' = pump
    BY <1>5 DEF C!Accept
  <2>2. /\ conn'[c].user = u /\ conn'[c].at = "dialing" /\ conn'[c].closed = conn[c].closed
        /\ \A e \in Conns \ {c} : conn'[e] = conn[e]
        /\ conn' \in [Conns -> [user : Users \cup {None}, at : {"none", "dialing", "relay"}, closed : BOOLEAN]]
    BY <1>3, <2>1 DEF ConnTypes
  <2>3. \A d \in C!Dirs : pump[<<c, d>>] = "off"
    BY <1>3, <2>1 DEF ConnTypes
  <2>4. ConnTypes'
    BY <1>3, <2>1, <2>2, <2>3 DEF ConnTypes
  <2>5. \A v \in Users, d \in C!Dirs : Holders(v, d)' = Holders(v, d)
    BY <2>1, <2>2, <2>3 DEF Holders
  <2> QED BY <2>4, <2>5
<1>6. ASSUME C!DialFails(c)
      PROVE  ConnTypes' /\ \A v \in Users, d \in C!Dirs : Holders(v, d)' = Holders(v, d)
  <2>1. /\ conn[c].at = "dialing" /\ pump' = pump
        /\ conn' = [conn EXCEPT ![c] = [@ EXCEPT !.at = "none", !.closed = TRUE]]
    BY <1>6 DEF C!DialFails
  <2>2. /\ conn'[c].user = conn[c].user /\ conn'[c].at = "none"
        /\ \A e \in Conns \ {c} : conn'[e] = conn[e]
        /\ conn' \in [Conns -> [user : Users \cup {None}, at : {"none", "dialing", "relay"}, closed : BOOLEAN]]
    BY <1>3, <2>1 DEF ConnTypes
  <2>3. \A d \in C!Dirs : pump[<<c, d>>] = "off"
    BY <1>3, <2>1 DEF ConnTypes
  <2>4. ConnTypes'
    BY <1>3, <2>1, <2>2, <2>3 DEF ConnTypes
  <2>5. \A v \in Users, d \in C!Dirs : Holders(v, d)' = Holders(v, d)
    BY <2>1, <2>2, <2>3 DEF Holders
  <2> QED BY <2>4, <2>5
<1>7. ASSUME C!Relay(c)
      PROVE  ConnTypes' /\ \A v \in Users, d \in C!Dirs : Holders(v, d)' = Holders(v, d)
  <2>1. /\ conn[c].at = "dialing"
        /\ conn' = [conn EXCEPT ![c].at = "relay"]
        /\ pump' = [k \in Conns \X C!Dirs |-> IF k[1] = c THEN "reading" ELSE pump[k]]
    BY <1>7 DEF C!Relay
  <2>2. /\ conn'[c].user = conn[c].user /\ conn'[c].at = "relay"
        /\ \A e \in Conns \ {c} : conn'[e] = conn[e]
        /\ conn' \in [Conns -> [user : Users \cup {None}, at : {"none", "dialing", "relay"}, closed : BOOLEAN]]
    BY <1>3, <2>1 DEF ConnTypes
  <2>3. \A d \in C!Dirs : pump[<<c, d>>] = "off"
    BY <1>3, <2>1 DEF ConnTypes
  <2>4. /\ \A d \in C!Dirs : pump'[<<c, d>>] = "reading"
        /\ \A e \in Conns \ {c}, d \in C!Dirs : pump'[<<e, d>>] = pump[<<e, d>>]
    BY <2>1
  <2>5. pump' \in [Conns \X C!Dirs -> {"off", "reading", "holding", "ended"}]
    BY <1>3, <2>1 DEF ConnTypes
  <2>6. ConnTypes'
    BY <1>3, <2>1, <2>2, <2>4, <2>5 DEF ConnTypes
  <2>7. ASSUME NEW v \in Users, NEW d \in C!Dirs PROVE Holders(v, d)' = Holders(v, d)
    <3>1. c \notin Holders(v, d) /\ c \notin Holders(v, d)'
      BY <2>3, <2>4 DEF Holders
    <3>2. \A e \in Conns \ {c} : e \in Holders(v, d)' <=> e \in Holders(v, d)
      BY <2>2, <2>4 DEF Holders
    <3> QED BY <3>1, <3>2 DEF Holders
  <2> QED BY <2>6, <2>7
<1> QED BY <1>1, <1>2, <1>5, <1>6, <1>7, HoldersSame

\* A goroutine reads, ends, or closes both ends.
LEMMA PumpStep ==
  ASSUME CoreInv, NEW c \in Conns, NEW d \in C!Dirs,
         C!ReadEnds(c, d) \/ C!CloseBoth(c, d)
  PROVE  CoreInv'
<1>1. UNCHANGED <<allowed, changes, table, fetch, restarts, ctr, todo, hand, session, wire, recorded, lost, moved>>
  BY DEF C!ReadEnds, C!CloseBoth, C!panelVars, C!storeVars, C!meterVars, C!reportVars
<1>2. TableTypes'
  BY <1>1 DEF CoreInv, TableTypes
<1>3. ConnTypes
  BY DEF CoreInv
<1>4. ASSUME C!ReadEnds(c, d)
      PROVE  ConnTypes' /\ \A v \in Users, e \in C!Dirs : Holders(v, e)' = Holders(v, e)
  <2>1. /\ pump[<<c, d>>] = "reading" /\ pump' = [pump EXCEPT ![<<c, d>>] = "ended"] /\ conn' = conn
    BY <1>4 DEF C!ReadEnds
  <2>2. /\ pump' \in [Conns \X C!Dirs -> {"off", "reading", "holding", "ended"}]
        /\ pump'[<<c, d>>] = "ended"
        /\ \A b \in Conns, e \in C!Dirs : b # c \/ e # d => pump'[<<b, e>>] = pump[<<b, e>>]
    BY <1>3, <2>1 DEF ConnTypes
  <2>3. ConnTypes'
    BY <1>3, <2>1, <2>2 DEF ConnTypes
  <2>4. \A v \in Users, e \in C!Dirs : Holders(v, e)' = Holders(v, e)
    BY <2>1, <2>2 DEF Holders
  <2> QED BY <2>3, <2>4
<1>5. ASSUME C!CloseBoth(c, d)
      PROVE  ConnTypes' /\ \A v \in Users, e \in C!Dirs : Holders(v, e)' = Holders(v, e)
  <2>1. pump' = pump /\ conn' = [conn EXCEPT ![c].closed = TRUE]
    BY <1>5 DEF C!CloseBoth
  <2>2. /\ conn' \in [Conns -> [user : Users \cup {None}, at : {"none", "dialing", "relay"}, closed : BOOLEAN]]
        /\ \A b \in Conns : conn'[b].user = conn[b].user /\ conn'[b].at = conn[b].at
    BY <1>3, <2>1 DEF ConnTypes
  <2>3. ConnTypes'
    BY <1>3, <2>1, <2>2 DEF ConnTypes
  <2>4. \A v \in Users, e \in C!Dirs : Holders(v, e)' = Holders(v, e)
    BY <2>1, <2>2 DEF Holders
  <2> QED BY <2>3, <2>4
<1> QED BY <1>1, <1>2, <1>4, <1>5, HoldersSame

\* A unit is read: the goroutine holds it.
LEMMA ReadStep ==
  ASSUME CoreInv, NEW c \in Conns, NEW d \in C!Dirs, C!Read(c, d)
  PROVE  CoreInv'
<1>u. PICK u \in Users : u = conn[c].user
  BY DEF CoreInv, ConnTypes, C!Read
<1>1. ConnTypes /\ UnitTypes
  BY DEF CoreInv
<1>2. /\ pump[<<c, d>>] = "reading" /\ moved[<<u, d>>] < MaxUnits
      /\ pump' = [pump EXCEPT ![<<c, d>>] = "holding"]
      /\ moved' = [moved EXCEPT ![<<u, d>>] = @ + 1]
      /\ UNCHANGED <<conn, allowed, changes, table, fetch, restarts, ctr, todo, hand, session, wire, recorded, lost>>
  BY <1>u DEF C!Read, C!panelVars, C!storeVars, C!meterVars, C!reportVars
<1>3. /\ pump' \in [Conns \X C!Dirs -> {"off", "reading", "holding", "ended"}]
      /\ pump'[<<c, d>>] = "holding"
      /\ \A b \in Conns, e \in C!Dirs : b # c \/ e # d => pump'[<<b, e>>] = pump[<<b, e>>]
  BY <1>1, <1>2 DEF ConnTypes
<1>4. /\ Holders(u, d)' = Holders(u, d) \cup {c} /\ c \notin Holders(u, d)
      /\ \A v \in Users, e \in C!Dirs : v # u \/ e # d => Holders(v, e)' = Holders(v, e)
  BY <1>u, <1>2, <1>3 DEF Holders
<1>5. /\ IsFiniteSet(Holders(u, d)')
      /\ Cardinality(Holders(u, d)') = Cardinality(Holders(u, d)) + 1
  BY <1>1, <1>4, FS_AddElement DEF UnitTypes
<1>6. /\ moved'[<<u, d>>] = moved[<<u, d>>] + 1
      /\ \A v \in Users, e \in C!Dirs : v # u \/ e # d => moved'[<<v, e>>] = moved[<<v, e>>]
      /\ moved' \in [C!Counters -> 0..MaxUnits]
  <2>1. <<u, d>> \in C!Counters /\ moved \in [C!Counters -> 0..MaxUnits]
    BY <1>1 DEF UnitTypes, C!Counters
  <2>2. /\ moved[<<u, d>>] + 1 \in 0..MaxUnits
    BY <1>2, <2>1, CoreLimits
  <2> QED BY <1>2, <2>1, <2>2 DEF C!Counters
<1>7. ConnTypes'
  BY <1>1, <1>2, <1>3 DEF ConnTypes
<1>8. UnitTypes'
  <2>1. \A v \in Users, e \in C!Dirs : IsFiniteSet(Holders(v, e)')
    BY <1>1, <1>4, <1>5 DEF UnitTypes
  <2> QED BY <1>1, <1>2, <1>6, <2>1 DEF UnitTypes
<1>9. Accounted'
  <2>1. ASSUME NEW v \in Users, NEW e \in C!Dirs
        PROVE  moved'[<<v, e>>] = ctr[<<v, e>>] + hand[<<v, e>>] + wire[<<v, e>>] + recorded[<<v, e>>] + lost[<<v, e>>]
                              + Cardinality(Holders(v, e)')
    <3>1. /\ moved[<<v, e>>] = ctr[<<v, e>>] + hand[<<v, e>>] + wire[<<v, e>>] + recorded[<<v, e>>] + lost[<<v, e>>]
                        + Cardinality(Holders(v, e))
      BY DEF CoreInv, Accounted
    <3>2. /\ ctr[<<v, e>>] \in Nat /\ hand[<<v, e>>] \in Nat /\ wire[<<v, e>>] \in Nat /\ recorded[<<v, e>>] \in Nat
          /\ lost[<<v, e>>] \in Nat /\ Cardinality(Holders(v, e)) \in Nat
      BY <1>1, HoldersCounted DEF UnitTypes, C!Counters
    <3>3. CASE v = u /\ e = d
      <4>1. Holders(v, e)' = Holders(u, d)' /\ Holders(v, e) = Holders(u, d)
        BY <3>3 DEF Holders
      <4>2. moved'[<<v, e>>] = moved[<<v, e>>] + 1
        BY <1>6, <3>3
      <4>3. Cardinality(Holders(v, e)') = Cardinality(Holders(v, e)) + 1
        BY <1>5, <4>1
      <4> QED BY <3>1, <3>2, <4>2, <4>3
    <3>4. CASE v # u \/ e # d
      BY <1>4, <1>6, <3>1, <3>4
    <3> QED BY <3>3, <3>4
  <2> QED BY <1>2, <2>1 DEF Accounted
<1>10. TableTypes' /\ DrainInv'
  BY <1>2 DEF CoreInv, TableTypes, DrainInv
<1> QED BY <1>7, <1>8, <1>9, <1>10 DEF CoreInv

\* ... and counted.
LEMMA CopyStep ==
  ASSUME CoreInv, NEW c \in Conns, NEW d \in C!Dirs, NEW w \in BOOLEAN, C!Copy(c, d, w)
  PROVE  CoreInv'
<1>u. PICK u \in Users : u = conn[c].user
  BY DEF CoreInv, ConnTypes, C!Copy
<1>1. ConnTypes /\ UnitTypes
  BY DEF CoreInv
<1>2. /\ pump[<<c, d>>] = "holding"
      /\ pump' = [pump EXCEPT ![<<c, d>>] = IF w THEN "reading" ELSE "ended"]
      /\ ctr' = [ctr EXCEPT ![<<u, d>>] = @ + 1]
      /\ UNCHANGED <<conn, allowed, changes, table, fetch, restarts, moved, todo, hand, session, wire, recorded, lost>>
  BY <1>u DEF C!Copy, C!panelVars, C!storeVars, C!reportVars
<1>3. /\ pump' \in [Conns \X C!Dirs -> {"off", "reading", "holding", "ended"}]
      /\ pump'[<<c, d>>] \in {"reading", "ended"}
      /\ \A b \in Conns, e \in C!Dirs : b # c \/ e # d => pump'[<<b, e>>] = pump[<<b, e>>]
  BY <1>1, <1>2 DEF ConnTypes
<1>4. /\ Holders(u, d)' = Holders(u, d) \ {c} /\ c \in Holders(u, d)
      /\ \A v \in Users, e \in C!Dirs : v # u \/ e # d => Holders(v, e)' = Holders(v, e)
  BY <1>u, <1>2, <1>3 DEF Holders
<1>5. /\ IsFiniteSet(Holders(u, d)')
      /\ Cardinality(Holders(u, d)') = Cardinality(Holders(u, d)) - 1
  BY <1>1, <1>4, FS_RemoveElement DEF UnitTypes
<1>6. /\ ctr'[<<u, d>>] = ctr[<<u, d>>] + 1
      /\ \A v \in Users, e \in C!Dirs : v # u \/ e # d => ctr'[<<v, e>>] = ctr[<<v, e>>]
      /\ ctr' \in [C!Counters -> Nat]
  <2>1. <<u, d>> \in C!Counters /\ ctr \in [C!Counters -> Nat]
    BY <1>1 DEF UnitTypes, C!Counters
  <2> QED BY <1>2, <2>1 DEF C!Counters
<1>7. ConnTypes'
  BY <1>1, <1>2, <1>3 DEF ConnTypes
<1>8. UnitTypes'
  <2>1. \A v \in Users, e \in C!Dirs : IsFiniteSet(Holders(v, e)')
    BY <1>1, <1>4, <1>5 DEF UnitTypes
  <2> QED BY <1>1, <1>2, <1>6, <2>1 DEF UnitTypes
<1>9. Accounted'
  <2>1. ASSUME NEW v \in Users, NEW e \in C!Dirs
        PROVE  moved[<<v, e>>] = ctr'[<<v, e>>] + hand[<<v, e>>] + wire[<<v, e>>] + recorded[<<v, e>>] + lost[<<v, e>>]
                             + Cardinality(Holders(v, e)')
    <3>1. /\ moved[<<v, e>>] = ctr[<<v, e>>] + hand[<<v, e>>] + wire[<<v, e>>] + recorded[<<v, e>>] + lost[<<v, e>>]
                        + Cardinality(Holders(v, e))
      BY DEF CoreInv, Accounted
    <3>2. /\ ctr[<<v, e>>] \in Nat /\ hand[<<v, e>>] \in Nat /\ wire[<<v, e>>] \in Nat /\ recorded[<<v, e>>] \in Nat
          /\ lost[<<v, e>>] \in Nat /\ Cardinality(Holders(v, e)) \in Nat
      BY <1>1, HoldersCounted DEF UnitTypes, C!Counters
    <3>3. CASE v = u /\ e = d
      <4>1. Holders(v, e)' = Holders(u, d)' /\ Holders(v, e) = Holders(u, d)
        BY <3>3 DEF Holders
      <4>2. ctr'[<<v, e>>] = ctr[<<v, e>>] + 1
        BY <1>6, <3>3
      <4>3. Cardinality(Holders(v, e)') = Cardinality(Holders(v, e)) - 1
        BY <1>5, <4>1
      <4> QED BY <3>1, <3>2, <4>2, <4>3
    <3>4. CASE v # u \/ e # d
      BY <1>4, <1>6, <3>1, <3>4
    <3> QED BY <3>3, <3>4
  <2> QED BY <1>2, <2>1 DEF Accounted
<1>10. TableTypes' /\ DrainInv'
  BY <1>2 DEF CoreInv, TableTypes, DrainInv
<1> QED BY <1>7, <1>8, <1>9, <1>10 DEF CoreInv

----------------------------------------------------------------------------
(* Reports *)

\* Steps that leave the goroutines alone move units between the other places.
LEMMA UnitsMoved ==
  ASSUME CoreInv, UNCHANGED <<conn, pump, moved>>, TableTypes', DrainInv',
         ctr' \in [C!Counters -> Nat], hand' \in [C!Counters -> Nat], wire' \in [C!Counters -> Nat],
         recorded' \in [C!Counters -> Nat], lost' \in [C!Counters -> Nat],
         \A u \in Users, d \in C!Dirs :
           ctr'[<<u, d>>] + hand'[<<u, d>>] + wire'[<<u, d>>] + recorded'[<<u, d>>] + lost'[<<u, d>>]
             = ctr[<<u, d>>] + hand[<<u, d>>] + wire[<<u, d>>] + recorded[<<u, d>>] + lost[<<u, d>>]
  PROVE  CoreInv'
<1>1. \A u \in Users, d \in C!Dirs : Holders(u, d)' = Holders(u, d)
  BY DEF Holders
<1>2. ConnTypes' /\ UnitTypes'
  BY <1>1 DEF CoreInv, ConnTypes, UnitTypes
<1>3. Accounted'
  BY <1>1 DEF CoreInv, Accounted
<1> QED BY <1>2, <1>3 DEF CoreInv

\* What a place holds is a natural number.
LEMMA UnitsAre ==
  ASSUME UnitTypes, NEW u \in Users, NEW d \in C!Dirs
  PROVE  /\ <<u, d>> \in C!Counters
         /\ ctr[<<u, d>>] \in Nat /\ hand[<<u, d>>] \in Nat /\ wire[<<u, d>>] \in Nat
         /\ recorded[<<u, d>>] \in Nat /\ lost[<<u, d>>] \in Nat
  BY DEF UnitTypes, C!Counters

LEMMA TakeStep ==
  ASSUME CoreInv, NEW k \in C!Counters, C!Take(k)
  PROVE  CoreInv'
<1>1. /\ todo # None /\ k \in todo /\ todo' = todo \ {k}
      /\ hand' = [hand EXCEPT ![k] = ctr[k]] /\ ctr' = [ctr EXCEPT ![k] = 0]
      /\ UNCHANGED <<conn, pump, allowed, changes, table, fetch, restarts, moved, session, wire, recorded, lost>>
  BY DEF C!Take, C!panelVars, C!storeVars, C!relayVars, C!reportVars
<1>2. UnitTypes /\ hand[k] = 0 /\ todo \subseteq C!Counters
  BY <1>1 DEF CoreInv, DrainInv
<1>3. ctr' \in [C!Counters -> Nat] /\ hand' \in [C!Counters -> Nat]
  BY <1>1, <1>2 DEF UnitTypes
<1>4. ASSUME NEW u \in Users, NEW d \in C!Dirs
      PROVE  ctr'[<<u, d>>] + hand'[<<u, d>>] = ctr[<<u, d>>] + hand[<<u, d>>]
  <2>1. CASE k = <<u, d>>
    BY <1>1, <1>2, <2>1, UnitsAre DEF UnitTypes
  <2>2. CASE k # <<u, d>>
    BY <1>1, <1>2, <2>2, UnitsAre DEF UnitTypes
  <2> QED BY <2>1, <2>2
<1>5. DrainInv'
  <2>1. todo' # None
    BY <1>1, <1>2, CoreLimits
  <2>2. ASSUME NEW j \in C!Counters, j \in todo' PROVE hand'[j] = 0
    BY <1>1, <1>2, <2>2 DEF CoreInv, DrainInv, UnitTypes
  <2> QED BY <1>1, <1>2, <2>1, <2>2 DEF DrainInv
<1>6. TableTypes'
  BY <1>1 DEF CoreInv, TableTypes
<1>7. \A u \in Users, d \in C!Dirs :
        ctr'[<<u, d>>] + hand'[<<u, d>>] + wire'[<<u, d>>] + recorded'[<<u, d>>] + lost'[<<u, d>>]
          = ctr[<<u, d>>] + hand[<<u, d>>] + wire[<<u, d>>] + recorded[<<u, d>>] + lost[<<u, d>>]
  BY <1>1, <1>4
<1> QED BY <1>1, <1>2, <1>3, <1>5, <1>6, <1>7, UnitsMoved DEF UnitTypes

LEMMA SendStep ==
  ASSUME CoreInv, NEW s \in BOOLEAN, C!SendReport(s)
  PROVE  CoreInv'
<1>1. /\ todo' = None /\ hand' = C!Zero /\ session' = s
      /\ wire' = (IF s THEN C!Plus(wire, hand) ELSE C!Zero)
      /\ lost' = (IF s THEN lost ELSE C!Plus(lost, C!Plus(wire, hand)))
      /\ UNCHANGED <<conn, pump, allowed, changes, table, fetch, restarts, moved, ctr, recorded>>
  BY DEF C!SendReport, C!panelVars, C!storeVars, C!relayVars
<1>2. UnitTypes
  BY DEF CoreInv
<1>3. /\ C!Plus(wire, hand) \in [C!Counters -> Nat]
      /\ \A u \in Users, d \in C!Dirs : C!Plus(wire, hand)[<<u, d>>] = wire[<<u, d>>] + hand[<<u, d>>]
  BY <1>2, PlusType DEF UnitTypes
<1>4. /\ C!Plus(lost, C!Plus(wire, hand)) \in [C!Counters -> Nat]
      /\ \A u \in Users, d \in C!Dirs :
           C!Plus(lost, C!Plus(wire, hand))[<<u, d>>] = lost[<<u, d>>] + (wire[<<u, d>>] + hand[<<u, d>>])
  BY <1>2, <1>3, PlusType DEF UnitTypes
<1>5. /\ hand' \in [C!Counters -> Nat] /\ wire' \in [C!Counters -> Nat] /\ lost' \in [C!Counters -> Nat]
  BY <1>1, <1>2, <1>3, <1>4, ZeroType DEF UnitTypes
<1>6. ASSUME NEW u \in Users, NEW d \in C!Dirs
      PROVE  ctr'[<<u, d>>] + hand'[<<u, d>>] + wire'[<<u, d>>] + recorded'[<<u, d>>] + lost'[<<u, d>>]
               = ctr[<<u, d>>] + hand[<<u, d>>] + wire[<<u, d>>] + recorded[<<u, d>>] + lost[<<u, d>>]
  <2>1. /\ hand'[<<u, d>>] = 0 /\ ctr'[<<u, d>>] = ctr[<<u, d>>] /\ recorded'[<<u, d>>] = recorded[<<u, d>>]
    BY <1>1, ZeroType
  <2>2. /\ ctr[<<u, d>>] \in Nat /\ hand[<<u, d>>] \in Nat /\ wire[<<u, d>>] \in Nat
        /\ recorded[<<u, d>>] \in Nat /\ lost[<<u, d>>] \in Nat
    BY <1>2, UnitsAre
  <2>3. CASE s
    <3>1. /\ wire'[<<u, d>>] = wire[<<u, d>>] + hand[<<u, d>>] /\ lost'[<<u, d>>] = lost[<<u, d>>]
      BY <1>1, <1>3, <2>3
    <3> QED BY <2>1, <2>2, <3>1
  <2>4. CASE ~s
    <3>1. /\ wire'[<<u, d>>] = 0 /\ lost'[<<u, d>>] = lost[<<u, d>>] + (wire[<<u, d>>] + hand[<<u, d>>])
      BY <1>1, <1>4, <2>4, ZeroType
    <3> QED BY <2>1, <2>2, <3>1
  <2> QED BY <2>3, <2>4
<1>7. DrainInv'
  BY <1>1 DEF DrainInv, C!Zero
<1>8. TableTypes'
  BY <1>1 DEF CoreInv, TableTypes
<1> QED BY <1>1, <1>2, <1>5, <1>6, <1>7, <1>8, UnitsMoved DEF UnitTypes

LEMMA WireStep ==
  ASSUME CoreInv, C!Receive \/ C!Disconnect
  PROVE  CoreInv'
<1>1. /\ wire' = C!Zero
      /\ UNCHANGED <<conn, pump, allowed, changes, table, fetch, restarts, moved, ctr, hand, todo>>
  BY DEF C!Receive, C!Disconnect, C!panelVars, C!storeVars, C!relayVars, C!meterVars
<1>2. UnitTypes
  BY DEF CoreInv
<1>3. TableTypes' /\ DrainInv'
  BY <1>1 DEF CoreInv, TableTypes, DrainInv, C!Receive, C!Disconnect
<1>4. ASSUME C!Receive PROVE CoreInv'
  <2>1. recorded' = C!Plus(recorded, wire) /\ lost' = lost
    BY <1>4 DEF C!Receive
  <2>2. /\ recorded' \in [C!Counters -> Nat] /\ wire' \in [C!Counters -> Nat]
        /\ \A u \in Users, d \in C!Dirs :
             recorded'[<<u, d>>] = recorded[<<u, d>>] + wire[<<u, d>>] /\ wire'[<<u, d>>] = 0
    BY <1>1, <1>2, <2>1, PlusType, ZeroType DEF UnitTypes
  <2>3. ASSUME NEW u \in Users, NEW d \in C!Dirs
        PROVE  ctr'[<<u, d>>] + hand'[<<u, d>>] + wire'[<<u, d>>] + recorded'[<<u, d>>] + lost'[<<u, d>>]
                 = ctr[<<u, d>>] + hand[<<u, d>>] + wire[<<u, d>>] + recorded[<<u, d>>] + lost[<<u, d>>]
    BY <1>1, <1>2, <2>1, <2>2, UnitsAre
  <2> QED BY <1>1, <1>2, <1>3, <2>1, <2>2, <2>3, UnitsMoved DEF UnitTypes
<1>5. ASSUME C!Disconnect PROVE CoreInv'
  <2>1. lost' = C!Plus(lost, wire) /\ recorded' = recorded
    BY <1>5 DEF C!Disconnect
  <2>2. /\ lost' \in [C!Counters -> Nat] /\ wire' \in [C!Counters -> Nat]
        /\ \A u \in Users, d \in C!Dirs :
             lost'[<<u, d>>] = lost[<<u, d>>] + wire[<<u, d>>] /\ wire'[<<u, d>>] = 0
    BY <1>1, <1>2, <2>1, PlusType, ZeroType DEF UnitTypes
  <2>3. ASSUME NEW u \in Users, NEW d \in C!Dirs
        PROVE  ctr'[<<u, d>>] + hand'[<<u, d>>] + wire'[<<u, d>>] + recorded'[<<u, d>>] + lost'[<<u, d>>]
                 = ctr[<<u, d>>] + hand[<<u, d>>] + wire[<<u, d>>] + recorded[<<u, d>>] + lost[<<u, d>>]
    BY <1>1, <1>2, <2>1, <2>2, UnitsAre
  <2> QED BY <1>1, <1>2, <1>3, <2>1, <2>2, <2>3, UnitsMoved DEF UnitTypes
<1> QED BY <1>4, <1>5

\* A container that stops loses what its goroutines, its counters and its
\* session hold.
LEMMA CoreRestart ==
  ASSUME CoreInv, C!Restart
  PROVE  CoreInv'
<1> DEFINE held == [k \in C!Counters |-> C!Cardinality(
                      {c \in Conns : conn[c].user = k[1] /\ pump[<<c, k[2]>>] = "holding"})]
<1>1. /\ restarts < MaxRestarts /\ restarts' = restarts + 1 /\ table' = {} /\ fetch' = None
      /\ conn' = [c \in Conns |-> [user |-> None, at |-> "none",
                                   closed |-> conn[c].closed \/ conn[c].at # "none"]]
      /\ pump' = [k \in Conns \X C!Dirs |-> "off"]
      /\ lost' = C!Plus(lost, C!Plus(C!Plus(ctr, hand), C!Plus(wire, held)))
      /\ ctr' = C!Zero /\ hand' = C!Zero /\ todo' = None /\ wire' = C!Zero /\ session' = FALSE
      /\ UNCHANGED <<allowed, changes, recorded, moved>>
  BY DEF C!Restart, C!panelVars
<1>2. ConnTypes /\ UnitTypes
  BY DEF CoreInv
<1>3. /\ held \in [C!Counters -> Nat]
      /\ \A u \in Users, d \in C!Dirs : held[<<u, d>>] = Cardinality(Holders(u, d))
  <2>1. ASSUME NEW k \in C!Counters PROVE held[k] = Cardinality(Holders(k[1], k[2]))
    BY SameCount DEF Holders
  <2>2. ASSUME NEW k \in C!Counters PROVE k[1] \in Users /\ k[2] \in C!Dirs
    BY DEF C!Counters
  <2>3. ASSUME NEW k \in C!Counters PROVE held[k] \in Nat
    BY <1>2, <2>1, <2>2, HoldersCounted
  <2>4. ASSUME NEW u \in Users, NEW d \in C!Dirs PROVE held[<<u, d>>] = Cardinality(Holders(u, d))
    <3>1. <<u, d>> \in C!Counters /\ <<u, d>>[1] = u /\ <<u, d>>[2] = d
      BY DEF C!Counters
    <3> QED BY <2>1, <3>1
  <2> QED BY <2>3, <2>4
<1> HIDE DEF held
<1>4. /\ C!Plus(ctr, hand) \in [C!Counters -> Nat] /\ C!Plus(wire, held) \in [C!Counters -> Nat]
      /\ \A u \in Users, d \in C!Dirs :
           C!Plus(ctr, hand)[<<u, d>>] = ctr[<<u, d>>] + hand[<<u, d>>] /\ C!Plus(wire, held)[<<u, d>>] = wire[<<u, d>>] + held[<<u, d>>]
  BY <1>2, <1>3, PlusType DEF UnitTypes
<1> DEFINE places == C!Plus(C!Plus(ctr, hand), C!Plus(wire, held))
<1>5. /\ places \in [C!Counters -> Nat]
      /\ \A u \in Users, d \in C!Dirs :
           places[<<u, d>>] = (ctr[<<u, d>>] + hand[<<u, d>>]) + (wire[<<u, d>>] + held[<<u, d>>])
  BY <1>4, PlusType
<1>6. lost' = C!Plus(lost, places)
  BY <1>1
<1> HIDE DEF places
<1>7. /\ lost' \in [C!Counters -> Nat]
      /\ \A u \in Users, d \in C!Dirs : lost'[<<u, d>>] = lost[<<u, d>>] + places[<<u, d>>]
  BY <1>2, <1>5, <1>6, PlusType DEF UnitTypes
<1>8. \A u \in Users, d \in C!Dirs : Holders(u, d)' = {}
  BY <1>1 DEF Holders
<1>9. UnitTypes'
  <2>1. \A u \in Users, d \in C!Dirs : IsFiniteSet(Holders(u, d)')
    BY <1>8, FS_EmptySet
  <2> QED BY <1>1, <1>2, <1>7, <2>1, ZeroType DEF UnitTypes
<1>10. Accounted'
  <2>1. ASSUME NEW u \in Users, NEW d \in C!Dirs
        PROVE  moved'[<<u, d>>] = ctr'[<<u, d>>] + hand'[<<u, d>>] + wire'[<<u, d>>] + recorded'[<<u, d>>] + lost'[<<u, d>>]
                              + Cardinality(Holders(u, d)')
    <3>1. /\ moved[<<u, d>>] = ctr[<<u, d>>] + hand[<<u, d>>] + wire[<<u, d>>] + recorded[<<u, d>>] + lost[<<u, d>>]
                        + Cardinality(Holders(u, d))
      BY DEF CoreInv, Accounted
    <3>2. /\ lost'[<<u, d>>] = lost[<<u, d>>] + ((ctr[<<u, d>>] + hand[<<u, d>>]) + (wire[<<u, d>>] + Cardinality(Holders(u, d))))
      BY <1>3, <1>5, <1>7
    <3>3. Cardinality(Holders(u, d)') = 0
      BY <1>8, FS_EmptySet
    <3>4. /\ ctr'[<<u, d>>] = 0 /\ hand'[<<u, d>>] = 0 /\ wire'[<<u, d>>] = 0
      BY <1>1, ZeroType
    <3>5. /\ ctr[<<u, d>>] \in Nat /\ hand[<<u, d>>] \in Nat /\ wire[<<u, d>>] \in Nat
          /\ recorded[<<u, d>>] \in Nat /\ lost[<<u, d>>] \in Nat /\ Cardinality(Holders(u, d)) \in Nat
      BY <1>2, UnitsAre, HoldersCounted
    <3>6. /\ moved'[<<u, d>>] = moved[<<u, d>>] /\ recorded'[<<u, d>>] = recorded[<<u, d>>]
      BY <1>1
    <3> QED BY <3>1, <3>2, <3>3, <3>4, <3>5, <3>6
  <2> QED BY <2>1 DEF Accounted
<1>11. ConnTypes'
  <2>1. \A c \in Conns : conn'[c].user = None /\ conn'[c].at = "none" /\ conn'[c].closed \in BOOLEAN
    BY <1>1, <1>2 DEF ConnTypes
  <2>2. conn' \in [Conns -> [user : Users \cup {None}, at : {"none", "dialing", "relay"}, closed : BOOLEAN]]
    BY <1>1, <1>2 DEF ConnTypes
  <2> QED BY <1>1, <2>1, <2>2 DEF ConnTypes
<1>12. TableTypes'
  <2>1. restarts' \in 0..MaxRestarts
    BY <1>1, CoreLimits DEF CoreInv, TableTypes
  <2> QED BY <1>1, <2>1 DEF CoreInv, TableTypes
<1>13. DrainInv'
  BY <1>1 DEF DrainInv, C!Zero
<1> QED BY <1>9, <1>10, <1>11, <1>12, <1>13 DEF CoreInv

----------------------------------------------------------------------------
\* The table of users and the session.
LEMMA StoreStep ==
  ASSUME CoreInv,
         (\E u \in Users : C!Change(u)) \/ C!Answer \/ C!Sync \/ C!SyncFails \/ C!Dial
  PROVE  CoreInv'
<1>1. UNCHANGED <<conn, pump, ctr, todo, hand, wire, recorded, lost, moved>>
  BY DEF C!Change, C!Answer, C!Sync, C!SyncFails, C!Dial, C!relayVars, C!meterVars, C!reportVars
<1>2. TableTypes'
  <2>1. ASSUME NEW u \in Users, C!Change(u) PROVE TableTypes'
    BY <2>1, CoreLimits DEF CoreInv, TableTypes, C!Change, C!storeVars, C!reportVars
  <2>2. CASE C!Answer
    <3>1. fetch' = [users |-> allowed] /\ UNCHANGED <<allowed, changes, table, restarts, session>>
      BY <2>2 DEF C!Answer, C!panelVars, C!reportVars
    <3>2. fetch'.users = allowed
      BY <3>1
    <3> QED BY <3>1, <3>2 DEF CoreInv, TableTypes
  <2>3. CASE C!Sync
    BY <2>3 DEF CoreInv, TableTypes, C!Sync, C!panelVars, C!reportVars
  <2>4. CASE C!SyncFails
    BY <2>4 DEF CoreInv, TableTypes, C!SyncFails, C!panelVars, C!reportVars
  <2>5. CASE C!Dial
    BY <2>5 DEF CoreInv, TableTypes, C!Dial, C!panelVars, C!storeVars
  <2> QED BY <2>1, <2>2, <2>3, <2>4, <2>5
<1>3. DrainInv'
  BY <1>1 DEF CoreInv, DrainInv
<1> QED BY <1>1, <1>2, <1>3, UnitsMoved DEF CoreInv, UnitTypes

LEMMA TickStep == CoreInv /\ C!Tick => CoreInv'
<1> SUFFICES ASSUME CoreInv, C!Tick PROVE CoreInv'
  OBVIOUS
<1>1. /\ todo = None /\ todo' = C!Counters
      /\ UNCHANGED <<conn, pump, allowed, changes, table, fetch, restarts, moved, ctr, hand, session, wire, recorded, lost>>
  BY DEF C!Tick, C!panelVars, C!storeVars, C!relayVars, C!reportVars
<1>2. DrainInv'
  BY <1>1 DEF CoreInv, DrainInv
<1>3. TableTypes'
  BY <1>1 DEF CoreInv, TableTypes
<1> QED BY <1>1, <1>2, <1>3, UnitsMoved DEF CoreInv, UnitTypes

LEMMA CoreStep == CoreInv /\ C!Next => CoreInv'
<1> SUFFICES ASSUME CoreInv, C!Next PROVE CoreInv'
  OBVIOUS
<1>1. CASE (\E u \in Users : C!Change(u)) \/ C!Answer \/ C!Sync \/ C!SyncFails \/ C!Dial
  BY <1>1, StoreStep
<1>2. ASSUME NEW c \in Conns, (\E u \in Users : C!Accept(c, u)) \/ C!DialFails(c) \/ C!Relay(c)
      PROVE  CoreInv'
  BY <1>2, ConnStep
<1>3. ASSUME NEW c \in Conns, NEW d \in C!Dirs, C!ReadEnds(c, d) \/ C!CloseBoth(c, d)
      PROVE  CoreInv'
  BY <1>3, PumpStep
<1>4. ASSUME NEW c \in Conns, NEW d \in C!Dirs, C!Read(c, d) PROVE CoreInv'
  BY <1>4, ReadStep
<1>5. ASSUME NEW c \in Conns, NEW d \in C!Dirs, NEW w \in BOOLEAN, C!Copy(c, d, w) PROVE CoreInv'
  BY <1>5, CopyStep
<1>6. CASE C!Tick
  BY <1>6, TickStep
<1>7. CASE C!Receive \/ C!Disconnect
  BY <1>7, WireStep
<1>8. CASE C!Restart
  BY <1>8, CoreRestart
<1>9. ASSUME NEW k \in C!Counters, C!Take(k) PROVE CoreInv'
  BY <1>9, TakeStep
<1>10. ASSUME NEW s \in BOOLEAN, C!SendReport(s) PROVE CoreInv'
  BY <1>10, SendStep
<1> QED BY <1>1, <1>2, <1>3, <1>4, <1>5, <1>6, <1>7, <1>8, <1>9, <1>10 DEF C!Next

LEMMA CoreInit == C!Init => CoreInv
<1> SUFFICES ASSUME C!Init PROVE CoreInv
  OBVIOUS
<1> USE DEF C!Init
<1>1. \A u \in Users, d \in C!Dirs : Holders(u, d) = {}
  BY DEF Holders
<1>2. ConnTypes
  BY DEF ConnTypes
<1>3. 0 \in 0..MaxUnits
  BY CoreLimits
<1>4. UnitTypes
  BY <1>1, <1>3, ZeroType, FS_EmptySet DEF UnitTypes, C!Zero
<1>5. TableTypes
  <2>1. 0 \in 0..MaxChanges /\ 0 \in 0..MaxRestarts
    BY CoreLimits
  <2> QED BY <2>1 DEF TableTypes
<1>6. DrainInv
  BY DEF DrainInv, C!Zero
<1>7. Accounted
  <2>1. ASSUME NEW u \in Users, NEW d \in C!Dirs PROVE Cardinality(Holders(u, d)) = 0
    BY <1>1, FS_EmptySet
  <2>2. ASSUME NEW u \in Users, NEW d \in C!Dirs
        PROVE  /\ moved[<<u, d>>] = 0 /\ ctr[<<u, d>>] = 0 /\ hand[<<u, d>>] = 0
               /\ wire[<<u, d>>] = 0 /\ recorded[<<u, d>>] = 0 /\ lost[<<u, d>>] = 0
    BY ZeroType
  <2>3. 0 = 0 + 0 + 0 + 0 + 0 + 0
    OBVIOUS
  <2> QED BY <2>1, <2>2, <2>3 DEF Accounted
<1> QED BY <1>2, <1>4, <1>5, <1>6, <1>7 DEF CoreInv

LEMMA CoreUnchanged == CoreInv /\ UNCHANGED coreVars => CoreInv'
<1> SUFFICES ASSUME CoreInv, UNCHANGED coreVars PROVE CoreInv'
  OBVIOUS
<1>1. ConnTypes' /\ TableTypes' /\ DrainInv'
  BY DEF coreVars, CoreInv, ConnTypes, TableTypes, DrainInv
<1>2. \A u \in Users, d \in C!Dirs : Holders(u, d)' = Holders(u, d)
  BY DEF coreVars, Holders
<1> QED BY <1>1, <1>2, HoldersSame DEF coreVars

\* Of any number of users, connections and goroutines that count while Drain
\* takes the counters one by one, every unit that was read is in one place,
\* through reports, broken sessions and restarts (proxy.go:72, 106).
THEOREM TrafficConserved == AllSpec => []TrafficIsConserved
<1>1. AllInit => CoreInv
  BY CoreInit DEF AllInit
<1>2. CoreInv /\ [AllNext]_allVars => CoreInv'
  BY CoreStep, CoreUnchanged DEF AllNext, allVars
<1>3. CoreInv => TrafficIsConserved
  <2> SUFFICES ASSUME CoreInv PROVE C!TrafficAccounted
    BY CoreTypes DEF TrafficIsConserved, C!TrafficIsConserved
  <2> QED BY SameCount DEF CoreInv, Accounted, Holders, C!TrafficAccounted
<1> QED BY <1>1, <1>2, <1>3, PTL DEF AllSpec
=============================================================================
