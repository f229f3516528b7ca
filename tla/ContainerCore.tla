---------------------------- MODULE ContainerCore ----------------------------
(***************************************************************************)
(* container-core: the Go program that serves a node inside a container.   *)
(* It fetches the table of its users from the panel (UserStore), relays    *)
(* VLESS connections with one goroutine per direction (handleWS,           *)
(* meteredCopy), counts what each user moves (Meter) and reports the       *)
(* counts over a session to the panel (Reporter).                          *)
(*                                                                         *)
(* One unit of traffic stands for the bytes of one read.  The counters of  *)
(* a user are shared by all goroutines of her connections and by Drain,    *)
(* which takes them one by one.                                            *)
(***************************************************************************)
EXTENDS Integers, FiniteSets

CONSTANTS
  Users,
  Conns,       \* connections of clients
  MaxUnits,    \* bound: units read per user and direction
  MaxRestarts, \* bound: restarts of the container
  MaxChanges,  \* bound: changes of the panel's table
  None

Dirs     == {"up", "down"}
Counters == Users \X Dirs

CoreAssumption ==
  /\ MaxUnits \in Nat /\ MaxRestarts \in Nat /\ MaxChanges \in Nat
  /\ None \notin Users /\ \A Z \in SUBSET Counters : Z # None

Zero     == [k \in Counters |-> 0]
Plus(f, g)  == [k \in Counters |-> f[k] + g[k]]

VARIABLES
  allowed,  \* the users the panel would put into the table now
  changes,
  table,    \* UserStore.m
  fetch,    \* the answer of a fetch under way, or None
  conn,     \* Conns -> [user, at: "none"|"dialing"|"relay", closed]
  pump,     \* Conns \X Dirs -> "off"|"reading"|"holding"|"ended"
  ctr,      \* Meter: Counters -> units since the last drain
  todo,     \* counters Drain has still to take, or None
  hand,     \* what Drain has taken
  session,  \* the reporter's session with the panel is open
  wire,     \* reports sent over the session that the panel has not read
  recorded, \* the panel's records
  lost,     \* history: units that no report will carry any more
  moved,    \* history: units read from clients and targets
  restarts

vars == <<allowed, changes, table, fetch, conn, pump, ctr, todo, hand, session, wire,
          recorded, lost, moved, restarts>>

panelVars  == <<allowed, changes>>
storeVars  == <<table, fetch>>
relayVars  == <<conn, pump>>
meterVars  == <<ctr, todo, hand>>
reportVars == <<session, wire, recorded, lost>>
----------------------------------------------------------------------------
Init ==
  /\ allowed = Users /\ changes = 0
  /\ table = {} /\ fetch = None
  /\ conn = [c \in Conns |-> [user |-> None, at |-> "none", closed |-> FALSE]]
  /\ pump = [k \in Conns \X Dirs |-> "off"]
  /\ ctr = Zero /\ todo = None /\ hand = Zero
  /\ session = FALSE /\ wire = Zero /\ recorded = Zero
  /\ lost = Zero /\ moved = Zero
  /\ restarts = 0

\* A user is frozen, blocked, loses her level, or comes back
Change(u) ==
  /\ changes < MaxChanges /\ changes' = changes + 1
  /\ allowed' = IF u \in allowed THEN allowed \ {u} ELSE allowed \cup {u}
  /\ UNCHANGED <<storeVars, relayVars, meterVars, reportVars, moved, restarts>>
----------------------------------------------------------------------------
(* UserStore: GET /api/agent/users at the start and then at an interval *)

\* The panel answers with its users of the moment
Answer ==
  /\ fetch = None
  /\ fetch' = [users |-> allowed]
  /\ UNCHANGED <<panelVars, table, relayVars, meterVars, reportVars, moved, restarts>>

\* Variant: users that are gone from the answer stay
SyncMerging ==
  /\ fetch # None
  /\ table' = table \cup fetch.users /\ fetch' = None
  /\ UNCHANGED <<panelVars, relayVars, meterVars, reportVars, moved, restarts>>

\* ... the body is decoded and replaces the table
Sync ==
  /\ fetch # None
  /\ table' = fetch.users /\ fetch' = None
  /\ UNCHANGED <<panelVars, relayVars, meterVars, reportVars, moved, restarts>>

\* ... or the call fails, and the table stays as it is
SyncFails ==
  /\ fetch # None
  /\ fetch' = None
  /\ UNCHANGED <<panelVars, table, relayVars, meterVars, reportVars, moved, restarts>>
----------------------------------------------------------------------------
(* handleWS *)

\* The request is parsed and its UUID looked up; the target is dialled
Accept(c, u) ==
  /\ conn[c].at = "none" /\ ~conn[c].closed
  /\ u \in table
  /\ conn' = [conn EXCEPT ![c] = [@ EXCEPT !.user = u, !.at = "dialing"]]
  /\ UNCHANGED <<panelVars, storeVars, pump, meterVars, reportVars, moved, restarts>>

\* The dial, or writing the answer to the client, fails: everything is closed
DialFails(c) ==
  /\ conn[c].at = "dialing"
  /\ conn' = [conn EXCEPT ![c] = [@ EXCEPT !.at = "none", !.closed = TRUE]]
  /\ UNCHANGED <<panelVars, storeVars, pump, meterVars, reportVars, moved, restarts>>

\* The relay starts: a goroutine upwards, the handler itself downwards
Relay(c) ==
  /\ conn[c].at = "dialing"
  /\ conn' = [conn EXCEPT ![c].at = "relay"]
  /\ pump' = [k \in Conns \X Dirs |-> IF k[1] = c THEN "reading" ELSE pump[k]]
  /\ UNCHANGED <<panelVars, storeVars, meterVars, reportVars, moved, restarts>>

\* meteredCopy: src.Read returns data
Read(c, d) ==
  /\ pump[<<c, d>>] = "reading" /\ ~conn[c].closed
  /\ moved[<<conn[c].user, d>>] < MaxUnits
  /\ pump' = [pump EXCEPT ![<<c, d>>] = "holding"]
  /\ moved' = [moved EXCEPT ![<<conn[c].user, d>>] = @ + 1]
  /\ UNCHANGED <<panelVars, storeVars, conn, meterVars, reportVars, restarts>>

\* ... which is counted and then written to the other side
Copy(c, d, written) ==
  /\ pump[<<c, d>>] = "holding"
  /\ conn[c].closed => ~written
  /\ ctr' = [ctr EXCEPT ![<<conn[c].user, d>>] = @ + 1]
  /\ pump' = [pump EXCEPT ![<<c, d>>] = IF written THEN "reading" ELSE "ended"]
  /\ UNCHANGED <<panelVars, storeVars, conn, todo, hand, reportVars, moved, restarts>>

\* ... src.Read returns an error: the client or the target is gone
ReadEnds(c, d) ==
  /\ pump[<<c, d>>] = "reading"
  /\ pump' = [pump EXCEPT ![<<c, d>>] = "ended"]
  /\ UNCHANGED <<panelVars, storeVars, conn, meterVars, reportVars, moved, restarts>>

\* Variant: only the handler's own direction closes the two ends
CloseAfterDown(c, d) ==
  /\ pump[<<c, d>>] = "ended" /\ d = "down" /\ ~conn[c].closed
  /\ conn' = [conn EXCEPT ![c].closed = TRUE]
  /\ UNCHANGED <<panelVars, storeVars, pump, meterVars, reportVars, moved, restarts>>

\* closeBoth, once, after either direction
CloseBoth(c, d) ==
  /\ pump[<<c, d>>] = "ended" /\ ~conn[c].closed
  /\ conn' = [conn EXCEPT ![c].closed = TRUE]
  /\ UNCHANGED <<panelVars, storeVars, pump, meterVars, reportVars, moved, restarts>>
----------------------------------------------------------------------------
(* Reporter *)

\* The session is dialled and the token sent
Dial ==
  /\ ~session /\ session' = TRUE
  /\ UNCHANGED <<panelVars, storeVars, relayVars, meterVars, wire, recorded, lost, moved, restarts>>

\* The ticker fires: Drain takes the counters
Tick ==
  /\ session /\ todo = None
  /\ todo' = Counters
  /\ UNCHANGED <<panelVars, storeVars, relayVars, ctr, hand, reportVars, moved, restarts>>

\* Variant: the counter is read first and set to 0 at the end
TakeNoSwap(k) ==
  /\ todo # None /\ k \in todo
  /\ k[2] = "down" => <<k[1], "up">> \notin todo
  /\ hand' = [hand EXCEPT ![k] = ctr[k]]
  /\ todo' = todo \ {k}
  /\ ctr' = IF todo' = {} THEN Zero ELSE ctr
  /\ UNCHANGED <<panelVars, storeVars, relayVars, reportVars, moved, restarts>>

\* One atomic swap, the uplink of a user before her downlink
Take(k) ==
  /\ todo # None /\ k \in todo
  /\ k[2] = "down" => <<k[1], "up">> \notin todo
  /\ hand' = [hand EXCEPT ![k] = ctr[k]]
  /\ ctr' = [ctr EXCEPT ![k] = 0]
  /\ todo' = todo \ {k}
  /\ UNCHANGED <<panelVars, storeVars, relayVars, reportVars, moved, restarts>>

\* writeJSON(report): it leaves, or the session ends with it
SendReport(sent) ==
  /\ todo = {} /\ todo' = None /\ hand' = Zero
  /\ sent => session
  /\ wire' = IF sent THEN Plus(wire, hand) ELSE Zero
  /\ lost' = IF sent THEN lost ELSE Plus(lost, Plus(wire, hand))
  /\ session' = sent
  /\ UNCHANGED <<panelVars, storeVars, relayVars, ctr, recorded, moved, restarts>>

\* The panel stores what it reads
Receive ==
  /\ session /\ wire # Zero
  /\ recorded' = Plus(recorded, wire) /\ wire' = Zero
  /\ UNCHANGED <<panelVars, storeVars, relayVars, meterVars, session, lost, moved, restarts>>

\* The connection breaks between two reports, with what is on it
Disconnect ==
  /\ session /\ todo = None /\ session' = FALSE
  /\ wire' = Zero /\ lost' = Plus(lost, wire)
  /\ UNCHANGED <<panelVars, storeVars, relayVars, meterVars, recorded, moved, restarts>>

\* The container stops and starts again: nothing is flushed, the table is empty
Restart ==
  /\ restarts < MaxRestarts /\ restarts' = restarts + 1
  /\ table' = {} /\ fetch' = None
  /\ conn' = [c \in Conns |-> [user |-> None, at |-> "none", closed |-> conn[c].closed \/ conn[c].at # "none"]]
  /\ pump' = [k \in Conns \X Dirs |-> "off"]
  /\ lost' = Plus(lost, Plus(Plus(ctr, hand),
               Plus(wire, [k \in Counters |-> Cardinality(
                  {c \in Conns : conn[c].user = k[1] /\ pump[<<c, k[2]>>] = "holding"})])))
  /\ ctr' = Zero /\ hand' = Zero /\ todo' = None /\ wire' = Zero
  /\ session' = FALSE
  /\ UNCHANGED <<panelVars, recorded, moved>>
----------------------------------------------------------------------------
Next ==
  \/ \E u \in Users : Change(u)
  \/ Answer \/ Sync \/ SyncFails
  \/ \E c \in Conns :
       \/ \E u \in Users : Accept(c, u)
       \/ DialFails(c) \/ Relay(c)
       \/ \E d \in Dirs :
            \/ Read(c, d) \/ ReadEnds(c, d) \/ CloseBoth(c, d)
            \/ \E w \in BOOLEAN : Copy(c, d, w)
  \/ Dial \/ Tick \/ Receive \/ Disconnect \/ Restart
  \/ \E k \in Counters : Take(k)
  \/ \E s \in BOOLEAN : SendReport(s)

\* The ticker of UserStore goes on and a fetch sometimes succeeds; goroutines
\* run
Fairness ==
  /\ WF_vars(Answer) /\ SF_vars(Sync)
  /\ \A c \in Conns, d \in Dirs :
       /\ WF_vars(CloseBoth(c, d))
       /\ WF_vars(Copy(c, d, FALSE) \/ Copy(c, d, TRUE))
       /\ WF_vars(conn[c].closed /\ ReadEnds(c, d))

Spec == Init /\ [][Next]_vars /\ Fairness
----------------------------------------------------------------------------
\* Types, and: a relayed connection belongs to a user, one that is not
\* relayed has no goroutines.
TypeOK ==
  /\ allowed \subseteq Users /\ table \subseteq Users
  /\ changes \in 0..MaxChanges /\ restarts \in 0..MaxRestarts
  /\ fetch # None => fetch.users \subseteq Users
  /\ \A c \in Conns :
       /\ conn[c].user \in Users \cup {None} /\ conn[c].closed \in BOOLEAN
       /\ conn[c].at \in {"none", "dialing", "relay"}
       /\ conn[c].at = "relay" => conn[c].user # None
       /\ \A d \in Dirs : pump[<<c, d>>] # "off" <=> conn[c].at = "relay"
  /\ pump \in [Conns \X Dirs -> {"off", "reading", "holding", "ended"}]
  /\ ctr \in [Counters -> 0..MaxUnits] /\ hand \in [Counters -> 0..MaxUnits]
  /\ wire \in [Counters -> 0..MaxUnits] /\ recorded \in [Counters -> 0..MaxUnits]
  /\ todo # None => todo \subseteq Counters
  /\ session \in BOOLEAN

\* Every unit of a user is in exactly one place: held by a goroutine, in her
\* counter, taken by Drain, on the wire, recorded by the panel, or lost with a
\* session: goroutines that count while Drain takes the counters lose nothing
\* and count nothing twice (proxy.go:72, proxy.go:110).
TrafficAccounted ==
  \A u \in Users, d \in Dirs :
    moved[<<u, d>>] = ctr[<<u, d>>] + hand[<<u, d>>] + wire[<<u, d>>] + recorded[<<u, d>>] + lost[<<u, d>>]
                  + Cardinality({c \in Conns : conn[c].user = u /\ pump[<<c, d>>] = "holding"})

\* A user who stays frozen is in the end refused: an answer computed before
\* the freeze may arrive after it, the next one repairs it (panel.go:90).
FrozenIsShutOut ==
  \A u \in Users : <>[](u \notin allowed) => <>[](u \notin table)

\* When one direction of a connection has ended, the other one ends too, and
\* both ends are closed (main.go:94): no connection stays half ended.
ConnectionEndsWhole ==
  \A c \in Conns :
    []<>(\/ \A d \in Dirs : pump[<<c, d>>] # "ended"
         \/ conn[c].closed /\ \A d \in Dirs : pump[<<c, d>>] \in {"off", "ended"})

\* The types, and every unit of traffic in one place (proxy.go:72, 106).
TrafficIsConserved == TypeOK /\ TrafficAccounted
=============================================================================
