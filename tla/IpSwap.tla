-------------------------------- MODULE IpSwap --------------------------------
(***************************************************************************)
(* Changing the public address of a machine: swapNodeIp, swapEC2Ip (the    *)
(* plain EC2 path) and swapLightsailIp of src/src/services/aws.js, and the *)
(* correction of addresses from agent reports, maybeAutoCorrectIp of       *)
(* src/src/services/agent-ws.js.                                           *)
(*                                                                         *)
(* One machine carries all Nodes.  A swap is a chain of awaited AWS calls; *)
(* between two of them other swaps, reports and the panel's end happen.    *)
(* Nothing keeps two swaps of one machine apart: the zero-traffic checks,  *)
(* the third failed report, the administrator and the ops API all start    *)
(* one.  AWS is external; attaching an address displaces the attached one, *)
(* which stays allocated (the Wavelength path says so and relies on it).   *)
(* The agent keeps the public address it looked up for five minutes, so    *)
(* what a report carries may be the address before a swap.                 *)
(***************************************************************************)
EXTENDS Integers, FiniteSets

CONSTANTS
  Nodes,     \* the nodes of the machine
  V6,        \* those whose host is an IPv6 address (ip_version = 6)
  Bound,     \* those with an aws_instance_id
  Reporter,  \* the node whose agent runs on the machine
  Swaps,     \* swaps that can be in progress at once
  Addrs,     \* IPv4 addresses
  None,      \* no address
  SixAddr,   \* the IPv6 address of the machine
  Failing,   \* AWS calls that may fail
  MaxStops   \* bound: number of panel restarts

ASSUME NodesAssumption == V6 \subseteq Nodes /\ Bound \subseteq Nodes /\ Reporter \in Nodes
ASSUME AddrAssumption == None \notin Addrs /\ SixAddr \notin Addrs /\ None # SixAddr
ASSUME MaxStopsAssumption == MaxStops \in Nat

VARIABLES
  allocated,  \* AWS: addresses of the account
  attached,   \* AWS: the address of the machine, or None
  host,       \* nodes.host
  sshHost,    \* nodes.ssh_host
  swap,       \* Swaps -> where the call is and its local variables
  cached,     \* the public address the agent has looked up
  hasty,      \* history: a swap was started before the table and the agent had
              \* settled on the address of the machine, or while another ran
  stops       \* restarts so far

vars == <<allocated, attached, host, sshHost, swap, cached, hasty, stops>>

NoSwap == [at |-> "idle", node |-> Reporter, oldHost |-> None, old |-> None, new |-> None]
Running == {s \in Swaps : swap[s].at # "idle"}
Goto(s, l) == swap' = [swap EXCEPT ![s].at = l]
GiveUp(s)  == swap' = [swap EXCEPT ![s] = NoSwap]

\* Table, agent and, when it has an address, machine agree on the address.
Settled ==
  /\ attached \in {cached, None}
  /\ \A n \in Nodes : sshHost[n] = cached /\ (n \notin V6 => host[n] = cached)

----------------------------------------------------------------------------
Init ==
  \E a \in Addrs :
    /\ allocated = {a}
    /\ attached = a
    /\ host = [n \in Nodes |-> IF n \in V6 THEN SixAddr ELSE a]
    /\ sshHost = [n \in Nodes |-> a]
    /\ swap = [s \in Swaps |-> NoSwap]
    /\ cached = a
    /\ hasty = FALSE
    /\ stops = 0

\* swapNodeIp(node, ...) up to its first await
Start(s, n) ==
  /\ swap[s].at = "idle"
  /\ swap' = [swap EXCEPT ![s] = [NoSwap EXCEPT !.at = "describe", !.node = n, !.oldHost = host[n]]]
  /\ hasty' = (hasty \/ Running # {} \/ ~Settled)
  /\ UNCHANGED <<allocated, attached, host, sshHost, cached, stops>>

\* The address bound to the instance is looked up
Describe(s) ==
  /\ swap[s].at = "describe"
  /\ LET next == IF attached = None THEN "allocate" ELSE "detach"
     IN  swap' = [swap EXCEPT ![s] = [@ EXCEPT !.old = attached, !.at = next]]
  /\ UNCHANGED <<allocated, attached, host, sshHost, cached, hasty, stops>>

\* DisassociateAddress, DetachStaticIp: fails when the association is not the
\* one that was looked up
Detach(s) ==
  /\ swap[s].at = "detach"
  /\ IF attached = swap[s].old
       THEN attached' = None /\ Goto(s, "release")
       ELSE GiveUp(s) /\ UNCHANGED attached
  /\ UNCHANGED <<allocated, host, sshHost, cached, hasty, stops>>

\* ReleaseAddress, ReleaseStaticIp
Release(s) ==
  /\ swap[s].at = "release"
  /\ IF swap[s].old \in allocated
       THEN allocated' = allocated \ {swap[s].old} /\ Goto(s, "allocate")
       ELSE GiveUp(s) /\ UNCHANGED allocated
  /\ UNCHANGED <<attached, host, sshHost, cached, hasty, stops>>

\* AllocateAddress, AllocateStaticIp: an address the account does not hold
Allocate(s) ==
  /\ swap[s].at = "allocate"
  /\ \E a \in Addrs \ allocated :
       /\ allocated' = allocated \cup {a}
       /\ swap' = [swap EXCEPT ![s] = [@ EXCEPT !.new = a, !.at = "attach"]]
  /\ UNCHANGED <<attached, host, sshHost, cached, hasty, stops>>

\* AssociateAddress, AttachStaticIp
Attach(s) ==
  /\ swap[s].at = "attach"
  /\ attached' = swap[s].new
  /\ Goto(s, "update")
  /\ UNCHANGED <<allocated, host, sshHost, cached, hasty, stops>>

\* Variant: the new address is not released when it cannot be attached
AttachFailsLeaking(s) ==
  /\ swap[s].at = "attach"
  /\ "attach" \in Failing
  /\ GiveUp(s)
  /\ UNCHANGED <<allocated, attached, host, sshHost, cached, hasty, stops>>

\* ... which fails: the new address is released
AttachFails(s) ==
  /\ swap[s].at = "attach"
  /\ "attach" \in Failing
  /\ allocated' = allocated \ {swap[s].new}
  /\ GiveUp(s)
  /\ UNCHANGED <<attached, host, sshHost, cached, hasty, stops>>

\* Any other call that fails ends the swap
CallFails(s) ==
  /\ swap[s].at \in Failing \ {"attach"}
  /\ GiveUp(s)
  /\ UNCHANGED <<allocated, attached, host, sshHost, cached, hasty, stops>>

\* Two variants: every host of the twins is overwritten; only the node itself
\* is updated
UpdateEveryHost(s) ==
  LET w == swap[s]
      peers == {m \in Nodes \ {w.node} : w.oldHost \in {host[m], sshHost[m]}}
  IN  /\ w.at = "update"
      /\ host' = [m \in Nodes |-> IF m \in peers \cup {w.node} THEN w.new ELSE host[m]]
      /\ sshHost' = [m \in Nodes |-> IF m \in peers \cup {w.node} THEN w.new ELSE sshHost[m]]
      /\ GiveUp(s)
      /\ UNCHANGED <<allocated, attached, cached, hasty, stops>>
UpdateNodeOnly(s) ==
  /\ swap[s].at = "update"
  /\ host' = [host EXCEPT ![swap[s].node] = swap[s].new]
  /\ sshHost' = [sshHost EXCEPT ![swap[s].node] = swap[s].new]
  /\ GiveUp(s)
  /\ UNCHANGED <<allocated, attached, cached, hasty, stops>>

\* The database: the node gets the new address as host and ssh_host, the nodes
\* that had the node's former host get it where they had that host.  What
\* follows, waiting for SSH and pushing the configurations, changes no address.
UpdateDb(s) ==
  LET w == swap[s]
      peers == {m \in Nodes \ {w.node} : w.oldHost \in {host[m], sshHost[m]}}
  IN  /\ w.at = "update"
      /\ host' = [m \in Nodes |->
                    IF m = w.node \/ (m \in peers /\ host[m] = w.oldHost) THEN w.new ELSE host[m]]
      /\ sshHost' = [m \in Nodes |-> IF m \in peers \cup {w.node} THEN w.new ELSE sshHost[m]]
      /\ GiveUp(s)
      /\ UNCHANGED <<allocated, attached, cached, hasty, stops>>

\* A report with the public address of the machine, as the agent has it cached
\* or, when five minutes have passed, as it looks it up, and what
\* maybeAutoCorrectIp makes of it
AutoCorrect(ip) ==
  LET old == sshHost[Reporter]
      targets == IF ip = old THEN {} ELSE {m \in Nodes : m = Reporter \/ sshHost[m] = old}
  IN  /\ ip # None
      /\ cached' = ip
      /\ sshHost' = [m \in Nodes |-> IF m \in targets THEN ip ELSE sshHost[m]]
      /\ host' = [m \in Nodes |->
                    IF m \in targets /\ m \notin V6 /\ host[m] \in Addrs THEN ip ELSE host[m]]
      /\ UNCHANGED <<allocated, attached, swap, hasty, stops>>

\* The panel stops and starts: swaps under way are forgotten
Restart ==
  /\ Running # {}
  /\ stops < MaxStops
  /\ stops' = stops + 1
  /\ swap' = [s \in Swaps |-> NoSwap]
  /\ UNCHANGED <<allocated, attached, host, sshHost, cached, hasty>>

SwapStep(s) ==
  \/ Describe(s)
  \/ Detach(s)
  \/ Release(s)
  \/ Allocate(s)
  \/ Attach(s)
  \/ AttachFails(s)
  \/ CallFails(s)
  \/ UpdateDb(s)

Next ==
  \/ \E s \in Swaps : (\E n \in Bound : Start(s, n)) \/ SwapStep(s)
  \/ AutoCorrect(cached)
  \/ AutoCorrect(attached)
  \/ Restart

Spec == Init /\ [][Next]_vars

\* The awaited calls return; the agent of a machine with an address reports, and
\* its cache does not serve for ever.
FairSpec == Spec /\ (\A s \in Swaps : WF_vars(SwapStep(s))) /\ WF_vars(AutoCorrect(attached))

----------------------------------------------------------------------------
\* The variables have their types.
TypeOK ==
  /\ allocated \subseteq Addrs
  /\ attached \in Addrs \cup {None}
  /\ host \in [Nodes -> Addrs \cup {SixAddr}]
  /\ sshHost \in [Nodes -> Addrs]
  /\ swap \in [Swaps -> [at : {"idle", "describe", "detach", "release", "allocate", "attach", "update"},
                         node : Nodes, oldHost : Addrs \cup {SixAddr, None},
                         old : Addrs \cup {None}, new : Addrs \cup {None}]]
  /\ cached \in Addrs
  /\ hasty \in BOOLEAN
  /\ stops \in 0..MaxStops

\* The addresses a swap under way still answers for
Held(s) == CASE swap[s].at = "release" -> {swap[s].old}
             [] swap[s].at = "attach"  -> {swap[s].new}
             [] OTHER -> {}

\* As long as the panel does not stop in the middle of a swap, every allocated
\* address is attached or in the hands of a swap that will attach or release
\* it: no address is paid for and forgotten.
NoAddressLeaked ==
  stops = 0 => allocated \subseteq {attached} \cup UNION {Held(s) : s \in Swaps}

\* A node whose host is IPv6 keeps it through the swaps of the IPv4 nodes of its
\* machine and through the reports; only a swap called for a node that has the
\* IPv6 host itself can overwrite it.
SixKeptByOthers ==
  [][\A n \in V6 : host[n] = SixAddr /\ host'[n] # SixAddr
        => \E s \in Swaps : swap[s].at = "update" /\ swap[s].oldHost = SixAddr]_vars

\* When no swap is under way any more and the machine has an address, the node
\* whose agent reports ends up with it, whoever wrote last, the update of a swap
\* or a report with an address that was no longer the machine's; and so do all
\* nodes of the machine, unless a swap was started in haste, when the node it is
\* called for can have a host that its twins have no longer, or the agent reports
\* for an IPv6 node, whose own swap tells the twins nothing.
AddressConverges ==
  LET Right(n) == sshHost[n] = attached /\ (n \notin V6 => host[n] = attached)
  IN  <>[](Running = {} /\ attached # None)
        => <>[](Right(Reporter) /\ (hasty \/ Reporter \in V6 \/ \A n \in Nodes : Right(n)))
=============================================================================
