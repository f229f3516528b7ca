------------------------------ MODULE RemoteCall ------------------------------
(***************************************************************************)
(* What sendCommand promises its caller, without connections: a call is    *)
(* answered or fails, once and in finite time; the node runs the command   *)
(* at most once, and an answer means that it did.  A call that failed may  *)
(* still be run, then or later.                                            *)
(***************************************************************************)
EXTENDS Naturals

CONSTANT Cmds

VARIABLES
  call,  \* "idle", "asked", "answered" or "failed"
  runs   \* how many times the node ran the command

vars == <<call, runs>>

Init ==
  /\ call = [k \in Cmds |-> "idle"]
  /\ runs = [k \in Cmds |-> 0]

\* No connection: the call fails at once
Ask(k) ==
  /\ call[k] = "idle"
  /\ \E answer \in {"asked", "failed"} : call' = [call EXCEPT ![k] = answer]
  /\ UNCHANGED runs

Run(k) ==
  /\ call[k] # "idle"
  /\ runs[k] = 0
  /\ runs' = [runs EXCEPT ![k] = 1]
  /\ UNCHANGED call

Answer(k) ==
  /\ call[k] = "asked"
  /\ runs[k] = 1
  /\ call' = [call EXCEPT ![k] = "answered"]
  /\ UNCHANGED runs

\* A connection or the panel may end with several calls under way
Fail ==
  \E F \in SUBSET {k \in Cmds : call[k] = "asked"} :
    /\ F # {}
    /\ call' = [k \in Cmds |-> IF k \in F THEN "failed" ELSE call[k]]
    /\ UNCHANGED runs

Next == Fail \/ \E k \in Cmds : Ask(k) \/ Run(k) \/ Answer(k)

Spec == Init /\ [][Next]_vars /\ \A k \in Cmds : WF_vars(Fail /\ call'[k] # call[k])
=============================================================================
