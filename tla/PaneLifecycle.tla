---------------------------- MODULE PaneLifecycle ----------------------------
(***************************************************************************)
(* What pane.go promises of one pane, whatever goroutines and sidecars do: *)
(* it holds one declaration at a time, and is opened, settles as live or   *)
(* blocked, is opened again when a sidecar of it was replaced, and goes.   *)
(***************************************************************************)
EXTENDS Naturals

CONSTANTS
  Panes,
  Generations  \* declarations, numbered in their order from 1

VARIABLES
  held,  \* the declaration each pane holds, 0 if none
  phase  \* what Status tells of it

vars == <<held, phase>>

Settled(p) == phase[p] \in {"live", "blocked"}

Init ==
  /\ held = [p \in Panes |-> 0]
  /\ phase = [p \in Panes |-> "absent"]

\* A newer declaration takes the pane, never one that is being opened.
Open(p, g) ==
  /\ phase[p] # "opening" /\ held[p] < g
  /\ held' = [held EXCEPT ![p] = g]
  /\ phase' = [phase EXCEPT ![p] = "opening"]

Reopen(p) ==
  /\ Settled(p)
  /\ phase' = [phase EXCEPT ![p] = "opening"]
  /\ UNCHANGED held

Settle(p) ==
  /\ phase[p] = "opening"
  /\ \E settled \in {"live", "blocked"} : phase' = [phase EXCEPT ![p] = settled]
  /\ UNCHANGED held

\* Only what has settled is closed.
Close(p) ==
  /\ Settled(p)
  /\ held' = [held EXCEPT ![p] = 0]
  /\ phase' = [phase EXCEPT ![p] = "absent"]

Next == \E p \in Panes : \/ \E g \in Generations : Open(p, g)
                         \/ Reopen(p) \/ Settle(p) \/ Close(p)

OpeningsSettle == \A p \in Panes : phase[p] = "opening" ~> Settled(p)

Steps == Init /\ [][Next]_vars

Spec == Steps /\ OpeningsSettle
=============================================================================
