---------------------------- MODULE Declarations ----------------------------
(***************************************************************************)
(* What ObservePanes promises the host, whatever the compositor commits    *)
(* and the driver does: a declaration appears once, under a lifecycle      *)
(* generation above every one before it, and goes at most once, under the  *)
(* generation and the pane it appeared with.                               *)
(***************************************************************************)
EXTENDS Naturals

CONSTANTS Panes, Generations

VARIABLES
  last,  \* the newest generation reported
  live   \* the declarations reported to appear and not to go

vars == <<last, live>>

Init == last = 0 /\ live = {}

Appear(d) ==
  /\ d.generation > last
  /\ last' = d.generation
  /\ live' = live \cup {d}

Go(d) ==
  /\ d \in live
  /\ live' = live \ {d}
  /\ UNCHANGED last

Next == \E d \in [generation : Generations, pane : Panes] : Appear(d) \/ Go(d)

Spec == Init /\ [][Next]_vars
=============================================================================
