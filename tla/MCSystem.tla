------------------------------ MODULE MCSystem ------------------------------
(***************************************************************************)
(* Small instances of System for TLC.                                      *)
(***************************************************************************)
EXTENDS System

\* One pane, drawn by one sidecar.
OneHost == {<<1, "s">>}

\* One surface, declared twice.
Twice == {[id |-> 1, generation |-> g, pane |-> 1, frame |-> [y |-> 0, height |-> 4], layer |-> 1] :
            g \in {1, 2}}
=============================================================================
