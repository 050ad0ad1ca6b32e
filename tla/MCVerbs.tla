------------------------------ MODULE MCVerbs ------------------------------
(***************************************************************************)
(* Small instances of Verbs for TLC.                                       *)
(***************************************************************************)
EXTENDS Verbs, TLC

\* One pane, one source.
OneSource == {[pane |-> 1, engine |-> "e1", pty |-> "y"]}

\* Goroutines are alike.
AnyCaller == Permutations(Callers)
=============================================================================
