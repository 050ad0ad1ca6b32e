---------------------------- MODULE MCSessions ----------------------------
(***************************************************************************)
(* Small instances of Sessions for TLC.                                    *)
(***************************************************************************)
EXTENDS Sessions, TLC

\* One pane that may be declared on either of two engines, over one pty.
OnePane == {[pane |-> 1, engine |-> "e1", pty |-> "y"],
            [pane |-> 1, engine |-> "e2", pty |-> "y"]}

\* One pane, one source.
OneSource == {[pane |-> 1, engine |-> "e1", pty |-> "y"]}

\* Two panes over one pty, the first of which may be declared on either engine.
TwoPanes == OnePane \cup {[pane |-> 2, engine |-> "e1", pty |-> "y"]}

\* Goroutines are alike.
AnyCaller == Permutations(Callers)
============================================================================
