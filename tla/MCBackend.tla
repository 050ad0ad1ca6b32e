----------------------------- MODULE MCBackend -----------------------------
(***************************************************************************)
(* Small instances of Backend for TLC.                                     *)
(***************************************************************************)
EXTENDS Backend

Surface(id, generation, pane, y, h, layer) ==
  [id |-> id, generation |-> generation, pane |-> pane,
   frame |-> [y |-> y, height |-> h], layer |-> layer]

\* Two surfaces: the first moves, changes depth, gets a negative span, is
\* declared anew over its pane; the second takes its pane over, or names none.
Moving == {Surface(1, 1, 1, 0, 4, 1), Surface(1, 1, 1, 2, -1, 3), Surface(1, 2, 1, 0, 4, 1),
           Surface(2, 1, 1, 0, 4, 2), Surface(2, 2, 2, 0, 4, 2), Surface(2, 3, 0, 0, 4, 2)}

\* Two surfaces that stay where they are, and one that moves.
Standing == {Surface(1, 1, 1, 0, 4, 1), Surface(2, 1, 2, 0, 4, 1), Surface(2, 1, 2, 2, 4, 1)}
=============================================================================
