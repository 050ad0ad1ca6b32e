----------------------------- MODULE MCChannel -----------------------------
(***************************************************************************)
(* Small instances of Channel for TLC.                                     *)
(***************************************************************************)
EXTENDS Channel, TLC

\* One pane, drawn by one sidecar.
OneHost == {<<1, "s">>}
=============================================================================
