----------------------------- MODULE MCControls -----------------------------
(***************************************************************************)
(* Small instances of Controls.                                            *)
(***************************************************************************)
EXTENDS Controls
=============================================================================
