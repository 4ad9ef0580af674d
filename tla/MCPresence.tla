----------------------------- MODULE MCPresence -----------------------------
(***************************************************************************)
(* Small instances of Presence, on one or two clients.                     *)
(***************************************************************************)
EXTENDS Presence

CONSTANTS c1, c2
=============================================================================
