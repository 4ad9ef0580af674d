------------------------------ MODULE MCBridge ------------------------------
(* One device. *)
EXTENDS Bridge

CONSTANT d1
=============================================================================
