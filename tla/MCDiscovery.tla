----------------------------- MODULE MCDiscovery -----------------------------
(***************************************************************************)
(* Small instances of Discovery: one device, with an entity every variant  *)
(* has ("base") and one only the larger variant has ("port").              *)
(***************************************************************************)
EXTENDS Discovery, TLC

CONSTANTS full, plain, d1

MCKey == {"base", "port"}
MCKeysOf(v) == CASE v = full  -> {"base", "port"}
                 [] v = plain -> {"base"}
                 [] OTHER     -> {}
=============================================================================
