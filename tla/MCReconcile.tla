----------------------------- MODULE MCReconcile -----------------------------
EXTENDS Reconcile
CONSTANTS d1, w1, c1, p1, p2

\* A device with a PoE port, a plain one and two radios, of which its
\* samples mention one. The client is a wireless guest with a MAC, which
\* has every entity there is.
MCShape == [d \in Device |-> [ports |-> {p1, p2}, poe |-> {p1}, bands |-> {"2g", "5g"}, sampled |-> {"5g"}]]
MCKind == [c \in Client |-> [mac |-> TRUE, wireless |-> TRUE, guest |-> TRUE]]

\* Everything, and the official API with devices alone.
Everything == [clients |-> TRUE, signal |-> TRUE, classic |-> TRUE,
               controls |-> {"restart", "locate", "power_cycle", "block", "authorize", "wlan"}]
MCConfiguration == {Everything, [Everything EXCEPT !.clients = FALSE, !.classic = FALSE, !.controls = {"restart"}]}
=============================================================================
