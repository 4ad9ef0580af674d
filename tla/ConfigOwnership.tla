--------------------------- MODULE ConfigOwnership ---------------------------
(***************************************************************************)
(* What one instance of the bridge promises about the retained discovery  *)
(* configs of a broker it shares with other writers: it may create or     *)
(* overwrite a config, but it empties a config topic only if the broker   *)
(* accepted a config of this very process on that topic before.  Two      *)
(* instances emit byte-identical topics and payloads, so nothing weaker   *)
(* keeps one from deleting the other's live entities.                     *)
(***************************************************************************)
CONSTANTS Topic,    \* the config topics
          Payload,  \* what can be retained, NoConfig included
          NoConfig

VARIABLES store,    \* the broker's retained messages
          owned     \* the topics a config of this process was stored on

vars == <<store, owned>>

Init ==
    /\ store \in [Topic -> Payload]
    /\ owned = {}

Put(t, p) ==
    /\ p # NoConfig
    /\ store' = [store EXCEPT ![t] = p]
    /\ owned' = owned \cup {t}

Retract(t) ==
    /\ t \in owned
    /\ store' = [store EXCEPT ![t] = NoConfig]
    /\ UNCHANGED owned

\* A broker without persistence restarts.
Vanish ==
    /\ store' = [t \in Topic |-> NoConfig]
    /\ UNCHANGED owned

Next ==
    \/ \E t \in Topic, p \in Payload : Put(t, p)
    \/ \E t \in Topic : Retract(t)
    \/ Vanish

Spec == Init /\ [][Next]_vars
=============================================================================
