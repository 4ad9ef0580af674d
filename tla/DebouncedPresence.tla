-------------------------- MODULE DebouncedPresence --------------------------
(***************************************************************************)
(* What Home Assistant may rely on about the presence of the clients: that *)
(* one is home is told while the last answered poll lists it, that one is  *)
(* away only when no poll has listed it for a whole timeout; an item that  *)
(* follows the presence tells nothing the presence has not told before;    *)
(* and the broker shows the last thing told, or nothing until what it lost *)
(* is replayed.                                                            *)
(***************************************************************************)
EXTENDS Naturals

CONSTANTS Client,
          Timeout

Item == {"presence", "online"}

VARIABLES told,      \* what each item was last told, if anything
          shown,     \* what the broker holds of it
          gap,       \* time since a poll listed the client, up to Timeout
          up,        \* the broker can be reached
          restored   \* no replay is owed

vars == <<told, shown, gap, up, restored>>

Untold == [c \in Client |-> [i \in Item |-> "none"]]

Init ==
    /\ told = Untold /\ shown = Untold
    /\ gap = [c \in Client |-> 0]
    /\ up = TRUE /\ restored = TRUE

\* A poll lists the clients of S.
Listed(S) ==
    /\ gap' = [c \in Client |-> IF c \in S THEN 0 ELSE gap[c]]
    /\ UNCHANGED <<told, shown, up, restored>>

\* Time passes for those of S.
Pass(S) ==
    /\ gap' = [c \in Client |-> IF c \in S /\ gap[c] < Timeout THEN gap[c] + 1 ELSE gap[c]]
    /\ UNCHANGED <<told, shown, up, restored>>

Tell(c, i, v) ==
    /\ up
    /\ gap[c] = IF v = "home" THEN 0 ELSE Timeout
    /\ i = "online" => told[c]["presence"] = v
    /\ told' = [told EXCEPT ![c][i] = v]
    /\ shown' = [shown EXCEPT ![c][i] = v]
    /\ UNCHANGED <<gap, up, restored>>

\* The broker goes away, with its store or without.
Lose ==
    /\ up /\ ~up'
    /\ shown' \in {shown, Untold}
    /\ UNCHANGED <<told, gap, restored>>

Return ==
    /\ ~up /\ up'
    /\ restored /\ ~restored'
    /\ UNCHANGED <<told, shown, gap>>

\* What was told is told again, unless the broker is gone once more.
Replay ==
    /\ ~restored /\ restored'
    /\ shown' = IF up THEN [c \in Client |-> [i \in Item |->
                              IF told[c][i] = "none" THEN shown[c][i] ELSE told[c][i]]]
                ELSE shown
    /\ UNCHANGED <<told, gap, up>>

Next ==
    \/ \E S \in SUBSET Client : Listed(S) \/ Pass(S)
    \/ \E c \in Client, i \in Item, v \in {"home", "away"} : Tell(c, i, v)
    \/ Lose \/ Return \/ Replay

Spec == Init /\ [][Next]_vars
=============================================================================
