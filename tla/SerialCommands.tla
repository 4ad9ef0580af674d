--------------------------- MODULE SerialCommands ---------------------------
(***************************************************************************)
(* What the command channel promises to whoever publishes requests: those  *)
(* it accepts are taken up one at a time, in the order they were made, and *)
(* never again; the console changes only by hand or by the request that is *)
(* in hand; and unless an answer was lost on its way, a request changes it *)
(* at most once.                                                           *)
(***************************************************************************)
EXTENDS Integers, FiniteSets

CONSTANTS Control,    \* what can be switched
          Capacity    \* requests that can wait

VARIABLES truth,      \* what is switched on
          sent,       \* how many requests were made
          waiting,    \* the requests accepted and not yet taken up
          inHand,     \* the request in hand, if any
          open,       \* it may still take effect
          doubt       \* an answer has been lost

vars == <<truth, sent, waiting, inHand, open, doubt>>

Init ==
    /\ truth \in [Control -> BOOLEAN]
    /\ sent = 0
    /\ waiting = {} /\ inHand = {}
    /\ open = FALSE /\ doubt = FALSE

\* A request is made. It is accepted, or dropped for good.
Request ==
    /\ sent' = sent + 1
    /\ \/ UNCHANGED waiting
       \/ /\ Cardinality(waiting) < Capacity
          /\ \E k \in Control, on \in BOOLEAN :
                waiting' = waiting \cup {[n |-> sent + 1, kind |-> k, on |-> on]}
    /\ UNCHANGED <<truth, inHand, open>>

\* The oldest is taken up. It may be refused at once.
TakeUp ==
    /\ inHand = {}
    /\ \E c \in waiting :
          /\ \A d \in waiting : c.n <= d.n
          /\ inHand' = {c} /\ waiting' = waiting \ {c}
    /\ open' \in BOOLEAN
    /\ UNCHANGED <<truth, sent>>

\* It takes effect, and can do so again only if its answer was lost.
TakeEffect ==
    /\ open
    /\ \E c \in inHand : truth' = [truth EXCEPT ![c.kind] = c.on]
    /\ open' => doubt'
    /\ UNCHANGED <<sent, waiting, inHand>>

\* It will not take effect (any more).
Close ==
    /\ open /\ ~open'
    /\ UNCHANGED <<truth, sent, waiting, inHand>>

Finish ==
    /\ inHand # {} /\ ~open
    /\ inHand' = {}
    /\ UNCHANGED <<truth, sent, waiting, open>>

\* Somebody uses the console.
ByHand ==
    /\ \E k \in Control : truth' = [truth EXCEPT ![k] = ~@]
    /\ UNCHANGED <<sent, waiting, inHand, open>>

Next ==
    /\ doubt => doubt'
    /\ \/ Request \/ TakeUp \/ TakeEffect \/ Close \/ Finish \/ ByHand
       \/ UNCHANGED <<truth, sent, waiting, inHand, open>>

Spec == Init /\ [][Next]_vars
=============================================================================
