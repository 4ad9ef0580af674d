------------------------------ MODULE Presence ------------------------------
(***************************************************************************)
(* The client half of the coordinator (internal/coordinator/client.go):    *)
(* the client loop with its presence debounce, what it publishes through   *)
(* the publisher (publish.go), what it records in the state store          *)
(* (internal/state/store.go), and the connect hook that runs beside it     *)
(* (coordinator.go, OnConnect).                                            *)
(*                                                                         *)
(* One unit of time is one poll interval: a poll is over within a unit, so *)
(* no time passes while the loop publishes. What a status item carries is  *)
(* abstracted to the presence it was rendered for. The items of a client   *)
(* are published in the order of ItemOrder; `blocked` and the attributes   *)
(* follow the last of them like `online`, the signal like `ip`.            *)
(*                                                                         *)
(* go-hamqtt's StatePublisher is external: a successful publish or         *)
(* eviction updates its memory, a failed one does not, and a publish of    *)
(* the remembered value is suppressed.                                     *)
(***************************************************************************)
EXTENDS Naturals, Sequences

CONSTANTS
    Client,       \* the clients the filter keeps
    Entity,       \* the discovery entities of one client
    Timeout,      \* AWAY_TIMEOUT, in poll intervals
    MaxMoves,     \* bound: arrivals and departures
    MaxFail,      \* bound: publishes the broker refuses
    MaxDrop,      \* bound: MQTT connection losses
    DropInFlight  \* whether the connection may be lost and restored between
                  \* two of the configs of one client

ASSUME TimeoutAssumption == Timeout \in Nat \ {0}

Nobody == "nobody"
ASSUME ClientAssumption == Nobody \notin Client

ItemOrder == <<"state", "online", "ip">>
Item == {"state", "online", "ip"}
NoValue == "none"
Value == {"home", "away", NoValue}

\* Mutant: the last known address of an absent client is published again.
Rendered_KeepsAddress(i, atHome) == IF atHome THEN "home" ELSE IF i = "ip" THEN "home" ELSE "away"

\* What publishClient publishes: an absent client has no address.
Rendered(i, atHome) == IF atHome THEN "home" ELSE IF i = "ip" THEN NoValue ELSE "away"

VARIABLES
    \* environment
    here,     \* the clients on the network
    link,     \* the MQTT connection is up
    shown,    \* the retained status items
    created,  \* the retained discovery configs, as <<client, entity>>
    spent,    \* how much of each bound has been used
    \* publisher
    memory,   \* the state plane's remembered values
    emptied,  \* items whose last publish carried no value
    gate,     \* configs whose payload was sent on this connection
    \* coordinator
    known,    \* the clients the coordinator tracks
    home,     \* those it holds to be at home
    unseen,   \* time since a poll last listed the client, up to Timeout
    latched,  \* clientsDiscovered
    \* state store
    listed,   \* the clients the web page lists: absent, home or away
    \* control
    job,      \* what the client loop is doing
    hook,     \* what the connect hook is doing
    \* history
    gap       \* time since an answered poll listed the client, up to Timeout

envVars == <<here, link, shown, created, spent>>
pubVars == <<memory, emptied, gate>>
coordVars == <<known, home, unseen, latched, listed, gap>>
vars == <<envVars, pubVars, coordVars, job, hook>>

IdleJob == [stage |-> "idle", present |-> {}, todo |-> {}, cur |-> Nobody,
            entities |-> {}, items |-> <<>>]

Job == [stage    : {"idle", "track", "expire"},
        present  : SUBSET Client,               \* what the poll listed
        todo     : SUBSET Client,               \* clients still to handle
        cur      : Client \cup {Nobody},        \* the client being published
        entities : SUBSET Entity,               \* its configs still to publish
        items    : {ItemOrder, <<"online", "ip">>, <<"ip">>, <<>>}]  \* and its items

TypeOK ==
    /\ here \subseteq Client
    /\ link \in BOOLEAN
    /\ shown \in [Client -> [Item -> Value]]
    /\ created \subseteq Client \X Entity
    /\ spent \in [{"moves", "fail", "drop"} -> Nat]
    /\ memory \in [Client -> [Item -> Value]]
    /\ emptied \subseteq Client \X Item
    /\ gate \subseteq Client \X Entity
    /\ home \subseteq known /\ known \subseteq Client
    /\ unseen \in [Client -> 0..Timeout]
    /\ latched \subseteq known
    /\ listed \in [Client -> {"absent", "home", "away"}]
    /\ job \in Job
    /\ hook \in {"idle", "replay", "relatch"}
    /\ gap \in [Client -> 0..Timeout]

Init ==
    /\ here \in SUBSET Client
    /\ link = TRUE
    /\ shown = [c \in Client |-> [i \in Item |-> NoValue]]
    /\ created = {}
    /\ spent = [b \in {"moves", "fail", "drop"} |-> 0]
    /\ memory = shown
    /\ emptied = {}
    /\ gate = {}
    /\ known = {} /\ home = {} /\ latched = {}
    /\ unseen = [c \in Client |-> 0]
    /\ listed = [c \in Client |-> "absent"]
    /\ job = IdleJob
    /\ hook = "idle"
    /\ gap = [c \in Client |-> 0]

Spend(b, max) == spent[b] < max /\ spent' = [spent EXCEPT ![b] = @ + 1]

\* A publish fails: the link is down, or the broker refuses it.
PublishFails ==
    \/ ~link /\ UNCHANGED spent
    \/ link /\ Spend("fail", MaxFail)

-----------------------------------------------------------------------------
(* The client loop.                                                        *)

\* The client list is read. A poll that fails changes nothing here.
Poll ==
    /\ job.stage = "idle"
    /\ job' = [IdleJob EXCEPT !.stage = "track", !.present = here, !.todo = here]
    /\ gap' = [c \in Client |-> IF c \in here THEN 0 ELSE gap[c]]
    /\ UNCHANGED <<envVars, pubVars, known, home, unseen, latched, listed, hook>>

\* Mutant: a client that is still held to be at home is not stamped again.
Seen_OnceAtHome(c) == [unseen EXCEPT ![c] = IF c \in home THEN @ ELSE 0]

Seen(c) == [unseen EXCEPT ![c] = 0]

\* trackPresent: the client is recorded, and announced unless it was.
TrackPresent ==
    /\ job.stage = "track"
    /\ job.cur = Nobody
    /\ \E c \in job.todo :
        /\ known' = known \cup {c}
        /\ home' = home \cup {c}
        /\ unseen' = Seen(c)
        /\ listed' = [listed EXCEPT ![c] = "home"]
        /\ job' = [job EXCEPT !.todo = @ \ {c}, !.cur = c, !.items = ItemOrder,
                              !.entities = IF c \in latched THEN {} ELSE Entity]
    /\ UNCHANGED <<envVars, pubVars, latched, hook, gap>>

\* publishClientDiscovery: the next config, in a fixed order, unless the gate
\* knows it.
NextConfig == <<job.cur, CHOOSE e \in job.entities : TRUE>>

PublishConfig ==
    /\ job.entities # {}
    /\ \/ NextConfig \in gate /\ UNCHANGED <<gate, created>>
       \/ /\ NextConfig \notin gate
          /\ link
          /\ gate' = gate \cup {NextConfig}
          /\ created' = created \cup {NextConfig}
    /\ job' = [job EXCEPT !.entities = @ \ {NextConfig[2]}]
    /\ latched' = IF job'.entities = {} THEN latched \cup {job.cur} ELSE latched
    /\ UNCHANGED <<here, link, shown, spent, memory, emptied, known, home, unseen, listed, hook, gap>>

\* Its failure leaves the client unannounced and unpublished until the next
\* poll.
PublishConfigFails ==
    /\ job.entities # {}
    /\ NextConfig \notin gate
    /\ PublishFails
    /\ job' = [job EXCEPT !.cur = Nobody, !.entities = {}, !.items = <<>>]
    /\ UNCHANGED <<here, link, shown, created, pubVars, coordVars, hook>>

\* publishClient: the next item of the client, if any is left.
PublishingItem == job.cur # Nobody /\ job.entities = {}
NextValue == Rendered(Head(job.items), job.stage = "track")

\* An unchanged value, or a repeated "no value", is not sent.
Suppressed(c, i, v) ==
    IF v = NoValue THEN <<c, i>> \in emptied ELSE memory[c][i] = v

\* Mutant: every publish marks the item as emptied, with a value or without.
StillEmpty_AnyValue(c, i, v) == emptied \cup {<<c, i>>}

StillEmpty(c, i, v) == IF v = NoValue THEN emptied \cup {<<c, i>>} ELSE emptied \ {<<c, i>>}

PublishItem ==
    LET c == job.cur
        i == Head(job.items)
    IN
    /\ PublishingItem
    /\ \/ Suppressed(c, i, NextValue) /\ UNCHANGED <<shown, memory, emptied>>
       \/ /\ ~Suppressed(c, i, NextValue)
          /\ link
          /\ shown' = [shown EXCEPT ![c][i] = NextValue]
          /\ memory' = [memory EXCEPT ![c][i] = NextValue]
          /\ emptied' = StillEmpty(c, i, NextValue)
    /\ job' = [job EXCEPT !.items = Tail(@), !.cur = IF Tail(job.items) = <<>> THEN Nobody ELSE @]
    /\ UNCHANGED <<here, link, created, spent, gate, coordVars, hook>>

\* Mutant: the items that follow are published all the same.
PublishItemFails_GoesOn ==
    /\ PublishingItem
    /\ ~Suppressed(job.cur, Head(job.items), NextValue)
    /\ PublishFails
    /\ job' = [job EXCEPT !.items = Tail(@), !.cur = IF Tail(job.items) = <<>> THEN Nobody ELSE @]
    /\ UNCHANGED <<here, link, shown, created, pubVars, coordVars, hook>>

\* An item that cannot be published ends the client's turn.
PublishItemFails ==
    /\ PublishingItem
    /\ ~Suppressed(job.cur, Head(job.items), NextValue)
    /\ PublishFails
    /\ job' = [job EXCEPT !.cur = Nobody, !.items = <<>>]
    /\ UNCHANGED <<here, link, shown, created, pubVars, coordVars, hook>>

Expired == {c \in known \ job.present : c \in home /\ unseen[c] >= Timeout}

\* expireAbsent decides under the lock, before anything is published.
ExpireAbsent ==
    /\ job.stage = "track"
    /\ job.cur = Nobody /\ job.todo = {}
    /\ home' = home \ Expired
    /\ job' = [job EXCEPT !.stage = "expire", !.todo = Expired]
    /\ UNCHANGED <<envVars, pubVars, known, unseen, latched, listed, hook, gap>>

PublishAway ==
    /\ job.stage = "expire"
    /\ job.cur = Nobody
    /\ \E c \in job.todo :
        /\ listed' = [listed EXCEPT ![c] = "away"]
        /\ job' = [job EXCEPT !.todo = @ \ {c}, !.cur = c, !.items = ItemOrder]
    /\ UNCHANGED <<envVars, pubVars, known, home, unseen, latched, hook, gap>>

\* DropClients keeps the clients of this poll.
DropClients ==
    /\ job.stage = "expire"
    /\ job.cur = Nobody /\ job.todo = {}
    /\ listed' = [c \in Client |-> IF c \in job.present THEN listed[c] ELSE "absent"]
    /\ job' = IdleJob
    /\ UNCHANGED <<envVars, pubVars, known, home, unseen, latched, hook, gap>>

-----------------------------------------------------------------------------
(* The connect hook and the environment.                                   *)

Move ==
    /\ Spend("moves", MaxMoves)
    /\ \E c \in Client : here' = IF c \in here THEN here \ {c} ELSE here \cup {c}
    /\ UNCHANGED <<link, shown, created, pubVars, coordVars, job, hook>>

Longer(n) == IF n < Timeout THEN n + 1 ELSE n

\* A poll interval passes.
Tick ==
    /\ job.stage = "idle"
    /\ \E c \in known : unseen[c] < Timeout \/ gap[c] < Timeout
    /\ unseen' = [c \in Client |-> IF c \in known THEN Longer(unseen[c]) ELSE 0]
    /\ gap' = [c \in Client |-> IF c \in known THEN Longer(gap[c]) ELSE 0]
    /\ UNCHANGED <<envVars, pubVars, known, home, latched, listed, job, hook>>

\* The broker may come back without its retained store.
Disconnect ==
    /\ link
    /\ DropInFlight \/ job.entities \in {{}, Entity}
    /\ Spend("drop", MaxDrop)
    /\ link' = FALSE
    /\ \/ UNCHANGED <<shown, created>>
       \/ /\ shown' = [c \in Client |-> [i \in Item |-> NoValue]]
          /\ created' = {}
    /\ UNCHANGED <<here, pubVars, coordVars, job, hook>>

\* OnConnect: resetPlanes opens the gate...
Reconnect ==
    /\ ~link
    /\ DropInFlight \/ job.entities \in {{}, Entity}
    /\ hook = "idle"
    /\ link' = TRUE
    /\ gate' = {}
    /\ hook' = "replay"
    /\ UNCHANGED <<here, shown, created, spent, memory, emptied, coordVars, job>>

\* Mutant: only what the broker still holds is replayed.
Replayed_Known(c, i) == IF shown[c][i] = NoValue THEN NoValue ELSE memory[c][i]

Replayed(c, i) == IF memory[c][i] = NoValue THEN shown[c][i] ELSE memory[c][i]

\* ...republish replays every remembered item, if the link is still up...
Republish ==
    /\ hook = "replay"
    /\ shown' = IF link THEN [c \in Client |-> [i \in Item |-> Replayed(c, i)]] ELSE shown
    /\ hook' = "relatch"
    /\ UNCHANGED <<here, link, created, spent, pubVars, coordVars, job>>

\* Mutant: the latches survive the reconnect.
Relatched_Kept == latched

Relatched == {}

\* ...and rediscoverOnReconnect opens the one-shot latches.
Relatch ==
    /\ hook = "relatch"
    /\ latched' = Relatched
    /\ hook' = "idle"
    /\ UNCHANGED <<envVars, pubVars, known, home, unseen, listed, job, gap>>

Loop ==
    \/ Poll \/ TrackPresent \/ PublishConfig \/ PublishConfigFails
    \/ PublishItem \/ PublishItemFails
    \/ ExpireAbsent \/ PublishAway \/ DropClients

Hook == Reconnect \/ Republish \/ Relatch

Next == Loop \/ Hook \/ Move \/ Tick \/ Disconnect

Spec == Init /\ [][Next]_vars

\* The loop keeps polling and publishing, time passes between its polls, and
\* a lost connection is re-established.
FairSpec == Spec /\ WF_vars(Loop) /\ SF_vars(Tick) /\ SF_vars(Hook)

-----------------------------------------------------------------------------
(* Properties.                                                             *)

\* What is shown of a client: all its items tell the same presence, and no
\* address is shown of one that is away.
Shows(c, atHome) ==
    LET told == IF atHome THEN "home" ELSE "away" IN
    /\ shown[c]["state"] = told /\ shown[c]["online"] = told
    /\ shown[c]["ip"] = IF atHome THEN "home" ELSE NoValue

\* No publish failed so far: a failed one is not always made up for, see
\* AwayAtLast.
NoneFailed == spent["fail"] = 0 /\ spent["drop"] = 0

\* A client is shown away only after no answered poll has listed it for a
\* whole AWAY_TIMEOUT, and never one the current poll lists - a roaming
\* client does not flap (client.go:18-23).
NoFlap ==
    [][\A c \in Client :
         shown[c]["state"] = "home" /\ shown'[c]["state"] = "away"
            => c \notin job.present /\ gap[c] = Timeout]_vars

\* Of the value of an item, what tells the presence of its client.
Telling(value) ==
    [c \in Client |-> [i \in {"presence", "online"} |-> value[c][IF i = "presence" THEN "state" ELSE i]]]

\* Towards Home Assistant the poll loop, its half-failed turns and the replay
\* of a reconnect are one debounced presence per client, and the online item
\* its entities' availability rests on never tells a presence that the state
\* item has not told (client.go:18-23, 167-178, publish.go:351-355).
Debounced == INSTANCE DebouncedPresence WITH
    told     <- Telling(memory),
    shown    <- Telling(shown),
    up       <- link,
    restored <- hook # "replay"
ImplementsDebounced == Debounced!Spec

\* Between two polls the items of a tracked client agree: an absent one shows
\* no address (client.go:181-183).
ItemsAgree ==
    job.stage = "idle" /\ NoneFailed => \A c \in known : Shows(c, c \in home)

\* In the end, who is there is shown at home and who is not is shown away.
Settles == <>[](NoneFailed => \A c \in known : Shows(c, c \in here))

\* Once the connect hook is through, the broker holds every value the
\* daemon last published, whatever it lost (publish.go:351-355).
ReplayComplete ==
    link /\ hook # "replay" =>
        \A c \in Client, i \in Item : memory[c][i] # NoValue => shown[c][i] = memory[c][i]

\* A client is announced once, so the latch may remember only what the broker
\* still holds: once the connect hook is through, every entity of a latched
\* client is there (coordinator.go:506-517, client.go:105-109).
LatchHonest ==
    link /\ hook = "idle" => \A c \in latched, e \in Entity : <<c, e>> \in created

\* A client on the network ends up with all its entities, even on a broker
\* that came back without its retained store (coordinator.go:506-517).
EntitiesRestored == <>[](\A c \in here, e \in Entity : <<c, e>> \in created)

\* A client that left for good is not shown at home for ever
\* (client.go:20-23, expireAbsent).
AwayAtLast == <>[](\A c \in Client \ here : shown[c]["state"] # "home")

=============================================================================
