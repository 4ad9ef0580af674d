------------------------------ MODULE Migration ------------------------------
(***************************************************************************)
(* The start after an upgrade from 1.x: migrateOldLayout                   *)
(* (internal/coordinator/migrate.go) and the re-point of the retained 1.x  *)
(* discovery configs (repoint.go), while the loops that announce the same  *)
(* config topics are already running, and with a process that may die at   *)
(* any point and start again on what it left on the broker.                *)
(*                                                                         *)
(* An object is a client, an infrastructure device, an SSID or the site's  *)
(* health. It has config topics, one per entity, and retained 1.x items.   *)
(* Of a config the model keeps who wrote it; of the items it keeps the two *)
(* that carry something the new layout cannot learn elsewhere while a      *)
(* client is away, its presence and its `blocked` value.                   *)
(*                                                                         *)
(* The console's devices and SSIDs do not change during a start, and the   *)
(* connection stays up: both are Discovery's. publishConfig is two steps   *)
(* here, what it sends and what it records; Discovery takes it apart.      *)
(***************************************************************************)
EXTENDS Naturals, Sequences, FiniteSets

CONSTANTS
    Client, Device, Wlan, Health,   \* the objects, by class
    Topic,      \* the config topics, as <<object, entity key>>
    Kept,       \* the entity keys the present configuration produces
    Enabled,    \* CLIENTS.ENABLE, CONTROLS.WLAN_ENABLE, CLASSIC_ENABLE
    Gone,       \* the devices and SSIDs of 1.x the console no longer has
    MaxEvent    \* bound: clients that come or go, deaths of the process,
                \* and polls, windows and publishes that fail, together

Object == Client \cup Device \cup Wlan \cup Health
Class == {"client", "device", "wlan", "site"}
Announcer == {"static", "clients", "health"}

ClassOf(o) == CASE o \in Client -> "client"
                [] o \in Device -> "device"
                [] o \in Wlan   -> "wlan"
                [] OTHER        -> "site"

\* The order repointLegacyConfigs and refreshStatic handle classes in.
Rank(o) == CASE o \in Client -> 1 [] o \in Device -> 2 [] o \in Wlan -> 3 [] OTHER -> 4
FirstOf(S) == {o \in S : \A p \in S : Rank(o) <= Rank(p)}

ASSUME MigrationAssumption ==
    /\ Enabled \subseteq {"client", "wlan", "site"}
    /\ \A t \in Topic : t[1] \in Object
    /\ Client \cap Device = {} /\ Client \cap Wlan = {} /\ Client \cap Health = {}
    /\ Device \cap Wlan = {} /\ Device \cap Health = {} /\ Wlan \cap Health = {}

(* What may be retained on a config topic: nothing, the config a 1.x run   *)
(* of this instance wrote, one rendered from an object this process polled *)
(* ("live"), or one rendered from a 1.x config's own identity ("rebuilt"). *)
Config == {"none", "old", "live", "rebuilt"}
Presence == {"none", "home", "not_home"}
None == <<>>
listed == (Device \cup Wlan) \ Gone

TopicsOf(o) == {t \in Topic : t[1] = o}
OldItems == (Object \X {"state"}) \cup (Client \X {"blocked"})

\* The entities of o this installation is configured to have: the options
\* without the live capabilities (configuredControls).
Rendered(o) ==
    IF o \in Device \/ ClassOf(o) \in Enabled
    THEN {t \in TopicsOf(o) : t[2] \in Kept} ELSE {}

VARIABLES
    \* environment
    here,       \* clients on the network
    spent,      \* the events that have happened
    \* broker
    config,     \* retained config per topic
    old,        \* retained 1.x items
    presence,   \* the 2.x `state` item of a client
    blocked,    \* clients whose 2.x `blocked` item is retained
    \* process
    running,    \* Run has primed its caches and started the goroutines
    lastConfig, \* the publisher's config gate
    memo,       \* the state plane's memory of each `state` item
    tracked,    \* c.clients: what the client loop thinks of a client
    latched,    \* clientsDiscovered
    details, seen, catalogue,   \* the device snapshot, list, and wlanByID
    reported,   \* the classes that are ready
    job,        \* the announcing loops
    done, mig   \* the migration

envVars == <<here, spent>>
itemVars == <<presence, blocked, memo>>
pollVars == <<tracked, latched, details, seen, catalogue, reported>>
migVars == <<done, mig>>
vars == <<envVars, config, old, itemVars, running, lastConfig, pollVars, job, migVars>>

IdleJob == [stage |-> "idle", saw |-> {}, list |-> {}, cur |-> None, todo |-> {}, sent |-> None]

IdleRound == [stage |-> "await", todo |-> {}, window |-> {}, items |-> {},
              objects |-> {}, extra |-> {}, cur |-> None, as |-> "none",
              configs |-> {}, call |-> None, moved |-> FALSE, away |-> <<>>]

Job == [stage : {"idle", "pick", "put"},
        saw : SUBSET Object,            \* what the poll has read
        list : SUBSET Object,           \* the objects it has left
        cur : Object \cup {None},
        todo : SUBSET Topic,            \* the current object's configs left
        sent : Topic \cup {None}]       \* sent and not yet recorded

Round == [stage : {"await", "collect", "objects", "settle", "put", "record",
                   "clear", "away", "evict", "wait", "done"},
          todo : SUBSET Class,          \* the classes the round is for
          window : SUBSET Topic,        \* the 1.x configs it has read
          items : SUBSET OldItems,      \* the 1.x items it has read
          objects : SUBSET Object,      \* the objects left to settle
          extra : SUBSET Object,        \* those it owns though no loop has them
          cur : Object \cup {None},
          as : Config \ {"old"},        \* what the object's configs become
          configs : SUBSET Topic,       \* those left of it
          call : Topic \cup {None},
          moved : BOOLEAN,
          away : Seq({"state", "blocked"})]

\* A source that is switched off is ready at once.
ReadyAtStart == {"client", "site"} \ Enabled

Init ==
    /\ here \in SUBSET Client
    /\ spent = [move |-> 0, crash |-> 0, fail |-> 0]
    /\ config = [t \in Topic |-> "old"]
    /\ old = OldItems
    /\ presence = [c \in Client |-> "none"]
    /\ blocked = {}
    /\ running = FALSE
    /\ lastConfig = [t \in Topic |-> "none"]
    /\ memo = [c \in Client |-> "none"]
    /\ tracked = [c \in Client |-> "unknown"]
    /\ latched = {}
    /\ details = {} /\ seen = {} /\ catalogue = {}
    /\ reported = ReadyAtStart
    /\ job = [th \in Announcer |-> IdleJob]
    /\ done = {}
    /\ mig = IdleRound

TypeOK ==
    /\ here \subseteq Client
    /\ spent \in [{"move", "crash", "fail"} -> Nat]
    /\ config \in [Topic -> Config]
    /\ old \subseteq OldItems
    /\ presence \in [Client -> Presence]
    /\ memo \in [Client -> Presence]
    /\ blocked \subseteq Client
    /\ running \in BOOLEAN
    /\ lastConfig \in [Topic -> Config \ {"old"}]
    /\ tracked \in [Client -> {"unknown", "home", "away"}]
    /\ latched \subseteq Client
    /\ details \subseteq Device /\ seen \subseteq Device /\ catalogue \subseteq Wlan
    /\ reported \subseteq Class /\ done \subseteq reported
    /\ job \in [Announcer -> Job]
    /\ mig \in Round /\ mig.configs \subseteq mig.window

Step(th, j) == job' = [job EXCEPT ![th] = j]
Mig(m) == mig' = m
Event(kind) == /\ spent.move + spent.crash + spent.fail < MaxEvent
               /\ spent' = [spent EXCEPT ![kind] = @ + 1]

-----------------------------------------------------------------------------
(* The publisher.                                                          *)

\* publish: a value the plane remembers sending is not sent again.
PublishState(c, v) ==
    /\ memo' = [memo EXCEPT ![c] = v]
    /\ presence' = IF memo[c] = v THEN presence ELSE [presence EXCEPT ![c] = v]

\* Nothing clears the gate without clearing the topic while the connection
\* stays up, so what was published is what the gate remembers.
WasPublished(t) == lastConfig[t] # "none"

-----------------------------------------------------------------------------
(* The loops that announce: "static", "clients", "health".                 *)

Idle(th) == job[th].stage = "idle"

\* refreshStatic: first inside Run, before any goroutine starts, then on
\* its own loop. A pass that would find nothing to announce is left out.
StaticPoll ==
    /\ Idle("static")
    /\ \/ ~running
       \/ "wlan" \notin reported
       \/ \E o \in listed : \E t \in Rendered(o) : lastConfig[t] = "none"
    /\ details' = listed \cap Device
    /\ catalogue' = catalogue \cup (listed \cap Wlan)
    /\ Step("static", [IdleJob EXCEPT !.stage = "pick", !.list = listed])
    /\ UNCHANGED <<envVars, config, old, itemVars, running, lastConfig,
                   tracked, latched, seen, reported, migVars>>

\* One of its three reads fails. Run goes on regardless.
StaticPollFails ==
    /\ Idle("static")
    /\ ~running
    /\ Event("fail")
    /\ running' = TRUE
    /\ UNCHANGED <<here, config, old, itemVars, lastConfig, pollVars, job, migVars>>

\* refreshDevices. A list without devices says nothing.
DevicePoll ==
    /\ running
    /\ seen' = listed \cap Device
    /\ reported' = reported \cup (IF seen' = {} THEN {} ELSE {"device"})
    /\ UNCHANGED <<envVars, config, old, itemVars, running, lastConfig,
                   tracked, latched, details, catalogue, job, migVars>>

\* refreshClients. A poll that would change nothing is left out.
ClientPoll ==
    /\ running /\ "client" \in Enabled
    /\ Idle("clients")
    /\ \/ "client" \notin reported
       \/ \E c \in here : c \notin latched \/ tracked[c] # "home" \/ memo[c] # "home"
       \/ \E c \in Client \ here : tracked[c] = "home"
    /\ Step("clients", [IdleJob EXCEPT !.stage = "pick", !.list = here, !.saw = here])
    /\ UNCHANGED <<envVars, config, old, itemVars, running, lastConfig, pollVars, migVars>>

\* refreshHealth, once the classic layer answers; announced once.
HealthPoll ==
    /\ running /\ "site" \in Enabled \ reported
    /\ Idle("health")
    /\ Step("health", [IdleJob EXCEPT !.stage = "pick", !.list = Health])
    /\ UNCHANGED <<envVars, config, old, itemVars, running, lastConfig, pollVars, migVars>>

\* The next object of a poll; trackPresent records a client before it
\* announces it, and announces it once.
Pick(th) ==
    /\ job[th].stage = "pick"
    /\ \E o \in FirstOf(job[th].list) :
        /\ tracked' = IF o \in Client THEN [tracked EXCEPT ![o] = "home"] ELSE tracked
        /\ Step(th, [job[th] EXCEPT !.stage = "put", !.list = @ \ {o}, !.cur = o,
                        !.todo = IF o \in latched THEN {} ELSE Rendered(o)])
    /\ UNCHANGED <<envVars, config, old, itemVars, running, lastConfig,
                   latched, details, seen, catalogue, reported, migVars>>

\* publishConfig: nothing to send, or sent.
Put(th) ==
    /\ job[th].stage = "put" /\ job[th].sent = None
    /\ \E t \in job[th].todo :
        IF lastConfig[t] = "live"
        THEN UNCHANGED config /\ Step(th, [job[th] EXCEPT !.todo = @ \ {t}])
        ELSE /\ config' = [config EXCEPT ![t] = "live"]
             /\ Step(th, [job[th] EXCEPT !.sent = t])
    /\ UNCHANGED <<envVars, old, itemVars, running, lastConfig, pollVars, migVars>>

Record(th) ==
    /\ job[th].sent # None
    /\ lastConfig' = [lastConfig EXCEPT ![job[th].sent] = "live"]
    /\ Step(th, [job[th] EXCEPT !.sent = None, !.todo = @ \ {job[th].sent}])
    /\ UNCHANGED <<envVars, config, old, itemVars, running, pollVars, migVars>>

\* A device or a client whose config fails ends its turn; an SSID or the
\* site ends the poll, which then has not reported.
PutFails(th) ==
    /\ job[th].stage = "put" /\ job[th].sent = None /\ job[th].todo # {}
    /\ Event("fail")
    /\ IF job[th].cur \in Wlan \cup Health
       THEN Step(th, IdleJob) /\ running' = TRUE
       ELSE Step(th, [job[th] EXCEPT !.stage = "pick", !.cur = None, !.todo = {}]) /\ UNCHANGED running
    /\ UNCHANGED <<here, config, old, itemVars, lastConfig, pollVars, migVars>>

\* All configs of the object are out. A client is latched and its items follow.
PutDone(th) ==
    LET o == job[th].cur IN
    /\ job[th].stage = "put" /\ job[th].todo = {}
    /\ IF o \in Client
       THEN /\ latched' = latched \cup {o}
            /\ PublishState(o, "home")
            /\ blocked' = blocked \cup {o}
       ELSE UNCHANGED <<latched, itemVars>>
    /\ Step(th, [job[th] EXCEPT !.stage = "pick", !.cur = None])
    /\ UNCHANGED <<envVars, config, old, running, lastConfig,
                   tracked, details, seen, catalogue, reported, migVars>>

\* The poll ends. The client loop has let some of those it missed expire;
\* whether AWAY_TIMEOUT has passed is Presence's.
PollDone(th) ==
    /\ job[th].stage = "pick" /\ job[th].list = {}
    /\ IF th = "clients"
       THEN \E gone \in SUBSET {c \in Client \ job[th].saw : tracked[c] = "home"} :
              /\ tracked' = [c \in Client |-> IF c \in gone THEN "away" ELSE tracked[c]]
              /\ memo' = [c \in Client |-> IF c \in gone THEN "not_home" ELSE memo[c]]
              /\ presence' = [c \in Client |-> IF c \in gone THEN "not_home" ELSE presence[c]]
       ELSE UNCHANGED <<tracked, memo, presence>>
    /\ reported' = reported \cup
           {CASE th = "static" -> "wlan" [] th = "clients" -> "client" [] OTHER -> "site"}
    /\ running' = TRUE
    /\ Step(th, IdleJob)
    /\ UNCHANGED <<envVars, config, old, blocked, lastConfig,
                   latched, details, seen, catalogue, migVars>>

-----------------------------------------------------------------------------
(* The migration thread.                                                   *)

\* awaitReady: every class, or the deadline; then one round at once.
AwaitReady ==
    /\ running /\ mig.stage = "await"
    /\ Mig([mig EXCEPT !.stage = "collect"])
    /\ UNCHANGED <<envVars, config, old, itemVars, running, lastConfig, pollVars, job, done>>

\* A later round waits for a class that has not had its turn.
NextRound ==
    /\ mig.stage = "wait" /\ reported \ done # {}
    /\ Mig([mig EXCEPT !.stage = "collect"])
    /\ UNCHANGED <<envVars, config, old, itemVars, running, lastConfig, pollVars, job, done>>

\* migrationRound reads both windows. parseLegacyConfig keeps the configs
\* of this instance that are still in the 1.x shape; the objects they
\* name are settled in the order of their classes.
Window(todo) == {t \in Topic : config[t] = "old" /\ ClassOf(t[1]) \in todo}
StartRound(window, items) ==
    mig' = [IdleRound EXCEPT !.stage = "objects", !.todo = reported \ done,
                !.window = window, !.items = items, !.objects = {t[1] : t \in window}]

Collect ==
    /\ mig.stage = "collect"
    /\ StartRound(Window(reported \ done), old)
    /\ UNCHANGED <<envVars, config, old, itemVars, running, lastConfig, pollVars, job, done>>

\* A window that cannot be read settles or evicts nothing, and the round
\* goes on with the other.
CollectFails ==
    /\ mig.stage = "collect"
    /\ Event("fail")
    /\ \/ StartRound({}, old)
       \/ StartRound(Window(reported \ done), {})
    /\ UNCHANGED <<here, config, old, itemVars, running, lastConfig,
                   pollVars, job, done>>

Known(o) == tracked[o] # "unknown"
\* Mutant: a device counts as gone when only the snapshot lacks it.
OnConsoleInDetail(o) == o \in details \cup catalogue \cup Health

OnConsole(o) == IF o \in Device THEN o \in details \cup seen ELSE o \in catalogue \cup Health

\* repointClient, repointDevice, repointWLAN, repointHealth: what becomes
\* of the object's configs is decided here, from what the loops have read
\* so far.
Settles(o, as, extra) ==
    Mig([mig EXCEPT !.stage = "settle", !.objects = @ \ {o}, !.cur = o, !.as = as,
            !.extra = IF extra THEN @ \cup {o} ELSE @, !.moved = FALSE,
            !.configs = {t \in mig.window : t[1] = o}])

NextObject ==
    /\ mig.stage = "objects"
    /\ \E o \in FirstOf(mig.objects) :
        \/ o \in Client /\ Settles(o, IF Known(o) THEN "live" ELSE "rebuilt", TRUE)
        \/ o \notin Client /\ ~OnConsole(o) /\ Settles(o, "none", TRUE)
        \/ o \in Device \ details /\ OnConsole(o) /\ Mig([mig EXCEPT !.objects = @ \ {o}])
        \/ o \notin Device \ details /\ OnConsole(o) /\ Settles(o, "live", FALSE)
    /\ UNCHANGED <<envVars, config, old, itemVars, running, lastConfig, pollVars, job, done>>

\* settle: a config this process published since the window is left alone.
Check ==
    /\ mig.stage = "settle"
    /\ \E t \in mig.configs :
        Mig(IF WasPublished(t)
            THEN [mig EXCEPT !.configs = @ \ {t}]
            ELSE [mig EXCEPT !.call = t, !.stage =
                    IF mig.as # "none" /\ t \in Rendered(mig.cur) THEN "put" ELSE "clear"])
    /\ UNCHANGED <<envVars, config, old, itemVars, running, lastConfig, pollVars, job, done>>

Settled(moved) == [mig EXCEPT !.stage = "settle", !.configs = @ \ {mig.call},
                              !.call = None, !.moved = @ \/ moved]

\* settle -> publishConfig.
Repoint ==
    /\ mig.stage = "put"
    /\ IF lastConfig[mig.call] = mig.as
       THEN UNCHANGED config /\ Mig(Settled(TRUE))
       ELSE /\ config' = [config EXCEPT ![mig.call] = mig.as]
            /\ Mig([mig EXCEPT !.stage = "record"])
    /\ UNCHANGED <<envVars, old, itemVars, running, lastConfig, pollVars, job, done>>

Repointed ==
    /\ mig.stage = "record"
    /\ lastConfig' = [lastConfig EXCEPT ![mig.call] = mig.as]
    /\ Mig(Settled(TRUE))
    /\ UNCHANGED <<envVars, config, old, itemVars, running, pollVars, job, done>>

\* settle -> clearConfig.
Retract ==
    /\ mig.stage = "clear"
    /\ config' = [config EXCEPT ![mig.call] = "none"]
    /\ lastConfig' = [lastConfig EXCEPT ![mig.call] = "none"]
    /\ Mig(Settled(FALSE))
    /\ UNCHANGED <<envVars, old, itemVars, running, pollVars, job, done>>

\* A config that cannot be written is logged and passed over.
SettleFails ==
    /\ mig.stage \in {"put", "clear"}
    /\ Event("fail")
    /\ Mig(Settled(FALSE))
    /\ UNCHANGED <<here, config, old, itemVars, running, lastConfig,
                   pollVars, job, done>>

\* Mutant: the old `blocked` value is not carried over.
AwayItemsBare(c) == <<"state">>

\* The object's configs are settled; an absent client one of whose
\* entities was moved gets the items those entities read.
AwayItems(c) == <<"state">> \o (IF <<c, "blocked">> \in mig.items THEN <<"blocked">> ELSE <<>>)
SettleDone ==
    /\ mig.stage = "settle" /\ mig.configs = {}
    /\ Mig(IF mig.as = "rebuilt" /\ mig.moved
           THEN [mig EXCEPT !.stage = "away", !.away = AwayItems(mig.cur)]
           ELSE [mig EXCEPT !.stage = "objects", !.cur = None])
    /\ UNCHANGED <<envVars, config, old, itemVars, running, lastConfig, pollVars, job, done>>

\* Mutant: written past the plane's memory.
PublishAwayRaw ==
    /\ mig.stage = "away" /\ mig.away # <<>>
    /\ IF Head(mig.away) = "state"
       THEN presence' = [presence EXCEPT ![mig.cur] = "not_home"] /\ UNCHANGED <<memo, blocked>>
       ELSE blocked' = blocked \cup {mig.cur} /\ UNCHANGED <<memo, presence>>
    /\ Mig([mig EXCEPT !.away = Tail(@)])
    /\ UNCHANGED <<envVars, config, old, running, lastConfig, pollVars, job, done>>

\* publishAwayClient, one item after the other.
PublishAway ==
    /\ mig.stage = "away" /\ mig.away # <<>>
    /\ IF Head(mig.away) = "state"
       THEN PublishState(mig.cur, "not_home") /\ UNCHANGED blocked
       ELSE blocked' = blocked \cup {mig.cur} /\ UNCHANGED <<memo, presence>>
    /\ Mig([mig EXCEPT !.away = Tail(@)])
    /\ UNCHANGED <<envVars, config, old, running, lastConfig, pollVars, job, done>>

\* The first item that fails ends it.
PublishAwayFails ==
    /\ mig.stage = "away" /\ mig.away # <<>>
    /\ Event("fail")
    /\ Mig([mig EXCEPT !.away = <<>>])
    /\ UNCHANGED <<here, config, old, itemVars, running, lastConfig,
                   pollVars, job, done>>

AwayDone ==
    /\ mig.stage = "away" /\ mig.away = <<>>
    /\ Mig([mig EXCEPT !.stage = "objects", !.cur = None])
    /\ UNCHANGED <<envVars, config, old, itemVars, running, lastConfig, pollVars, job, done>>

\* Mutant: everything the window read is this instance's.
OwnedAll(o) == o \in Object

\* oldLayoutTopic on the identifiers ownedIdentifiers reads now and the
\* ones the re-point added.
Owned(o) == \/ o \in mig.extra \cup Health
            \/ o \in Client /\ Known(o)
            \/ o \in Device \cup Wlan /\ OnConsole(o)

StartEvict ==
    /\ mig.stage = "objects" /\ mig.objects = {}
    /\ Mig([mig EXCEPT !.stage = "evict", !.items = {i \in mig.items : Owned(i[1])}])
    /\ UNCHANGED <<envVars, config, old, itemVars, running, lastConfig, pollVars, job, done>>

\* evictOldLayout, in the order of the topics.
Evict ==
    /\ mig.stage = "evict"
    /\ \E i \in {j \in mig.items : j[1] \in FirstOf({k[1] : k \in mig.items})} :
        /\ old' = old \ {i}
        /\ Mig([mig EXCEPT !.items = @ \ {i}])
    /\ UNCHANGED <<envVars, config, itemVars, running, lastConfig, pollVars, job, done>>

EvictFails ==
    /\ mig.stage = "evict" /\ mig.items # {}
    /\ Event("fail")
    /\ Mig([mig EXCEPT !.items = {}])
    /\ UNCHANGED <<here, config, old, itemVars, running, lastConfig,
                   pollVars, job, done>>

\* Mutant: one round is all.
RoundEndOnce ==
    /\ mig.stage = "evict" /\ mig.items = {}
    /\ done' = reported
    /\ Mig([IdleRound EXCEPT !.stage = "done"])
    /\ UNCHANGED <<envVars, config, old, itemVars, running, lastConfig, pollVars, job>>

\* Mutant: a class is done before its source has answered.
RoundEndAhead ==
    /\ mig.stage = "evict" /\ mig.items = {}
    /\ done' = Class
    /\ Mig([IdleRound EXCEPT !.stage = "done"])
    /\ UNCHANGED <<envVars, config, old, itemVars, running, lastConfig, pollVars, job>>

\* The round's classes are done, whatever failed in it.
RoundEnd ==
    /\ mig.stage = "evict" /\ mig.items = {}
    /\ done' = done \cup mig.todo
    /\ Mig([IdleRound EXCEPT !.stage = IF done' = Class THEN "done" ELSE "wait"])
    /\ UNCHANGED <<envVars, config, old, itemVars, running, lastConfig, pollVars, job>>

-----------------------------------------------------------------------------
(* The environment.                                                        *)

\* A client comes or goes.
Move ==
    /\ Event("move")
    /\ \E c \in Client : here' = IF c \in here THEN here \ {c} ELSE here \cup {c}
    /\ UNCHANGED <<config, old, itemVars, running, lastConfig, pollVars,
                   job, migVars>>

\* The process dies and starts again: what it knew is gone, what is
\* retained on the broker stays.
Crash ==
    /\ Event("crash")
    /\ running' = FALSE
    /\ lastConfig' = [t \in Topic |-> "none"]
    /\ memo' = [c \in Client |-> "none"]
    /\ tracked' = [c \in Client |-> "unknown"]
    /\ latched' = {}
    /\ details' = {} /\ seen' = {} /\ catalogue' = {}
    /\ reported' = ReadyAtStart
    /\ job' = [th \in Announcer |-> IdleJob]
    /\ done' = {}
    /\ mig' = IdleRound
    /\ UNCHANGED <<here, config, old, presence, blocked>>

Announce(th) == Pick(th) \/ Put(th) \/ Record(th) \/ PutDone(th) \/ PollDone(th)
Migrate == \/ AwaitReady \/ NextRound \/ Collect \/ NextObject
           \/ Check \/ Repoint \/ Repointed \/ Retract \/ SettleDone
           \/ PublishAway \/ AwayDone \/ StartEvict \/ Evict \/ RoundEnd
Fails == \/ StaticPollFails \/ CollectFails \/ SettleFails \/ PublishAwayFails \/ EvictFails
         \/ \E th \in Announcer : PutFails(th)

Next == \/ StaticPoll \/ DevicePoll \/ ClientPoll \/ HealthPoll
        \/ \E th \in Announcer : Announce(th)
        \/ Migrate \/ Fails \/ Move \/ Crash

\* The loops poll again and again and every goroutine is scheduled. The
\* classic layer need never answer.
Fairness ==
    /\ WF_vars(StaticPoll) /\ WF_vars(DevicePoll) /\ WF_vars(ClientPoll)
    /\ \A th \in Announcer : WF_vars(Announce(th))
    /\ WF_vars(Migrate)

Spec == Init /\ [][Next]_vars /\ Fairness

-----------------------------------------------------------------------------
(* What must hold.                                                         *)

\* A client is never gone from the console, only away (repoint.go).
StillThere(o) == o \in Client \cup Health \cup listed

\* The re-point retracts no entity of an object the console still has and
\* the configuration still produces, whatever fails and whenever the
\* process dies: losing one costs Home Assistant its registry entry.
NothingLiveRetracted ==
    [][\A t \in Topic : config[t] # "none" /\ config'[t] = "none"
         => ~(StillThere(t[1]) /\ t \in Rendered(t[1]))]_vars

\* A 1.x item goes only if its object was polled in this run or no config
\* in the 1.x shape reads it any more: "Everything else stays: stale,
\* never wrongly deleted." A re-point that failed is the exception, see
\* the README.
EvictedWhenSettled ==
    [][\A i \in old \ old' : spent.fail = 0 =>
         \/ i[1] \in Health \/ (i[1] \in Client /\ Known(i[1]))
         \/ (i[1] \in Device \cup Wlan /\ OnConsole(i[1]))
         \/ \A t \in TopicsOf(i[1]) : config[t] # "old"]_vars

\* Whatever the order the sources answer in, and across a death of the
\* process, no config of a class whose source has answered stays in the
\* 1.x shape, for a class that is late included.
SettledAtLast ==
    <>[](spent.fail = 0 => \A t \in Topic :
            config[t] = "old" => ClassOf(t[1]) \notin reported)

\* A client whose entities moved has the items they read, its last known
\* `blocked` value among them, in a start that runs to its end.
CarriedOver ==
    <>[](spent.fail + spent.crash = 0 => \A c \in Client :
            (\E t \in TopicsOf(c) : config[t] \in {"live", "rebuilt"}) =>
                presence[c] # "none" /\ c \in blocked)

\* The not_home the re-point writes for a client it took for absent does
\* not outlive the next poll that finds the client at home.
HomeAtLast ==
    \A c \in Client : <>[](c \in here /\ "client" \in Enabled => presence[c] = "home")

\* "A live entity of this run, which the pass must never overwrite"
\* (repoint.go:320): refuted, the look at wasPublished and the publish are
\* two steps and the client loop fits between them.
LiveNeverOverwritten ==
    [][\A t \in Topic : config[t] = "live" /\ lastConfig[t] = "live" /\ running /\ running'
         => config'[t] = "live"]_vars

\* "An absent client then gets the status items its entities read"
\* (repoint.go:48): refuted when the process dies after the configs have
\* moved, for the next start finds no 1.x config to tell it about them.
ItemsFollow ==
    <>[](spent.fail = 0 => \A c \in Client :
            (\E t \in TopicsOf(c) : config[t] \in {"live", "rebuilt"}) => presence[c] # "none")
=============================================================================
