------------------------------ MODULE Reconcile ------------------------------
(***************************************************************************)
(* A start over what an earlier run left on the broker: the loops announce *)
(* the entities of the catalogue and write their items, class by class     *)
(* they report ready, and the orphan sweep (reconcile.go, cleanup.go)      *)
(* reads what is retained, clears what this process gave up and tells the  *)
(* operator which of the rest may be cleared by hand.                      *)
(*                                                                         *)
(* A poll and all it publishes are one step, of which any one publish may  *)
(* fail: the publishes that interleave are Discovery's. The configs of an  *)
(* object go out in the order of the code, which is left open here.        *)
(***************************************************************************)
EXTENDS Catalogue, Naturals

CONSTANTS
    Configuration,  \* the configurations to start with
    MaxEvent        \* bound: objects that come or go, and polls, publishes
                    \* and clears that fail, together

ASSUME ReconcileAssumption ==
    /\ Configuration \subseteq [clients : BOOLEAN, signal : BOOLEAN, classic : BOOLEAN,
           controls : SUBSET {"restart", "locate", "power_cycle", "block", "authorize", "wlan"}]
    /\ Site \notin Device \cup Client \cup Wlan
    /\ Device \cap Client = {} /\ Device \cap Wlan = {} /\ Client \cap Wlan = {}
    /\ MaxEvent \in Nat

Loop == {"devices", "stats", "static", "clients", "health"}

VARIABLES
    config,     \* the configuration of this process
    device,     \* what the console has of each device
    here,       \* clients on the network
    events,     \* how many of the events have happened
    retained,   \* the configs on the broker
    items,      \* the items this process has written
    login,      \* the classic layer logged in at start
    degraded,   \* capabilities that have failed since
    details,    \* devices of the static loop's snapshot
    seen,       \* devices of the last device poll
    recorded,   \* devices whose configs the coordinator has on record
    latched,    \* clientsDiscovered
    healthDiscovered,
    published, announced,   \* the publisher's claims
    reported,   \* ready flags, readyStatic as "wlan"
    primed,     \* Run's first refreshStatic is over
    sweep       \* the sweep: its stage, the ready classes, the window, the
                \* orphans it has left to clear and what it reported

world == <<config, device, here, events>>
caps == <<login, degraded>>
memory == <<details, seen, recorded, latched, healthDiscovered>>
claims == <<published, announced>>
vars == <<world, retained, items, caps, memory, claims, reported, primed, sweep>>

IdleSweep == [stage |-> "await", ready |-> {}, window |-> {}, orphans |-> {},
              unclaimed |-> {}, unready |-> {}]

\* Facade.Has.
Has(c) == config.classic /\ login /\ c \notin degraded

\* controlOptions: what needs the classic layer needs the capability too.
ControlOptions == {o \in config.controls : o \in {"locate", "block", "wlan"} => Has(o)}
SignalEnabled == config.signal /\ Has("client_details")

\* publishDiscovery, publishClientDiscovery, publishWLANs,
\* publishHealthDiscovery: the configs of an object.
EntitiesOf(o) ==
    CASE o \in Device -> DeviceSpecs(o) \cup DeviceControls(o, ControlOptions)
      [] o \in Client -> ClientEntities(o, SignalEnabled) \cup ClientControls(o, ControlOptions)
      [] o \in Wlan   -> When("wlan" \in ControlOptions, {WLANControl(o)})
      [] OTHER        -> HealthEntities

Topic(e) == <<e.of, e.platform, e.key>>
TopicsOf(o) == {Topic(e) : e \in EntitiesOf(o)}

\* The items a loop writes for an object.
ItemsOf(l, o) ==
    CASE l = "devices" -> DeviceItems(o, o \in details)
      [] l = "stats"   -> StatsItems(o)
      [] l = "static"  -> IF o \in Device THEN StaticItems(ControlOptions) ELSE WLANItems
      [] l = "clients" -> ClientItems(o, ControlOptions, SignalEnabled)
      [] OTHER         -> HealthItems

\* The objects there are.
Listed == {d \in Device : device[d] # "absent"} \cup Wlan
          \cup When(config.clients, here) \cup When(config.classic, {Site})

\* The entities a run has whose classic layer works, and their configs.
OfDevices == UNION {DeviceSpecs(d) \cup DeviceControls(d, config.controls) : d \in Device}
OfClients == UNION {ClientEntities(c, config.signal) \cup ClientControls(c, config.controls) : c \in Client}
Switches == {WLANControl(w) : w \in Wlan}
Configured == OfDevices \cup When(config.clients, OfClients) \cup When(config.classic, HealthEntities)
              \cup When(config.classic /\ "wlan" \in config.controls, Switches)
Left == {Topic(e) : e \in Configured}

Init ==
    /\ config \in Configuration
    /\ device \in [Device -> {"absent", "online"}] /\ here \in SUBSET Client
    /\ events = 0
    /\ retained \in {{}, Left} /\ items = {}
    /\ login \in {config.classic, FALSE} /\ degraded = {}
    /\ details = {} /\ seen = {} /\ recorded = {} /\ latched = {} /\ healthDiscovered = FALSE
    /\ published = {} /\ announced = {}
    /\ reported = {} /\ primed = FALSE
    /\ sweep = IdleSweep

Event == events < MaxEvent /\ events' = events + 1

-----------------------------------------------------------------------------
(* The loops.                                                              *)

Enabled(l) == CASE l = "clients" -> config.clients
                [] l = "health"  -> config.classic
                [] OTHER         -> TRUE

\* What a poll that succeeds reads; the statistics of a device that is not
\* online are not asked for.
Read(l) ==
    CASE l = "devices" -> {d \in Device : device[d] # "absent"}
      [] l = "stats"   -> {d \in Device : device[d] = "online"}
      [] l = "static"  -> {d \in Device : device[d] # "absent"} \cup Wlan
      [] l = "clients" -> here
      [] OTHER         -> {Site}

\* Run primes the static loop's caches before it starts the others. Once
\* its capability is degraded, `health` asks nobody.
Turn(l) == Enabled(l) /\ (primed \/ l = "static") /\ (l = "health" => Has("health"))

\* The poll fails and is logged; of the classic layer, a capability goes.
PollFails(l) ==
    /\ Turn(l) /\ Event
    /\ primed' = TRUE
    /\ degraded' = degraded \cup When(l = "health", {"health"})
    /\ UNCHANGED <<config, device, here, retained, items, login, memory, claims, reported, sweep>>

\* The enrichment of the client list fails; the list is used as it is.
EnrichFails ==
    /\ Turn("clients") /\ Has("client_details") /\ Event
    /\ degraded' = degraded \cup {"client_details"}
    /\ UNCHANGED <<config, device, here, retained, items, login, memory, claims, reported, primed, sweep>>

\* The configs a cycle has to publish for an object: those of a client and
\* of the site once.
Due(l, o) ==
    CASE l = "static"  -> TopicsOf(o)
      [] l = "clients" -> When(o \notin latched, TopicsOf(o))
      [] l = "health"  -> When(~healthDiscovered, TopicsOf(o))
      [] OTHER         -> {}

DueOf(l, S) == UNION {Due(l, o) : o \in S}

\* publishConfig claims a topic before it sends. `done` are the objects all
\* of whose configs are out, `written` those whose items are.
Publish(l, sent, claimed, done, written) ==
    /\ retained' = retained \cup sent
    /\ published' = published \cup sent
    /\ announced' = announced \cup sent \cup claimed
    /\ items' = items \cup UNION {{o} \X ItemsOf(l, o) : o \in written}
    /\ latched' = IF l = "clients" THEN latched \cup done ELSE latched
    /\ healthDiscovered' = (healthDiscovered \/ (l = "health" /\ done # {}))
    /\ recorded' = IF l = "static" THEN recorded \cup (done \cap Device) ELSE recorded

\* Mutant: a class is ready as soon as its source has answered.
ReportAnswered(l, failed) == reported \cup
    CASE l = "devices" -> When(Read(l) # {}, {"device"})
      [] l = "static"  -> {"wlan"}
      [] l = "clients" -> {"client"}
      [] l = "health"  -> {"site"}
      [] OTHER         -> {}

\* readyDevices, readyStatic, readyClients, healthAnnounced. A device or a
\* client whose turn failed is only logged; an SSID or the site whose turn
\* failed ends the cycle.
Report(l, failed) == reported \cup
    CASE l = "devices" -> When(Read(l) # {}, {"device"})
      [] l = "static"  -> When(failed \cap Wlan = {}, {"wlan"})
      [] l = "clients" -> {"client"}
      [] l = "health"  -> When(healthDiscovered', {"site"})
      [] OTHER         -> {}

Published(l) ==
    LET S == Read(l) IN
    Publish(l, DueOf(l, S), {}, S, S) /\ reported' = Report(l, {}) /\ UNCHANGED events

\* The SSIDs that come after one that fails are not reached.
After(l, o) == IF o \in Wlan THEN SUBSET ((Read(l) \cap Wlan) \ {o}) ELSE {{}}

\* A config fails, one of its object, before or after all the others. The items of a
\* device follow all the same, those of an SSID went before.
ConfigFails(l) ==
    LET S == Read(l) IN
    \E o \in S : \E later \in After(l, o) :
        LET done == S \ ({o} \cup later)
            e == CHOOSE t \in Due(l, o) : TRUE
        IN
        /\ Due(l, o) # {}
        /\ \E some \in {{}, Due(l, o) \ {e}} :
               Publish(l, DueOf(l, done) \cup some, {e}, done, S \ (later \cup When(l # "static", {o})))
        /\ reported' = Report(l, {o})

ItemFails(l) ==
    LET S == Read(l) IN
    \E o \in S : \E later \in After(l, o) :
        LET done == S \ (later \cup ({o} \cap Wlan)) IN
        /\ Publish(l, DueOf(l, done), {}, done, S \ ({o} \cup later))
        /\ reported' = Report(l, {o})

Cycle(l) ==
    /\ Turn(l) /\ l # "devices"
    /\ Published(l) \/ (Event /\ (ConfigFails(l) \/ ItemFails(l)))
    /\ primed' = TRUE
    /\ details' = IF l = "static" THEN Read(l) \cap Device ELSE details
    /\ UNCHANGED <<config, device, here, caps, seen, sweep>>

\* What forgetDiscovery clears: the configs on record of the devices that
\* have left.
Gone == seen \ Read("devices")
Retracted == UNION {TopicsOf(d) : d \in Gone \cap recorded}

\* The device loop announces nothing. An item or a clear that fails is
\* logged, and the record is dropped either way.
DevicesCycle ==
    /\ Turn("devices")
    /\ \E bare \in {{}} \cup {{d} : d \in Read("devices")}, kept \in {{}, Retracted} :
        /\ IF bare = {} /\ kept = {} THEN UNCHANGED events ELSE Event
        /\ items' = items \cup UNION {{d} \X ItemsOf("devices", d) : d \in Read("devices") \ bare}
        /\ retained' = retained \ (Retracted \ kept)
        /\ announced' = announced \ (Retracted \ kept)
    /\ recorded' = recorded \ Gone
    /\ seen' = Read("devices")
    /\ details' = details \ Gone
    /\ reported' = Report("devices", {})
    /\ UNCHANGED <<config, device, here, caps, latched, healthDiscovered, published, primed, sweep>>

-----------------------------------------------------------------------------
(* The sweep.                                                              *)

\* readyClasses: a source that is switched off is ready.
Ready == reported \cup When(~config.clients, {"client"}) \cup When(~config.classic, {"site"})

\* Mutant: there is no deadline.
AwaitReadyForever ==
    /\ sweep.stage = "await" /\ primed /\ Ready = Class
    /\ sweep' = [sweep EXCEPT !.stage = "window", !.ready = Ready]
    /\ UNCHANGED <<world, retained, items, caps, memory, claims, reported, primed>>

\* awaitReady: every class, or the deadline. Nothing ready ends the sweep.
AwaitReady ==
    /\ sweep.stage = "await" /\ primed
    /\ sweep' = [sweep EXCEPT !.stage = IF Ready = {} THEN "done" ELSE "window", !.ready = Ready]
    /\ UNCHANGED <<world, retained, items, caps, memory, claims, reported, primed>>

\* collectRetainedConfigs: a report-only snapshot window.
CollectRetainedConfigs ==
    /\ sweep.stage = "window"
    /\ sweep' = [sweep EXCEPT !.stage = "judge", !.window = retained]
    /\ UNCHANGED <<world, retained, items, caps, memory, claims, reported, primed>>

WindowFails ==
    /\ sweep.stage = "window" /\ Event
    /\ sweep' = [sweep EXCEPT !.stage = "done"]
    /\ UNCHANGED <<config, device, here, retained, items, caps, memory, claims, reported, primed>>

\* Mutant: what nobody announces is cleared, whoever published it.
OrphanConfigs_Anyones ==
    LET spare == sweep.window \ announced
        ofReady == {t \in spare : ClassOf(t[1]) \in sweep.ready}
    IN  [orphans |-> ofReady, unclaimed |-> {}, unready |-> spare \ ofReady]

\* OrphanConfigs: ours to clear if this process published it, gave it up
\* and its class is ready; else left alone and, by its class, reported.
OrphanConfigs ==
    LET spare == sweep.window \ announced
        ofReady == {t \in spare : ClassOf(t[1]) \in sweep.ready}
    IN  [orphans |-> ofReady \cap published, unclaimed |-> ofReady \ published,
         unready |-> (spare \ ofReady) \ published]

ReconcileOrphans ==
    /\ sweep.stage = "judge"
    /\ sweep' = [sweep EXCEPT !.stage = "clear", !.window = {}, !.orphans = OrphanConfigs.orphans,
                              !.unclaimed = OrphanConfigs.unclaimed, !.unready = OrphanConfigs.unready]
    /\ UNCHANGED <<world, retained, items, caps, memory, claims, reported, primed>>

\* clearConfig for each orphan; one that fails is logged.
ClearConfig ==
    /\ sweep.stage = "clear"
    /\ \E kept \in {{}, sweep.orphans} :
        /\ IF kept = {} THEN UNCHANGED events ELSE Event
        /\ retained' = retained \ (sweep.orphans \ kept)
        /\ announced' = announced \ (sweep.orphans \ kept)
    /\ sweep' = [sweep EXCEPT !.stage = "done", !.orphans = {}]
    /\ UNCHANGED <<config, device, here, items, caps, memory, published, reported, primed>>

-----------------------------------------------------------------------------

\* A device is adopted, goes offline, returns or is removed; a client moves.
Moves ==
    /\ Event
    /\ \/ \E d \in Device, s \in {"absent", "offline", "online"} :
            device' = [device EXCEPT ![d] = s] /\ UNCHANGED here
       \/ \E c \in Client : here' = (here \ {c}) \cup ({c} \ here) /\ UNCHANGED device
    /\ UNCHANGED <<config, retained, items, caps, memory, claims, reported, primed, sweep>>

Work(l) == IF l = "devices" THEN DevicesCycle ELSE Cycle(l)
Sweep == AwaitReady \/ CollectRetainedConfigs \/ ReconcileOrphans \/ ClearConfig

Next == \/ \E l \in Loop : Work(l) \/ PollFails(l)
        \/ EnrichFails \/ Sweep \/ WindowFails \/ Moves

\* Tickers fire, calls end, and awaitReady has a deadline.
Fairness == (\A l \in Loop : WF_vars(Work(l))) /\ WF_vars(Sweep)

Spec == Init /\ [][Next]_vars /\ Fairness

-----------------------------------------------------------------------------

\* What the sweep holds in its hands: `window` is the topics the broker
\* replayed, what it judged them to be are the last three.
SweepState == [stage : {"await", "window", "judge", "clear", "done"}, ready : SUBSET Class,
               window : SUBSET Left, orphans : SUBSET Left, unclaimed : SUBSET Left, unready : SUBSET Left]

TypeOK ==
    /\ config \in Configuration
    /\ device \in [Device -> {"absent", "offline", "online"}] /\ here \subseteq Client
    /\ events \in 0..MaxEvent
    /\ retained \subseteq Left /\ published \subseteq Left /\ announced \subseteq Left
    /\ login \in BOOLEAN /\ degraded \subseteq {"health", "client_details"}
    /\ details \subseteq Device /\ seen \subseteq Device /\ recorded \subseteq Device
    /\ latched \subseteq Client /\ healthDiscovered \in BOOLEAN
    /\ reported \subseteq Class /\ primed \in BOOLEAN
    /\ sweep \in SweepState /\ sweep.orphans \subseteq published

-----------------------------------------------------------------------------
(* Properties.                                                             *)

\* The operator is never told to clear the configs of site health while the
\* classic layer is configured, nor the switch of an SSID while this run can
\* serve it: their class reports ready behind the last of its configs,
\* however the polls and publishes before it went (health.go:41-51,
\* coordinator.go:774-783).
ReportHonest ==
    /\ config.classic => \A t \in sweep.unclaimed : t[1] # Site
    /\ "wlan" \in ControlOptions => \A t \in sweep.unclaimed : t[1] \notin Wlan

\* Whatever disappears from the broker, by the device loop or the sweep, this
\* very process has published: the configs of an earlier run and those of a
\* second console look the same and are left alone (cleanup.go:181-189).
ClearsOwn == [][retained \ retained' \subseteq published]_vars

\* What this run announces, of an object that is there.
Current == UNION {EntitiesOf(o) : o \in {x \in Listed :
               (x \in Device => device[x] = "online") /\ (x = Site => Has("health"))}}

\* The console's samples need not mention every radio of a device.
Unsampled(e, i) == e.of \in Device /\ i \in {<<"radio", b, "tx_retries">> : b \in Shape[e.of].bands \ Shape[e.of].sampled}

\* In the end every entity this run has announced, of an object that is
\* there, has all it reads: the items of its state, its attributes and its
\* availability are written by one loop while another announces it
\* (discovery.go:471-473: an entity that points at an item nobody writes
\* "shows as unavailable forever").
EveryEntityFed ==
    <>[](\A e \in Current : Topic(e) \in announced =>
            \A i \in e.reads : <<e.of, i>> \in items \/ Unsampled(e, i))

\* The sweep comes to its end whichever sources stay silent, so a console
\* that never answers does not keep it waiting (reconcile.go:175-196).
SweepEnds == []<>(sweep.stage = "done")

\* "Their class has reported, so 'this run does not announce it' is a
\* statement about the entity rather than about the source"
\* (reconcile.go:123-126): no config of a device that the device loop has
\* listed, and that this run would announce, is reported as clearable.
AdviceSafe ==
    [][ReconcileOrphans => \A d \in seen : TopicsOf(d) \cap sweep'.unclaimed = {}]_vars
=============================================================================
