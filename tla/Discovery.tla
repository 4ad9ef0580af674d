------------------------------ MODULE Discovery ------------------------------
(***************************************************************************)
(* The device half of the Home Assistant discovery plane: the publisher's  *)
(* config gate (internal/coordinator/publish.go), the coordinator's        *)
(* bookkeeping of what each device announced (discovery.go), and the four  *)
(* goroutines that drive both at once:                                     *)
(*                                                                         *)
(*   "static"      refreshStatic: announces every device of a fetched list *)
(*   "rediscover"  rediscoverLoop: announces the detail snapshot again     *)
(*                 after a Home Assistant birth message                    *)
(*   "devices"     refreshDevices/sweepDevices: retracts what a vanished   *)
(*                 device announced                                        *)
(*   "sweep"       reconcileOrphans: the one-shot orphan sweep             *)
(*                                                                         *)
(* plus OnConnect, which the MQTT lifecycle runs on every (re)connect.     *)
(* A config payload is abstracted to the variant of the device it was      *)
(* rendered from: two variants differ in their payloads and possibly in    *)
(* the set of entities (a port that disappeared, a radio switched off).    *)
(***************************************************************************)
EXTENDS Naturals, FiniteSets

CONSTANTS
    Device,         \* the MACs that may be adopted
    Key,            \* the entity keys of a device
    Variant,        \* what the console can report of a device
    KeysOf(_),      \* the entities hass.Device renders for a variant
    NoConfig,       \* no retained message, the nil payload
    Leftover,       \* what an earlier run or a sibling may have retained
    MaxSite,        \* bound: devices adopted or removed at the console
    MaxChange,      \* bound: devices that change their variant
    MaxFail,        \* bound: publishes the broker does not acknowledge
    MaxBirth,       \* bound: Home Assistant restarts
    MaxDrop,        \* bound: MQTT connection losses
    MaxEvents,      \* bound: the last five together
    AcksMayBeLost,  \* whether a stored publish may go unacknowledged
    StoreMayVanish, \* whether the broker may lose its retained store
    VanishInFlight, \* whether it may do so between an acknowledgement and
                    \* the gate's recording of it
    Leaving         \* whether an adopted device may leave the site

ASSUME VariantAssumption ==
    /\ NoConfig \notin Variant
    /\ \A v \in Variant : KeysOf(v) \subseteq Key
    /\ Leftover \subseteq Variant \cup {NoConfig}

Topic == Device \X Key
Payload == Variant \cup {NoConfig}
Thread == {"static", "rediscover", "devices", "sweep"}
Announcer == {"static", "rediscover"}
Bound == {"site", "change", "fail", "birth", "drop"}

\* Mutant: the segments of the config topic are swapped.
Topics_Swapped(d, v) == {<<k, d>> : k \in KeysOf(v)}

\* What publishDiscovery sends for device d in variant v.
Topics(d, v) == {<<d, k>> : k \in KeysOf(v)}

VARIABLES
    \* environment
    site,       \* the console's device list
    retained,   \* the broker's retained config topics
    link,       \* the MQTT connection is up
    spent,      \* how much of each bound has been used
    \* publisher
    lastConfig, \* payload last sent per topic, the change gate
    configs,    \* topics claimed as live entities
    published,  \* topics this process saw the broker accept
    \* coordinator
    details,    \* the static loop's snapshot of the devices
    announced,  \* topics recorded per device
    seen,       \* devices the device loop has seen
    ready,      \* readyDevices
    rediscover, \* the buffered-1 birth channel holds a token
    nudgeStatic,\* the buffered-1 nudge channel holds a token
    job,        \* what each goroutine is doing
    \* history
    accepted    \* topics the broker really stored for this process

envVars == <<site, retained, link, spent>>
pubVars == <<lastConfig, configs, published, accepted>>
coordVars == <<details, announced, seen, ready, rediscover, nudgeStatic>>
vars == <<envVars, pubVars, coordVars, job>>

-----------------------------------------------------------------------------
(* The state of a goroutine.                                               *)
(*   stage   where it is: "idle", "swap" (list fetched, not yet stored),   *)
(*           "open" (dropping the gate's memory after a birth), "pick"     *)
(*           (between two devices), "put" (publishing a device's configs), *)
(*           "drop" (clearing configs), "judge" (the sweep's window has    *)
(*           closed), "done" (the sweep ran)                               *)
(*   list    the devices still to handle, as <<device, variant>>           *)
(*   cur     the device being handled                                      *)
(*   todo    the topics still to publish or to clear                       *)
(*   call    the publishConfig call in flight                              *)

NoCall == [at |-> "none"]
Nobody == <<>>
IdleJob == [stage |-> "idle", list |-> {}, cur |-> Nobody, todo |-> {}, call |-> NoCall]

Snapshot == {<<d, site[d]>> : d \in {x \in Device : site[x] # NoConfig}}

Call == [at : {"send", "record", "forget"}, topic : Topic, payload : Payload]

Job == [stage : {"idle", "swap", "open", "pick", "put", "drop", "judge", "done"},
        list  : SUBSET (Device \X Payload),
        cur   : (Device \X Payload) \cup {Nobody},
        todo  : SUBSET Topic,
        call  : Call \cup {NoCall}]

TypeOK ==
    /\ site \in [Device -> Payload]
    /\ retained \in [Topic -> Payload]
    /\ link \in BOOLEAN
    /\ spent \in [Bound -> Nat]
    /\ lastConfig \in [Topic -> Payload]
    /\ configs \subseteq Topic
    /\ published \subseteq Topic
    /\ accepted \subseteq Topic
    /\ details \in [Device -> Payload]
    /\ announced \in [Device -> SUBSET Topic]
    /\ seen \subseteq Device
    /\ ready \in BOOLEAN
    /\ rediscover \in BOOLEAN
    /\ nudgeStatic \in BOOLEAN
    /\ job \in [Thread -> Job]

\* The broker may hold leftovers of an earlier run or a sibling instance on
\* any topic. Run primes the caches with one refreshStatic before the loops
\* start; the static loop's own first pass, immediately after, is the same
\* handler, so the model starts the loops on empty caches.
Init ==
    /\ site \in [Device -> Payload]
    /\ retained \in [Topic -> Leftover]
    /\ link = TRUE
    /\ spent = [b \in Bound |-> 0]
    /\ lastConfig = [t \in Topic |-> NoConfig]
    /\ configs = {}
    /\ published = {}
    /\ accepted = {}
    /\ details = [d \in Device |-> NoConfig]
    /\ announced = [d \in Device |-> {}]
    /\ seen = {}
    /\ ready = FALSE
    /\ rediscover = FALSE
    /\ nudgeStatic = FALSE
    /\ job = [th \in Thread |-> IdleJob]

Step(th, j) == job' = [job EXCEPT ![th] = j]
Spend(b, max) ==
    /\ spent[b] < max
    /\ spent["site"] + spent["change"] + spent["fail"] + spent["birth"] + spent["drop"] < MaxEvents
    /\ spent' = [spent EXCEPT ![b] = @ + 1]

-----------------------------------------------------------------------------
(* publishConfig and clearConfig, one step per critical section.           *)

\* The first critical section: the topic is claimed before the gate is
\* asked, and an unchanged payload is not sent.
Claim(th) ==
    /\ job[th].stage = "put"
    /\ job[th].call = NoCall
    /\ \E t \in job[th].todo :
        LET v == job[th].cur[2] IN
        /\ configs' = configs \cup {t}
        /\ IF lastConfig[t] = v
           THEN Step(th, [job[th] EXCEPT !.todo = @ \ {t}])
           ELSE Step(th, [job[th] EXCEPT
                    !.call = [at |-> "send", topic |-> t, payload |-> v]])
    /\ UNCHANGED <<envVars, lastConfig, published, accepted, coordVars>>

\* clearConfig has no gate: a nil payload always goes out.
Clear(th) ==
    /\ job[th].stage = "drop"
    /\ job[th].call = NoCall
    /\ \E t \in job[th].todo :
        Step(th, [job[th] EXCEPT
            !.call = [at |-> "send", topic |-> t, payload |-> NoConfig]])
    /\ UNCHANGED <<envVars, pubVars, coordVars>>

\* What the broker does with an accepted publish.
Store(t, p) ==
    /\ retained' = [retained EXCEPT ![t] = p]
    /\ accepted' = IF p = NoConfig THEN accepted ELSE accepted \cup {t}

\* The QoS 1 publish is acknowledged.
Send(th) ==
    LET c == job[th].call IN
    /\ c.at = "send"
    /\ link
    /\ Store(c.topic, c.payload)
    /\ Step(th, [job[th] EXCEPT !.call.at = "record"])
    /\ UNCHANGED <<site, link, spent, lastConfig, configs, published, coordVars>>

\* Mutant: the error is swallowed and the call carries on as if accepted.
AfterError_Swallowed(th) == [job[th] EXCEPT !.call.at = "record"]

\* What a goroutine does with a publish error: publishDiscovery returns it.
\* The static loop logs it and goes on with the next device, announceAll
\* gives up on the devices that are left, forgetDiscovery and the sweep log
\* it and go on with the next topic.
AfterError(th) ==
    LET j == [job[th] EXCEPT !.call = NoCall] IN
    CASE th = "static"     -> [j EXCEPT !.stage = "pick", !.cur = Nobody, !.todo = {}]
      [] th = "rediscover" -> IdleJob
      [] OTHER             -> [j EXCEPT !.todo = @ \ {job[th].call.topic}]

\* The publish fails: the connection is down, or the broker refused it, or
\* it was stored and the acknowledgement was lost.
SendFails(th) ==
    LET c == job[th].call IN
    /\ c.at = "send"
    /\ \/ ~link /\ UNCHANGED <<retained, accepted, spent>>
       \/ link /\ Spend("fail", MaxFail) /\ UNCHANGED <<retained, accepted>>
       \/ link /\ AcksMayBeLost /\ Spend("fail", MaxFail) /\ Store(c.topic, c.payload)
    /\ Step(th, AfterError(th))
    /\ UNCHANGED <<site, link, lastConfig, configs, published, coordVars>>

\* Mutant: the gate is updated and the published set is not.
RecordPut_Unlisted(th) ==
    LET c == job[th].call IN
    /\ c.at = "record"
    /\ c.payload # NoConfig
    /\ lastConfig' = [lastConfig EXCEPT ![c.topic] = c.payload]
    /\ Step(th, [job[th] EXCEPT !.call = NoCall, !.todo = @ \ {c.topic}])
    /\ UNCHANGED <<envVars, configs, published, accepted, coordVars>>

\* The last critical section of a publish: the gate remembers the payload
\* and the topic becomes one this process has published.
RecordPut(th) ==
    LET c == job[th].call IN
    /\ c.at = "record"
    /\ c.payload # NoConfig
    /\ lastConfig' = [lastConfig EXCEPT ![c.topic] = c.payload]
    /\ published' = published \cup {c.topic}
    /\ Step(th, [job[th] EXCEPT !.call = NoCall, !.todo = @ \ {c.topic}])
    /\ UNCHANGED <<envVars, configs, accepted, coordVars>>

\* The last critical section of a retraction: the topic is no longer
\* claimed. It stays in published.
RecordClear(th) ==
    LET c == job[th].call IN
    /\ c.at = "record"
    /\ c.payload = NoConfig
    /\ configs' = configs \ {c.topic}
    /\ Step(th, [job[th] EXCEPT !.call.at = "forget"])
    /\ UNCHANGED <<envVars, lastConfig, published, accepted, coordVars>>

\* clearConfig then drops the gate's memory, under a lock of its own.
Forget(th) ==
    LET c == job[th].call IN
    /\ c.at = "forget"
    /\ lastConfig' = [lastConfig EXCEPT ![c.topic] = NoConfig]
    /\ Step(th, [job[th] EXCEPT !.call = NoCall, !.todo = @ \ {c.topic}])
    /\ UNCHANGED <<envVars, configs, published, accepted, coordVars>>

-----------------------------------------------------------------------------
(* publishDiscovery, for the static and the rediscover goroutine.          *)

\* The next device of the list, once removeStale is through with the last;
\* the order of the list is the console's.
NextDevice(th) ==
    /\ th \in Announcer
    /\ \/ job[th].stage = "pick"
       \/ job[th].stage = "drop" /\ job[th].call = NoCall /\ job[th].todo = {}
    /\ IF job[th].list = {}
       THEN Step(th, IdleJob)
       ELSE \E x \in job[th].list :
              Step(th, [job[th] EXCEPT !.stage = "put", !.list = @ \ {x},
                                       !.cur = x, !.todo = Topics(x[1], x[2])])
    /\ UNCHANGED <<envVars, pubVars, coordVars>>

\* Mutant: the new record is compared with itself.
Stale_AfterOverwrite(d, now) == now \ now

\* What the device announced before and no longer has.
Stale(d, now) == announced[d] \ now

\* All entries are out: remember them, then clear the stale ones.
Announce(th) ==
    LET d == job[th].cur[1]
        now == Topics(d, job[th].cur[2])
    IN
    /\ th \in Announcer
    /\ job[th].stage = "put"
    /\ job[th].call = NoCall
    /\ job[th].todo = {}
    /\ announced' = [announced EXCEPT ![d] = now]
    /\ Step(th, [job[th] EXCEPT !.stage = "drop", !.todo = Stale(d, now)])
    /\ UNCHANGED <<envVars, pubVars, details, seen, ready, rediscover, nudgeStatic>>

\* refreshStatic reads the device list, on a tick or on a nudge.
StaticFetch(nudged) ==
    /\ job["static"].stage = "idle"
    /\ IF nudged THEN nudgeStatic /\ nudgeStatic' = FALSE ELSE UNCHANGED nudgeStatic
    /\ Step("static", [IdleJob EXCEPT !.stage = "swap", !.list = Snapshot])
    /\ UNCHANGED <<envVars, pubVars, details, announced, seen, ready, rediscover>>

\* Networks and WLANs have answered too: the snapshot is replaced.
StaticSwap ==
    LET fetched == job["static"].list IN
    /\ job["static"].stage = "swap"
    /\ details' = [d \in Device |->
                     IF \E x \in fetched : x[1] = d
                     THEN (CHOOSE x \in fetched : x[1] = d)[2] ELSE NoConfig]
    /\ Step("static", [job["static"] EXCEPT !.stage = "pick"])
    /\ UNCHANGED <<envVars, pubVars, announced, seen, ready, rediscover, nudgeStatic>>

\* The birth token is taken and the grace period has passed: forgetAnnounced
\* lists the devices that announced something.
TakeBirth ==
    /\ job["rediscover"].stage = "idle"
    /\ rediscover
    /\ rediscover' = FALSE
    /\ Step("rediscover", [IdleJob EXCEPT
            !.stage = "open", !.list = {<<d, NoConfig>> : d \in {x \in Device : announced[x] # {}}}])
    /\ UNCHANGED <<envVars, pubVars, details, announced, seen, ready, nudgeStatic>>

\* It copies what one device announced, under the lock...
OpenDevice ==
    /\ job["rediscover"].stage = "open"
    /\ job["rediscover"].todo = {}
    /\ \E x \in job["rediscover"].list :
        Step("rediscover", [job["rediscover"] EXCEPT !.list = @ \ {x}, !.todo = announced[x[1]]])
    /\ UNCHANGED <<envVars, pubVars, coordVars>>

\* ...and drops the gate's memory of those topics one by one.
OpenTopic ==
    /\ job["rediscover"].stage = "open"
    /\ \E t \in job["rediscover"].todo :
        /\ lastConfig' = [lastConfig EXCEPT ![t] = NoConfig]
        /\ Step("rediscover", [job["rediscover"] EXCEPT !.todo = @ \ {t}])
    /\ UNCHANGED <<envVars, configs, published, accepted, coordVars>>

\* announceAll copies the detail snapshot.
AnnounceAll ==
    /\ job["rediscover"].stage = "open"
    /\ job["rediscover"].list = {}
    /\ job["rediscover"].todo = {}
    /\ Step("rediscover", [IdleJob EXCEPT
            !.stage = "pick",
            !.list = {<<d, details[d]>> : d \in {x \in Device : details[x] # NoConfig}}])
    /\ UNCHANGED <<envVars, pubVars, coordVars>>

-----------------------------------------------------------------------------
(* refreshDevices: the sweep over vanished devices.                        *)

\* The device list is read; seen, which no other goroutine touches, is
\* brought up to date; the devices that are gone are queued.
DevicesPoll ==
    LET present == {d \in Device : site[d] # NoConfig} IN
    /\ job["devices"].stage = "idle"
    /\ seen' = present
    /\ Step("devices", [IdleJob EXCEPT
            !.stage = "pick", !.list = {<<d, NoConfig>> : d \in seen \ present}])
    /\ UNCHANGED <<envVars, pubVars, details, announced, ready, rediscover, nudgeStatic>>

\* forgetDiscovery takes the record of what the device announced.
ForgetDiscovery ==
    /\ job["devices"].stage = "pick"
    /\ \E x \in job["devices"].list :
        /\ announced' = [announced EXCEPT ![x[1]] = {}]
        /\ Step("devices", [job["devices"] EXCEPT
              !.stage = "drop", !.list = @ \ {x}, !.cur = x, !.todo = announced[x[1]]])
    /\ UNCHANGED <<envVars, pubVars, details, seen, ready, rediscover, nudgeStatic>>

\* The poll is over; a cycle that saw devices makes their class ready.
DevicesDone ==
    /\ job["devices"].stage = "pick"
    /\ job["devices"].list = {}
    /\ ready' = (ready \/ seen # {})
    /\ Step("devices", IdleJob)
    /\ UNCHANGED <<envVars, pubVars, details, announced, seen, rediscover, nudgeStatic>>

\* Its topics are through; the details go last.
DropDetails ==
    LET j == job["devices"] IN
    /\ j.stage = "drop"
    /\ j.call = NoCall
    /\ j.todo = {}
    /\ details' = [details EXCEPT ![j.cur[1]] = NoConfig]
    /\ Step("devices", [j EXCEPT !.stage = "pick", !.cur = Nobody])
    /\ UNCHANGED <<envVars, pubVars, announced, seen, ready, rediscover, nudgeStatic>>

-----------------------------------------------------------------------------
(* reconcileOrphans, once per process.                                     *)

\* The snapshot window closes. What it collected is the set of topics the
\* broker replayed.
SweepCollect ==
    /\ job["sweep"].stage = "idle"
    /\ ready
    /\ link
    /\ Step("sweep", [IdleJob EXCEPT
            !.stage = "judge", !.todo = {t \in Topic : retained[t] # NoConfig}])
    /\ UNCHANGED <<envVars, pubVars, coordVars>>

\* The sources did not report in time, or the window could not be opened:
\* the device class is left alone, and there is no second attempt.
SweepGivesUp ==
    /\ job["sweep"].stage = "idle"
    /\ ~ready \/ ~link
    /\ Step("sweep", [IdleJob EXCEPT !.stage = "done"])
    /\ UNCHANGED <<envVars, pubVars, coordVars>>

\* Mutant: a payload of this daemon's shape is taken for its own.
Orphans_ShapeOnly(window) == window \ configs

\* OrphanConfigs: retained, published by this process, no longer claimed.
Orphans(window) == (window \cap published) \ configs

SweepJudge ==
    /\ job["sweep"].stage = "judge"
    /\ Step("sweep", [job["sweep"] EXCEPT
            !.stage = "drop", !.todo = Orphans(@)])
    /\ UNCHANGED <<envVars, pubVars, coordVars>>

SweepDone ==
    /\ job["sweep"].stage = "drop"
    /\ job["sweep"].call = NoCall
    /\ job["sweep"].todo = {}
    /\ Step("sweep", [IdleJob EXCEPT !.stage = "done"])
    /\ UNCHANGED <<envVars, pubVars, coordVars>>

-----------------------------------------------------------------------------
(* The environment.                                                        *)

\* A device is adopted, leaves the site or changes what it consists of.
SiteChange ==
    /\ \E d \in Device, v \in Payload :
        /\ v # site[d]
        /\ IF v # NoConfig /\ site[d] # NoConfig
           THEN Spend("change", MaxChange)
           ELSE Spend("site", MaxSite) /\ (Leaving \/ v # NoConfig)
        /\ site' = [site EXCEPT ![d] = v]
    /\ UNCHANGED <<retained, link, pubVars, coordVars, job>>

\* Home Assistant announces itself; a token already pending is enough.
Birth ==
    /\ link
    /\ Spend("birth", MaxBirth)
    /\ rediscover' = TRUE
    /\ UNCHANGED <<site, retained, link, pubVars,
                   details, announced, seen, ready, nudgeStatic, job>>

\* The connection drops; a broker without persistence comes back empty.
Disconnect ==
    /\ link
    /\ link' = FALSE
    /\ Spend("drop", MaxDrop)
    /\ \/ UNCHANGED retained
       \/ /\ StoreMayVanish
          /\ VanishInFlight \/ \A th \in Thread : job[th].call.at # "record"
          /\ retained' = [t \in Topic |-> NoConfig]
    /\ UNCHANGED <<site, pubVars, coordVars, job>>

\* Mutant: the gate keeps its memory across the reconnect.
OpenGate_Kept == lastConfig

OpenGate == [t \in Topic |-> NoConfig]

\* OnConnect: resetPlanes opens the gate, rediscoverOnReconnect pulls the
\* static loop forward.
OnConnect ==
    /\ ~link
    /\ link' = TRUE
    /\ lastConfig' = OpenGate
    /\ nudgeStatic' = TRUE
    /\ UNCHANGED <<site, retained, spent, configs, published, accepted,
                   details, announced, seen, ready, rediscover, job>>

-----------------------------------------------------------------------------
PublishStep(th) ==
    \/ Claim(th) \/ Clear(th) \/ Send(th) \/ SendFails(th)
    \/ RecordPut(th) \/ RecordClear(th) \/ Forget(th)

AnnounceStep(th) == NextDevice(th) \/ Announce(th)

Next ==
    \/ \E th \in Thread : PublishStep(th) \/ AnnounceStep(th)
    \/ \E nudged \in BOOLEAN : StaticFetch(nudged)
    \/ StaticSwap
    \/ TakeBirth \/ OpenDevice \/ OpenTopic \/ AnnounceAll
    \/ DevicesPoll \/ ForgetDiscovery \/ DropDetails \/ DevicesDone
    \/ SweepCollect \/ SweepGivesUp \/ SweepJudge \/ SweepDone
    \/ SiteChange \/ Birth \/ Disconnect \/ OnConnect

Spec == Init /\ [][Next]_vars

\* Every goroutine keeps running, the device loop keeps polling, a nudge is
\* served, a lost connection is re-established. The sweep may run out of
\* time or not. Nothing is assumed of the console, of Home Assistant, or of
\* a publish failing rather than succeeding.
PromptFairness ==
    /\ \A th \in Thread : WF_vars(PublishStep(th) \/ AnnounceStep(th))
    /\ WF_vars(StaticFetch(TRUE)) /\ WF_vars(StaticSwap)
    /\ WF_vars(TakeBirth) /\ WF_vars(OpenDevice) /\ WF_vars(OpenTopic)
    /\ WF_vars(AnnounceAll)
    /\ WF_vars(DevicesPoll) /\ WF_vars(ForgetDiscovery)
    /\ WF_vars(DropDetails) /\ WF_vars(DevicesDone)
    /\ WF_vars(SweepCollect) /\ WF_vars(SweepJudge) /\ WF_vars(SweepDone)
    /\ WF_vars(OnConnect)

PromptSpec == Spec /\ PromptFairness

\* In the long run the static loop's hourly ticker fires as well.
Hourly == WF_vars(StaticFetch(FALSE))
FairSpec == PromptSpec /\ Hourly

-----------------------------------------------------------------------------
(* Properties.                                                             *)

\* Device d's entities are all on the broker, as the console reports them.
Complete(d) == \A t \in Topics(d, site[d]) : retained[t] = site[d]
OnSite == {d \in Device : site[d] # NoConfig}

\* The ownership evidence is honest: whatever licences a retraction - the
\* published set the sweep reads, the record of what a device announced -
\* or suppresses a publish - the gate's memory - names only topics on which
\* the broker accepted a config of this process (publish.go:86-104).
EvidenceHonest ==
    /\ published \subseteq accepted
    /\ \A t \in Topic : lastConfig[t] # NoConfig => t \in published
    /\ \A d \in Device : announced[d] \subseteq published

\* Whatever the goroutines do, together they keep the promise of
\* ConfigOwnership: no retained config this process did not put there is
\* ever emptied (hass/cleanup.go:181-189).
Ownership == INSTANCE ConfigOwnership WITH store <- retained, owned <- accepted
ImplementsOwnership == Ownership!Spec

\* The goroutine is at work on device d.
Handles(th, d) ==
    \/ job[th].cur # Nobody /\ job[th].cur[1] = d
    \/ th = "sweep" /\ job[th].stage = "drop" /\ \E k \in Key : <<d, k>> \in job[th].todo

\* No config of ours is lost track of: while no publish fails and no
\* connection is lost, a topic this
\* process put on the broker is recorded with its device, or a goroutine is
\* about to record or to clear it (discovery.go:55-57). A clear that fails
\* is not repeated, and an announcement cut short records nothing.
EveryConfigTracked ==
    spent["fail"] = 0 /\ spent["drop"] = 0 =>
        \A d \in Device, k \in Key :
            <<d, k>> \in accepted /\ retained[<<d, k>>] # NoConfig =>
                \/ <<d, k>> \in announced[d]
                \/ \E th \in Thread : Handles(th, d)

\* Every device that stays on the site ends up with all its entities,
\* whatever publishes failed, whoever else was announcing meanwhile, and
\* however often the link dropped or Home Assistant restarted - unless a
\* device changed while a second announcer was at work: see GateFaithful.
AnnouncedAtLast ==
    Hourly => <>[](spent["birth"] = 0 \/ spent["change"] = 0 => \A d \in OnSite : Complete(d))

\* After a reconnect the configs are back without waiting for the hourly
\* poll, even when the broker lost its store (coordinator.go:506-521). What
\* a failed publish or the console changed meanwhile is the hourly poll's.
ReconnectRestores ==
    ~link ~> (spent["fail"] + spent["site"] + spent["change"] = 0 => \A d \in OnSite : Complete(d))

\* An entity a device no longer has does not linger (discovery.go:55-57),
\* unless its retraction failed: nothing repeats that one.
StaleCleared ==
    Hourly => <>[](spent["fail"] = 0 /\ spent["drop"] = 0 =>
        \A d \in OnSite, k \in Key :
            <<d, k>> \in accepted /\ retained[<<d, k>>] # NoConfig => k \in KeysOf(site[d]))

\* The gate holds the payload last sent (publish.go:67-69): with no call in
\* flight it never takes an outdated config for the current one.
GateFaithful ==
    spent["fail"] = 0 /\ spent["drop"] = 0 /\ (\A th \in Thread : job[th].call = NoCall)
        => \A t \in Topic : lastConfig[t] \in {NoConfig, retained[t]}

\* A device that left the site leaves no entity behind
\* (coordinator.go:875-877).
DepartedCleared ==
    <>[](\A d \in Device \ OnSite, k \in Key :
            <<d, k>> \in accepted => retained[<<d, k>>] = NoConfig)

=============================================================================
