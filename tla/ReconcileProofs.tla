--------------------------- MODULE ReconcileProofs ---------------------------
(***************************************************************************)
(* Theorems about Reconcile, for any devices, clients, SSIDs and           *)
(* configurations: it is type correct, it clears nothing that another      *)
(* process published, and the operator is never told to clear a config of  *)
(* the site or of an SSID that this run may still announce.                *)
(***************************************************************************)
EXTENDS Reconcile, TLAPS

-----------------------------------------------------------------------------
(* The catalogue: whose the entities are, and which there can be.          *)

HealthTopics == {Topic(e) : e \in HealthEntities}

\* What is configured, class by class.
LEMMA ConfiguredIs ==
    /\ OfDevices \subseteq Configured
    /\ config.clients => OfClients \subseteq Configured
    /\ config.classic => HealthEntities \subseteq Configured
    /\ config.classic /\ "wlan" \in config.controls => Switches \subseteq Configured
    /\ Configured \subseteq OfDevices \cup OfClients \cup HealthEntities \cup Switches
<1>1. Configured = OfDevices \cup When(config.clients, OfClients) \cup When(config.classic, HealthEntities)
                  \cup When(config.classic /\ "wlan" \in config.controls, Switches)
  BY DEF Configured
<1>2. When(config.clients, OfClients) = IF config.clients THEN OfClients ELSE {}
  BY DEF When
<1>3. When(config.classic, HealthEntities) = IF config.classic THEN HealthEntities ELSE {}
  BY DEF When
<1>4. When(config.classic /\ "wlan" \in config.controls, Switches)
      = IF config.classic /\ "wlan" \in config.controls THEN Switches ELSE {}
  BY DEF When
<1>5. QED
  BY <1>1, <1>2, <1>3, <1>4

\* An entity names the object it is of.
LEMMA DeviceSpecsOf == ASSUME NEW d, NEW e \in DeviceSpecs(d) PROVE e.of = d
  BY DEF DeviceSpecs, OwnSpecs, ReadingSpecs, PortSpecs, RadioSpecs, WhileOnline, Entity

LEMMA DeviceControlsOf ==
    ASSUME NEW d, NEW options, NEW e \in DeviceControls(d, options) PROVE e.of = d
  BY DEF DeviceControls, When, Entity

LEMMA ClientEntitiesOf ==
    ASSUME NEW c, NEW signal, NEW options,
           NEW e \in ClientEntities(c, signal) \cup ClientControls(c, options)
    PROVE  e.of = c
  BY DEF ClientEntities, ClientControls, When, Entity

LEMMA HealthEntitiesOf == ASSUME NEW e \in HealthEntities PROVE e.of = Site
  BY DEF HealthEntities, Entity

\* More options mean more entities, never others.
LEMMA DeviceControlsGrow ==
    ASSUME NEW d, NEW fewer, NEW more, fewer \subseteq more
    PROVE  DeviceControls(d, fewer) \subseteq DeviceControls(d, more)
  BY DEF DeviceControls, When

LEMMA ClientEntitiesGrow ==
    ASSUME NEW c, NEW less \in BOOLEAN, NEW more \in BOOLEAN, less => more
    PROVE  ClientEntities(c, less) \subseteq ClientEntities(c, more)
  BY DEF ClientEntities, When

LEMMA ClientControlsGrow ==
    ASSUME NEW c, NEW fewer, NEW more, fewer \subseteq more
    PROVE  ClientControls(c, fewer) \subseteq ClientControls(c, more)
  BY DEF ClientControls, When

\* What this run may announce is what the configuration asks for.
LEMMA OptionsConfigured ==
    /\ ControlOptions \subseteq config.controls
    /\ "wlan" \in ControlOptions => config.classic
    /\ SignalEnabled => config.signal
  BY DEF ControlOptions, SignalEnabled, Has

LEMMA DeviceTopicsLeft ==
    ASSUME NEW d \in Device PROVE TopicsOf(d) \subseteq Left
<1>1. EntitiesOf(d) = DeviceSpecs(d) \cup DeviceControls(d, ControlOptions)
  BY ReconcileAssumption DEF EntitiesOf
<1>2. EntitiesOf(d) \subseteq DeviceSpecs(d) \cup DeviceControls(d, config.controls)
  BY <1>1, DeviceControlsGrow, OptionsConfigured
<1>3. EntitiesOf(d) \subseteq Configured
  BY <1>2, ConfiguredIs DEF OfDevices
<1>4. QED
  BY <1>3 DEF TopicsOf, Left

LEMMA ClientTopicsLeft ==
    ASSUME TypeOK, NEW c \in Client, config.clients PROVE TopicsOf(c) \subseteq Left
<1>1. EntitiesOf(c) = ClientEntities(c, SignalEnabled) \cup ClientControls(c, ControlOptions)
  BY ReconcileAssumption DEF EntitiesOf
<1>2. config.signal \in BOOLEAN /\ SignalEnabled \in BOOLEAN
  BY ReconcileAssumption DEF TypeOK, SignalEnabled, Has
<1>3. EntitiesOf(c) \subseteq ClientEntities(c, config.signal) \cup ClientControls(c, config.controls)
  BY <1>1, <1>2, ClientEntitiesGrow, ClientControlsGrow, OptionsConfigured
<1>4. EntitiesOf(c) \subseteq Configured
  <2>1. EntitiesOf(c) \subseteq OfClients
    BY <1>3 DEF OfClients
  <2>2. QED
    BY <2>1, ConfiguredIs
<1>5. QED
  BY <1>4 DEF TopicsOf, Left

LEMMA WlanTopics ==
    ASSUME NEW w \in Wlan
    PROVE  TopicsOf(w) = {Topic(e) : e \in When("wlan" \in ControlOptions, {WLANControl(w)})}
  BY ReconcileAssumption DEF TopicsOf, EntitiesOf

LEMMA WlanTopicsLeft ==
    ASSUME NEW w \in Wlan PROVE TopicsOf(w) \subseteq Left
<1>1. "wlan" \in ControlOptions => WLANControl(w) \in Configured
  BY OptionsConfigured, ConfiguredIs DEF Switches
<1>2. QED
  BY <1>1, WlanTopics DEF Left, When

LEMMA SiteTopics == TopicsOf(Site) = HealthTopics
  BY ReconcileAssumption DEF TopicsOf, EntitiesOf, HealthTopics

LEMMA SiteTopicsLeft == config.classic => TopicsOf(Site) \subseteq Left
<1>1. config.classic => HealthEntities \subseteq Configured
  BY ConfiguredIs
<1>2. QED
  BY <1>1, SiteTopics DEF HealthTopics, Left

LEMMA ConfiguredIsOf ==
    ASSUME NEW e \in Configured
    PROVE  \/ e.of \in Device
           \/ e.of \in Client
           \/ e \in HealthEntities
           \/ e.of \in Wlan /\ e = WLANControl(e.of)
<1>1. \/ \E d \in Device : e \in DeviceSpecs(d) \cup DeviceControls(d, config.controls)
      \/ \E c \in Client : e \in ClientEntities(c, config.signal) \cup ClientControls(c, config.controls)
      \/ e \in HealthEntities
      \/ e \in Switches
  BY ConfiguredIs DEF OfDevices, OfClients
<1>2. CASE \E d \in Device : e \in DeviceSpecs(d) \cup DeviceControls(d, config.controls)
  BY <1>2, DeviceSpecsOf, DeviceControlsOf
<1>3. CASE \E c \in Client : e \in ClientEntities(c, config.signal) \cup ClientControls(c, config.controls)
  BY <1>3, ClientEntitiesOf
<1>4. CASE e \in Switches
  BY <1>4 DEF Switches, WLANControl, Entity
<1>5. QED
  BY <1>1, <1>2, <1>3, <1>4

\* Which of the retained configs are the site's, and which an SSID's.
LEMMA LeftOfSite ==
    ASSUME NEW t \in Left, t[1] = Site PROVE t \in HealthTopics
<1>1. PICK e \in Configured : t = Topic(e)
  BY DEF Left
<1>2. e.of = Site
  BY <1>1 DEF Topic
<1>3. e \in HealthEntities
  BY <1>2, ConfiguredIsOf, ReconcileAssumption
<1>4. QED
  BY <1>1, <1>3 DEF HealthTopics

LEMMA LeftOfWlan ==
    ASSUME NEW t \in Left, t[1] \in Wlan PROVE t = Topic(WLANControl(t[1]))
<1>1. PICK e \in Configured : t = Topic(e)
  BY DEF Left
<1>2. e.of = t[1]
  BY <1>1 DEF Topic
<1>3. QED
  BY <1>1, <1>2, ConfiguredIsOf, HealthEntitiesOf, ReconcileAssumption

\* What a cycle may send is among what the configuration asks for.
LEMMA DueLeft ==
    ASSUME TypeOK, NEW l \in Loop, Turn(l), NEW o \in Read(l)
    PROVE  Due(l, o) \subseteq Left
<1>1. CASE l = "static"
  BY <1>1, DeviceTopicsLeft, WlanTopicsLeft DEF Due, Read
<1>2. CASE l = "clients"
  <2>1. config.clients /\ o \in Client
    BY <1>2 DEF Turn, Enabled, Read, TypeOK
  <2>2. QED
    BY <1>2, <2>1, ClientTopicsLeft DEF Due, When
<1>3. CASE l = "health"
  <2>1. config.classic /\ o = Site
    BY <1>3 DEF Turn, Enabled, Read
  <2>2. QED
    BY <1>3, <2>1, SiteTopicsLeft DEF Due, When
<1>4. CASE l \notin {"static", "clients", "health"}
  BY <1>4 DEF Due
<1>5. QED
  BY <1>1, <1>2, <1>3, <1>4

LEMMA DueOfLeft ==
    ASSUME TypeOK, NEW l \in Loop, Turn(l), NEW S \in SUBSET Read(l)
    PROVE  DueOf(l, S) \subseteq Left
  BY DueLeft DEF DueOf

-----------------------------------------------------------------------------
(* Type correctness.                                                       *)

\* Nothing a step may do changes what there is to announce.
LEMMA SameLeft == ASSUME config' = config PROVE Left' = Left
  BY DEF Left, Configured, OfDevices, OfClients, Switches

LEMMA InitTypes == Init => TypeOK
<1> SUFFICES ASSUME Init PROVE TypeOK
  OBVIOUS
<1>1. config.classic \in BOOLEAN
  BY ReconcileAssumption DEF Init
<1>2. sweep \in SweepState
  BY DEF Init, IdleSweep, SweepState
<1>3. 0 \in 0..MaxEvent
  BY ReconcileAssumption
<1>4. QED
  BY <1>1, <1>2, <1>3 DEF Init, TypeOK, IdleSweep

LEMMA EventTypes == ASSUME TypeOK, Event PROVE events' \in 0..MaxEvent
  BY ReconcileAssumption DEF TypeOK, Event

\* What a cycle publishes and remembers keeps the types.
LEMMA PublishTypes ==
    ASSUME TypeOK, NEW l \in Loop, Turn(l), config' = config,
           NEW sent \in SUBSET Left, NEW claimed \in SUBSET Left,
           NEW done \in SUBSET Read(l), NEW written, Publish(l, sent, claimed, done, written)
    PROVE  /\ retained' \subseteq Left' /\ published' \subseteq Left' /\ announced' \subseteq Left'
           /\ published \subseteq published'
           /\ latched' \subseteq Client /\ recorded' \subseteq Device /\ healthDiscovered' \in BOOLEAN
<1>1. l = "clients" => done \subseteq Client
  BY DEF Read, TypeOK
<1>2. QED
  BY <1>1, SameLeft DEF Publish, TypeOK

LEMMA ReportTypes ==
    ASSUME TypeOK, NEW l \in Loop, NEW failed PROVE Report(l, failed) \subseteq Class
  BY DEF TypeOK, Report, Class, When, Loop

\* Every outcome of a cycle is a Publish of what is due of some of the
\* objects it has read, then a Report.
Outcome(l) ==
    \E sent \in SUBSET DueOf(l, Read(l)), claimed \in SUBSET DueOf(l, Read(l)),
       done \in SUBSET Read(l), failed \in SUBSET Read(l) :
        /\ \E written : Publish(l, sent, claimed, done, written)
        /\ DueOf(l, done) \subseteq sent
        /\ Read(l) \cap Wlan \subseteq done \/ failed \cap Wlan # {}
        /\ reported' = Report(l, failed)

LEMMA PublishedIsOutcome == ASSUME NEW l \in Loop, Published(l) PROVE Outcome(l)
  BY DEF Published, Outcome

LEMMA ConfigFailsIsOutcome == ASSUME NEW l \in Loop, ConfigFails(l) PROVE Outcome(l)
<1>1. PICK o, later :
        /\ o \in Read(l) /\ later \in After(l, o)
        /\ LET S == Read(l)
               done == S \ ({o} \cup later)
               e == CHOOSE t \in Due(l, o) : TRUE
           IN
           /\ Due(l, o) # {}
           /\ \E some \in {{}, Due(l, o) \ {e}} :
                  Publish(l, DueOf(l, done) \cup some, {e}, done, S \ (later \cup When(l # "static", {o})))
           /\ reported' = Report(l, {o})
  BY DEF ConfigFails
<1>o. o \in Read(l)
  BY <1>1
<1> DEFINE done == Read(l) \ ({o} \cup later)
           e == CHOOSE t \in Due(l, o) : TRUE
<1>2. PICK some \in {{}, Due(l, o) \ {e}} :
        Publish(l, DueOf(l, done) \cup some, {e}, done, Read(l) \ (later \cup When(l # "static", {o})))
  BY <1>1
<1>3. e \in Due(l, o)
  BY <1>1
<1>4. Due(l, o) \subseteq DueOf(l, Read(l)) /\ DueOf(l, done) \subseteq DueOf(l, Read(l))
  BY <1>o DEF DueOf
<1>5. o \in Wlan \/ later = {}
  BY <1>1 DEF After
<1>6. Read(l) \cap Wlan \subseteq done \/ {o} \cap Wlan # {}
  BY <1>5
<1>7. {e} \in SUBSET DueOf(l, Read(l)) /\ DueOf(l, done) \cup some \in SUBSET DueOf(l, Read(l))
  BY <1>3, <1>4
<1>8. reported' = Report(l, {o})
  BY <1>1
<1> HIDE DEF done, e
<1>9. done \in SUBSET Read(l) /\ DueOf(l, done) \subseteq DueOf(l, done) \cup some
  BY DEF done
<1>10. \E written : Publish(l, DueOf(l, done) \cup some, {e}, done, written)
  BY <1>2
<1>11. QED
  BY <1>o, <1>6, <1>7, <1>8, <1>9, <1>10 DEF Outcome

LEMMA ItemFailsIsOutcome == ASSUME NEW l \in Loop, ItemFails(l) PROVE Outcome(l)
<1>1. PICK o, later :
        /\ o \in Read(l) /\ later \in After(l, o)
        /\ LET done == Read(l) \ (later \cup ({o} \cap Wlan)) IN
           /\ Publish(l, DueOf(l, done), {}, done, Read(l) \ ({o} \cup later))
           /\ reported' = Report(l, {o})
  BY DEF ItemFails
<1>o. o \in Read(l)
  BY <1>1
<1> DEFINE done == Read(l) \ (later \cup ({o} \cap Wlan))
<1>2. Publish(l, DueOf(l, done), {}, done, Read(l) \ ({o} \cup later)) /\ reported' = Report(l, {o})
  BY <1>1
<1>3. DueOf(l, done) \subseteq DueOf(l, Read(l))
  BY DEF DueOf
<1>4. o \in Wlan \/ later = {}
  BY <1>1 DEF After
<1>5. Read(l) \cap Wlan \subseteq done \/ {o} \cap Wlan # {}
  BY <1>4
<1> HIDE DEF done
<1>6. done \in SUBSET Read(l) /\ \E written : Publish(l, DueOf(l, done), {}, done, written)
  BY <1>2 DEF done
<1>7. QED
  BY <1>o, <1>2, <1>3, <1>5, <1>6 DEF Outcome

\* So a cycle is an outcome, with what else it changes.
LEMMA CycleIs ==
    ASSUME NEW l \in Loop, Cycle(l)
    PROVE  /\ Turn(l) /\ l # "devices" /\ Outcome(l)
           /\ events' = events \/ Event
           /\ primed' = TRUE
           /\ details' = IF l = "static" THEN Read(l) \cap Device ELSE details
           /\ UNCHANGED <<config, device, here, caps, seen, sweep>>
<1>1. Outcome(l)
  BY PublishedIsOutcome, ConfigFailsIsOutcome, ItemFailsIsOutcome DEF Cycle
<1>2. events' = events \/ Event
  BY DEF Cycle, Published
<1>3. QED
  BY <1>1, <1>2 DEF Cycle

LEMMA CycleTypes == ASSUME TypeOK, NEW l \in Loop, Cycle(l) PROVE TypeOK'
<1>1. config' = config /\ device' = device /\ here' = here /\ UNCHANGED <<caps, seen, sweep>>
      /\ primed' = TRUE /\ Turn(l) /\ Outcome(l)
  BY CycleIs
<1>2. events' \in 0..MaxEvent
  BY CycleIs, EventTypes DEF TypeOK
<1>3. details' \subseteq Device
  BY CycleIs DEF TypeOK
<1>4. PICK sent \in SUBSET DueOf(l, Read(l)), claimed \in SUBSET DueOf(l, Read(l)),
           done \in SUBSET Read(l), failed \in SUBSET Read(l) :
        /\ \E written : Publish(l, sent, claimed, done, written)
        /\ reported' = Report(l, failed)
  BY <1>1 DEF Outcome
<1>5. PICK written : Publish(l, sent, claimed, done, written)
  BY <1>4
<1>6. sent \in SUBSET Left /\ claimed \in SUBSET Left
  BY <1>1, DueOfLeft
<1>7. /\ retained' \subseteq Left' /\ published' \subseteq Left' /\ announced' \subseteq Left'
      /\ published \subseteq published'
      /\ latched' \subseteq Client /\ recorded' \subseteq Device /\ healthDiscovered' \in BOOLEAN
  BY <1>1, <1>5, <1>6, PublishTypes
<1>8. reported' \subseteq Class
  BY <1>4, ReportTypes
<1>9. SweepState' = SweepState
  BY <1>1, SameLeft DEF SweepState
<1>10. QED
  BY <1>1, <1>2, <1>3, <1>7, <1>8, <1>9 DEF TypeOK, caps

LEMMA DevicesCycleTypes == ASSUME TypeOK, DevicesCycle PROVE TypeOK'
<1>1. config' = config /\ device' = device /\ here' = here
      /\ UNCHANGED <<caps, latched, healthDiscovered, published, primed, sweep>>
  BY DEF DevicesCycle
<1>2. events' \in 0..MaxEvent
  BY EventTypes DEF DevicesCycle, TypeOK
<1>3. retained' \subseteq retained /\ announced' \subseteq announced
      /\ recorded' \subseteq recorded /\ details' \subseteq details
  BY DEF DevicesCycle
<1>4. seen' \subseteq Device
  BY DEF DevicesCycle, Read
<1>5. reported' \subseteq Class
  BY ReportTypes DEF DevicesCycle, Loop
<1>6. SweepState' = SweepState /\ Left' = Left
  BY <1>1, SameLeft DEF SweepState
<1>7. QED
  BY <1>1, <1>2, <1>3, <1>4, <1>5, <1>6 DEF TypeOK, caps

LEMMA ReadyTypes == ASSUME TypeOK PROVE Ready \subseteq Class
  BY DEF TypeOK, Ready, Class, When

LEMMA SweepTypes == ASSUME TypeOK, Sweep \/ WindowFails PROVE TypeOK'
<1>1. config' = config /\ SweepState' = SweepState /\ Left' = Left
  BY SameLeft DEF SweepState, Sweep, AwaitReady, CollectRetainedConfigs, ReconcileOrphans,
                  ClearConfig, WindowFails, world
<1>2. UNCHANGED <<device, here, items, caps, memory, published, reported, primed>>
  BY DEF Sweep, AwaitReady, CollectRetainedConfigs, ReconcileOrphans, ClearConfig, WindowFails, world, claims
<1>3. events' \in 0..MaxEvent
  BY EventTypes DEF TypeOK, Sweep, AwaitReady, CollectRetainedConfigs, ReconcileOrphans,
                    ClearConfig, WindowFails, world
<1>4. retained' \subseteq retained /\ announced' \subseteq announced
  BY DEF Sweep, AwaitReady, CollectRetainedConfigs, ReconcileOrphans, ClearConfig, WindowFails, claims
<1>5. sweep' \in SweepState /\ sweep'.orphans \subseteq published
  <2>1. CASE AwaitReady
    BY <2>1, ReadyTypes DEF AwaitReady, TypeOK, SweepState
  <2>2. CASE CollectRetainedConfigs
    BY <2>2 DEF CollectRetainedConfigs, TypeOK, SweepState
  <2>3. CASE ReconcileOrphans
    <3>1. /\ OrphanConfigs.orphans \subseteq sweep.window \cap published
          /\ OrphanConfigs.unclaimed \subseteq sweep.window
          /\ OrphanConfigs.unready \subseteq sweep.window
      BY DEF OrphanConfigs
    <3>2. sweep.window \subseteq Left
      BY DEF TypeOK, SweepState
    <3> DEFINE judged == OrphanConfigs
    <3>3. sweep' = [sweep EXCEPT !.stage = "clear", !.window = {}, !.orphans = judged.orphans,
                                 !.unclaimed = judged.unclaimed, !.unready = judged.unready]
      BY <2>3 DEF ReconcileOrphans
    <3>4. /\ judged.orphans \subseteq Left /\ judged.orphans \subseteq published
          /\ judged.unclaimed \subseteq Left /\ judged.unready \subseteq Left
      BY <3>1, <3>2
    <3> HIDE DEF judged
    <3>5. QED
      BY <3>3, <3>4 DEF TypeOK, SweepState
  <2>4. CASE ClearConfig
    BY <2>4 DEF ClearConfig, TypeOK, SweepState
  <2>5. CASE WindowFails
    BY <2>5 DEF WindowFails, TypeOK, SweepState
  <2>6. QED
    BY <2>1, <2>2, <2>3, <2>4, <2>5 DEF Sweep
<1>6. QED
  BY <1>1, <1>2, <1>3, <1>4, <1>5 DEF TypeOK, caps, memory

LEMMA MovesTypes == ASSUME TypeOK, Moves PROVE TypeOK'
<1>1. device' \in [Device -> {"absent", "offline", "online"}] /\ here' \subseteq Client
  BY DEF Moves, TypeOK
<1>2. config' = config /\ SweepState' = SweepState /\ Left' = Left
  BY SameLeft DEF SweepState, Moves
<1>3. UNCHANGED <<retained, items, caps, memory, claims, reported, primed, sweep>> /\ Event
  BY DEF Moves
<1>4. QED
  BY <1>1, <1>2, <1>3, EventTypes DEF TypeOK, caps, memory, claims

LEMMA FailsTypes ==
    ASSUME TypeOK, EnrichFails \/ \E l \in Loop : PollFails(l) PROVE TypeOK'
<1>1. config' = config /\ SweepState' = SweepState /\ Left' = Left
  BY SameLeft DEF SweepState, EnrichFails, PollFails
<1>2. UNCHANGED <<device, here, retained, items, login, memory, claims, reported, sweep>> /\ Event
  BY DEF EnrichFails, PollFails
<1>3. primed' \in BOOLEAN /\ degraded' \subseteq {"health", "client_details"}
  BY DEF EnrichFails, PollFails, TypeOK, When
<1>4. QED
  BY <1>1, <1>2, <1>3, EventTypes DEF TypeOK, memory, claims

LEMMA StutterTypes == ASSUME TypeOK, UNCHANGED vars PROVE TypeOK'
<1>1. SweepState' = SweepState /\ Left' = Left
  BY SameLeft DEF SweepState, vars, world
<1>2. QED
  BY <1>1 DEF TypeOK, vars, world, caps, memory, claims

LEMMA NextTypes == TypeOK /\ [Next]_vars => TypeOK'
<1> SUFFICES ASSUME TypeOK, [Next]_vars PROVE TypeOK'
  OBVIOUS
<1>1. CASE \E l \in Loop : Work(l)
  <2>1. PICK l \in Loop : Work(l)
    BY <1>1
  <2>2. DevicesCycle \/ Cycle(l)
    BY <2>1 DEF Work
  <2>3. QED
    BY <2>2, DevicesCycleTypes, CycleTypes
<1>2. CASE EnrichFails \/ \E l \in Loop : PollFails(l)
  BY <1>2, FailsTypes
<1>3. CASE Sweep \/ WindowFails
  BY <1>3, SweepTypes
<1>4. CASE Moves
  BY <1>4, MovesTypes
<1>5. CASE UNCHANGED vars
  BY <1>5, StutterTypes
<1>6. QED
  BY <1>1, <1>2, <1>3, <1>4, <1>5 DEF Next

\* Reconcile is type correct: nothing but what the configuration asks for
\* is ever announced, retained or judged, and the sweep clears only what
\* this process has published (cleanup.go:181-244).
THEOREM TypeCorrect == Spec => []TypeOK
  BY InitTypes, NextTypes, PTL DEF Spec

-----------------------------------------------------------------------------
(* Nothing of others is cleared.                                           *)

\* The device loop retracts by the coordinator's record, not by the
\* publisher's: a device on record has all its configs published.
RecordBehindPublished == \A d \in recorded : TopicsOf(d) \subseteq published

\* The controls of a device need no capability that can be lost.
LEMMA SameDeviceTopics ==
    ASSUME TypeOK, TypeOK', config' = config, login' = login, NEW d \in Device
    PROVE  TopicsOf(d)' = TopicsOf(d)
<1>1. \A c \in {"locate", "block", "wlan"} : c \notin degraded /\ c \notin degraded'
  BY DEF TypeOK
<1>2. ControlOptions' = ControlOptions
  BY <1>1 DEF ControlOptions, Has
<1>3. QED
  BY <1>2, ReconcileAssumption DEF TopicsOf, EntitiesOf

LEMMA RecordsBehind ==
    ASSUME TypeOK, RecordBehindPublished, [Next]_vars PROVE RecordBehindPublished'
<1>1. TypeOK'
  BY NextTypes
<1>2. ASSUME config' = config, login' = login, published \subseteq published', recorded' \subseteq recorded
      PROVE  RecordBehindPublished'
  BY <1>1, <1>2, SameDeviceTopics DEF RecordBehindPublished, TypeOK
<1>3. ASSUME NEW l \in Loop, Cycle(l) PROVE RecordBehindPublished'
  <2>1. config' = config /\ login' = login /\ Outcome(l)
    BY <1>3, CycleIs DEF caps
  <2>2. PICK sent \in SUBSET DueOf(l, Read(l)), claimed \in SUBSET DueOf(l, Read(l)), done \in SUBSET Read(l) :
          /\ \E written : Publish(l, sent, claimed, done, written)
          /\ DueOf(l, done) \subseteq sent
    BY <2>1 DEF Outcome
  <2>3. /\ published' = published \cup sent
        /\ recorded' = IF l = "static" THEN recorded \cup (done \cap Device) ELSE recorded
    BY <2>2 DEF Publish
  <2>4. l = "static" => \A d \in done : TopicsOf(d) \subseteq sent
    BY <2>2 DEF DueOf, Due
  <2>5. \A d \in recorded' : d \in Device /\ TopicsOf(d) \subseteq published'
    BY <2>3, <2>4 DEF RecordBehindPublished, TypeOK
  <2>6. QED
    BY <1>1, <2>1, <2>5, SameDeviceTopics DEF RecordBehindPublished
<1>4. CASE DevicesCycle
  BY <1>2, <1>4 DEF DevicesCycle, caps
<1>5. CASE EnrichFails \/ Moves \/ UNCHANGED vars \/ \E l \in Loop : PollFails(l)
  BY <1>2, <1>5 DEF EnrichFails, Moves, PollFails, vars, world, caps, memory, claims
<1>6. CASE Sweep \/ WindowFails
  BY <1>2, <1>6 DEF Sweep, AwaitReady, CollectRetainedConfigs, ReconcileOrphans, ClearConfig, WindowFails,
                    world, caps, memory, claims
<1>7. QED
  BY <1>3, <1>4, <1>5, <1>6 DEF Next, Work

LEMMA OnlyOwnCleared ==
    ASSUME TypeOK, RecordBehindPublished, [Next]_vars PROVE retained \ retained' \subseteq published
<1>1. ASSUME NEW l \in Loop, Cycle(l) PROVE retained \subseteq retained'
  BY <1>1, CycleIs DEF Outcome, Publish
<1>2. CASE DevicesCycle
  <2>1. Retracted \subseteq published
    BY DEF Retracted, RecordBehindPublished
  <2>2. retained \ retained' \subseteq Retracted
    BY <1>2 DEF DevicesCycle
  <2>3. QED
    BY <2>1, <2>2
<1>3. CASE ClearConfig
  <2>1. retained \ retained' \subseteq sweep.orphans
    BY <1>3 DEF ClearConfig
  <2>2. QED
    BY <2>1 DEF TypeOK
<1>4. CASE \/ EnrichFails \/ Moves \/ UNCHANGED vars \/ \E l \in Loop : PollFails(l)
           \/ AwaitReady \/ CollectRetainedConfigs \/ ReconcileOrphans \/ WindowFails
  BY <1>4 DEF EnrichFails, Moves, PollFails, vars, AwaitReady, CollectRetainedConfigs, ReconcileOrphans, WindowFails
<1>5. QED
  BY <1>1, <1>2, <1>3, <1>4 DEF Next, Work, Sweep

\* Nothing that an earlier run left, or that a second console keeps, is ever
\* cleared: neither the retractions of the device loop nor the judgement of
\* the sweep, however the loops and failures between its window and its
\* clears fall (cleanup.go:181-189).
THEOREM ForeignConfigsStay == Spec => ClearsOwn
<1>1. Init => RecordBehindPublished
  BY DEF Init, RecordBehindPublished
<1>2. TypeOK /\ RecordBehindPublished /\ [Next]_vars => RecordBehindPublished'
  BY RecordsBehind
<1>3. TypeOK /\ RecordBehindPublished /\ [Next]_vars => [retained \ retained' \subseteq published]_vars
  BY OnlyOwnCleared
<1>4. QED
  BY <1>1, <1>2, <1>3, TypeCorrect, PTL DEF Spec, ClearsOwn


-----------------------------------------------------------------------------
(* The operator is told the truth.                                         *)

\* A class reports behind the last of its configs: those of the site are
\* latched as announced, those of every SSID are on the publisher's record.
\* The sweep reads what had reported before its window.
ReadyBehindPublished ==
    /\ "site" \in reported => healthDiscovered
    /\ healthDiscovered => TopicsOf(Site) \subseteq published
    /\ "wlan" \in reported /\ "wlan" \in ControlOptions => \A w \in Wlan : TopicsOf(w) \subseteq published
    /\ sweep.ready \subseteq Ready

Truthful == ReadyBehindPublished /\ ReportHonest

LEMMA InitTruthful == Init => Truthful
  BY DEF Init, Truthful, ReadyBehindPublished, ReportHonest, IdleSweep

\* A capability never comes back, so no option does.
LEMMA OptionsShrink ==
    ASSUME config' = config, login' = login, degraded \subseteq degraded'
    PROVE  ControlOptions' \subseteq ControlOptions
  BY DEF ControlOptions, Has

LEMMA SameSiteTopics == TopicsOf(Site)' = TopicsOf(Site)
<1>1. TopicsOf(Site)' = HealthTopics
  BY ReconcileAssumption DEF TopicsOf, EntitiesOf, HealthTopics
<1>2. QED
  BY <1>1, SiteTopics

\* The configs of an SSID while its switch is served, and nothing else.
LEMMA ServedWlan ==
    ASSUME NEW w \in Wlan, "wlan" \in ControlOptions
    PROVE  TopicsOf(w) = {Topic(WLANControl(w))}
  BY WlanTopics DEF When

\* A step that publishes no less, reports nothing new and leaves the sweep
\* alone keeps the truth.
LEMMA QuietTruthful ==
    ASSUME Truthful, config' = config, login' = login, degraded \subseteq degraded',
           published \subseteq published', UNCHANGED <<reported, healthDiscovered, sweep>>
    PROVE  Truthful'
<1>1. ControlOptions' \subseteq ControlOptions
  BY OptionsShrink
<1>2. ReadyBehindPublished'
  <2>1. "wlan" \in ControlOptions' => \A w \in Wlan : TopicsOf(w)' = TopicsOf(w)
    BY <1>1, WlanTopics DEF TopicsOf, EntitiesOf
  <2>2. Ready' = Ready
    BY DEF Ready
  <2>3. QED
    BY <1>1, <2>1, <2>2, SameSiteTopics DEF Truthful, ReadyBehindPublished
<1>3. ReportHonest'
  BY <1>1 DEF Truthful, ReportHonest
<1>4. QED
  BY <1>2, <1>3 DEF Truthful


LEMMA CycleTruthful == ASSUME TypeOK, Truthful, NEW l \in Loop, Cycle(l) PROVE Truthful'
<1>1. config' = config /\ login' = login /\ degraded' = degraded /\ sweep' = sweep
      /\ Turn(l) /\ l # "devices" /\ Outcome(l)
  BY CycleIs DEF caps
<1>2. PICK sent \in SUBSET DueOf(l, Read(l)), claimed \in SUBSET DueOf(l, Read(l)),
           done \in SUBSET Read(l), failed \in SUBSET Read(l) :
        /\ \E written : Publish(l, sent, claimed, done, written)
        /\ DueOf(l, done) \subseteq sent
        /\ Read(l) \cap Wlan \subseteq done \/ failed \cap Wlan # {}
        /\ reported' = Report(l, failed)
  BY <1>1 DEF Outcome
<1>3. published' = published \cup sent
      /\ healthDiscovered' = (healthDiscovered \/ (l = "health" /\ done # {}))
  BY <1>2 DEF Publish
<1>4. ControlOptions' = ControlOptions
  BY <1>1 DEF ControlOptions, Has
<1>5. reported \subseteq reported'
  BY <1>2 DEF Report
<1>6. "site" \in reported' => healthDiscovered'
  <2>1. "site" \in reported' => "site" \in reported \/ (l = "health" /\ healthDiscovered')
    BY <1>2 DEF Report, When, Loop
  <2>2. QED
    BY <2>1, <1>3 DEF Truthful, ReadyBehindPublished
<1>7. healthDiscovered' => TopicsOf(Site) \subseteq published'
  <2>1. CASE healthDiscovered
    BY <2>1, <1>3 DEF Truthful, ReadyBehindPublished
  <2>2. CASE ~healthDiscovered /\ l = "health" /\ done # {}
    <3>1. Site \in done
      BY <2>2 DEF Read
    <3>2. TopicsOf(Site) \subseteq DueOf(l, done)
      BY <2>2, <3>1 DEF DueOf, Due, When
    <3>3. QED
      BY <3>2, <1>2, <1>3
  <2>3. CASE ~healthDiscovered /\ ~(l = "health" /\ done # {})
    BY <2>3, <1>3
  <2>4. QED
    BY <2>1, <2>2, <2>3
<1>8. ASSUME "wlan" \in reported', "wlan" \in ControlOptions, NEW w \in Wlan
      PROVE  TopicsOf(w) \subseteq published'
  <2>1. CASE "wlan" \in reported
    BY <2>1, <1>3, <1>8 DEF Truthful, ReadyBehindPublished
  <2>2. CASE "wlan" \notin reported
    <3>1. l = "static" /\ failed \cap Wlan = {}
      BY <2>2, <1>2, <1>8 DEF Report, When, Loop
    <3>2. w \in done
      BY <3>1, <1>2 DEF Read
    <3>3. TopicsOf(w) \subseteq DueOf(l, done)
      BY <3>1, <3>2 DEF DueOf, Due
    <3>4. QED
      BY <3>3, <1>2, <1>3
  <2>3. QED
    BY <2>1, <2>2
<1>9. \A w \in Wlan : TopicsOf(w)' = TopicsOf(w)
  BY <1>4, ReconcileAssumption DEF TopicsOf, EntitiesOf
<1>10. Ready \subseteq Ready'
  BY <1>1, <1>5 DEF Ready
<1>11. ReadyBehindPublished'
  BY <1>1, <1>4, <1>6, <1>7, <1>8, <1>9, <1>10, SameSiteTopics DEF Truthful, ReadyBehindPublished
<1>12. ReportHonest'
  BY <1>1, <1>4 DEF Truthful, ReportHonest
<1>13. QED
  BY <1>11, <1>12 DEF Truthful

LEMMA DevicesCycleTruthful == ASSUME Truthful, DevicesCycle PROVE Truthful'
<1>1. config' = config /\ UNCHANGED <<caps, latched, healthDiscovered, published, primed, sweep>>
  BY DEF DevicesCycle
<1>2. ControlOptions' = ControlOptions
  BY <1>1 DEF ControlOptions, Has, caps
<1>3. reported \subseteq reported' /\ reported' \subseteq reported \cup {"device"}
  BY DEF DevicesCycle, Report, When
<1>4. \A w \in Wlan : TopicsOf(w)' = TopicsOf(w)
  BY <1>2, ReconcileAssumption DEF TopicsOf, EntitiesOf
<1>5. Ready \subseteq Ready'
  BY <1>1, <1>3 DEF Ready
<1>6. ReadyBehindPublished'
  BY <1>1, <1>2, <1>3, <1>4, <1>5, SameSiteTopics DEF Truthful, ReadyBehindPublished
<1>7. ReportHonest'
  BY <1>1, <1>2 DEF Truthful, ReportHonest
<1>8. QED
  BY <1>6, <1>7 DEF Truthful

\* The judgement: a config of a class that is through is on the publisher's
\* record, hence either still claimed or this process's to clear.
LEMMA JudgementHonest == ASSUME TypeOK, Truthful, ReconcileOrphans PROVE ReportHonest'
<1> DEFINE judged == OrphanConfigs
<1>1. sweep'.unclaimed = judged.unclaimed
  BY DEF ReconcileOrphans, TypeOK, SweepState
<1>2. \A t \in judged.unclaimed :
        t \in sweep.window /\ ClassOf(t[1]) \in sweep.ready /\ t \notin published
  BY DEF OrphanConfigs
<1>3. sweep.window \subseteq Left
  BY DEF TypeOK, SweepState
<1>4. config' = config /\ ControlOptions' = ControlOptions
  BY DEF ReconcileOrphans, world, caps, ControlOptions, Has
<1> HIDE DEF judged
<1>5. ASSUME config.classic, NEW t \in judged.unclaimed PROVE t[1] # Site
  <2>1. SUFFICES ASSUME t[1] = Site PROVE FALSE
    OBVIOUS
  <2>2. "site" \in Ready
    BY <1>2, <2>1, ReconcileAssumption DEF ClassOf, Truthful, ReadyBehindPublished
  <2>3. "site" \in reported
    BY <2>2, <1>5 DEF Ready, When
  <2>4. TopicsOf(Site) \subseteq published
    BY <2>3 DEF Truthful, ReadyBehindPublished
  <2>5. t \in TopicsOf(Site)
    BY <1>2, <1>3, <2>1, LeftOfSite, SiteTopics
  <2>6. QED
    BY <1>2, <2>4, <2>5
<1>6. ASSUME "wlan" \in ControlOptions, NEW t \in judged.unclaimed PROVE t[1] \notin Wlan
  <2>1. SUFFICES ASSUME t[1] \in Wlan PROVE FALSE
    OBVIOUS
  <2>2. "wlan" \in Ready
    BY <1>2, <2>1, ReconcileAssumption DEF ClassOf, Truthful, ReadyBehindPublished
  <2>3. "wlan" \in reported
    BY <2>2 DEF Ready, When
  <2>4. TopicsOf(t[1]) \subseteq published
    BY <2>1, <2>3, <1>6 DEF Truthful, ReadyBehindPublished
  <2>5. t \in TopicsOf(t[1])
    BY <1>2, <1>3, <1>6, <2>1, LeftOfWlan, ServedWlan
  <2>6. QED
    BY <1>2, <2>4, <2>5
<1>7. QED
  BY <1>1, <1>4, <1>5, <1>6 DEF ReportHonest

LEMMA SweepTruthful == ASSUME TypeOK, Truthful, Sweep \/ WindowFails PROVE Truthful'
<1>1. config' = config /\ UNCHANGED <<caps, memory, published, reported>>
  BY DEF Sweep, AwaitReady, CollectRetainedConfigs, ReconcileOrphans, ClearConfig, WindowFails, world, claims
<1>2. ControlOptions' = ControlOptions
  BY <1>1 DEF ControlOptions, Has, caps
<1>3. \A w \in Wlan : TopicsOf(w)' = TopicsOf(w)
  BY <1>2, ReconcileAssumption DEF TopicsOf, EntitiesOf
<1>4. Ready' = Ready
  BY <1>1 DEF Ready
<1>5. sweep'.ready \in {sweep.ready, Ready}
  BY DEF Sweep, AwaitReady, CollectRetainedConfigs, ReconcileOrphans, ClearConfig, WindowFails,
         TypeOK, SweepState
<1>6. ReadyBehindPublished'
  BY <1>1, <1>2, <1>3, <1>4, <1>5, SameSiteTopics DEF Truthful, ReadyBehindPublished, memory
<1>7. ReportHonest'
  <2>1. CASE ReconcileOrphans
    BY <2>1, JudgementHonest
  <2>2. CASE AwaitReady \/ CollectRetainedConfigs \/ ClearConfig \/ WindowFails
    <3>1. sweep'.unclaimed = sweep.unclaimed
      BY <2>2 DEF AwaitReady, CollectRetainedConfigs, ClearConfig, WindowFails, TypeOK, SweepState
    <3>2. QED
      BY <3>1, <1>1, <1>2 DEF Truthful, ReportHonest
  <2>3. QED
    BY <2>1, <2>2 DEF Sweep
<1>8. QED
  BY <1>6, <1>7 DEF Truthful

LEMMA OthersTruthful ==
    ASSUME Truthful, \/ EnrichFails \/ Moves \/ UNCHANGED vars
                     \/ \E l \in Loop : PollFails(l)
    PROVE  Truthful'
<1>1. config' = config /\ login' = login /\ degraded \subseteq degraded' /\ published' = published
      /\ UNCHANGED <<reported, healthDiscovered, sweep>>
  BY DEF EnrichFails, Moves, PollFails, vars, world, caps, memory, claims
<1>2. QED
  BY <1>1, QuietTruthful

LEMMA NextTruthful == TypeOK /\ Truthful /\ [Next]_vars => Truthful'
<1> SUFFICES ASSUME TypeOK, Truthful, [Next]_vars PROVE Truthful'
  OBVIOUS
<1>1. CASE \E l \in Loop : Work(l)
  BY <1>1, CycleTruthful, DevicesCycleTruthful DEF Work
<1>2. CASE Sweep \/ WindowFails
  BY <1>2, SweepTruthful
<1>3. CASE EnrichFails \/ Moves \/ UNCHANGED vars \/ \E l \in Loop : PollFails(l)
  BY <1>3, OthersTruthful
<1>4. QED
  BY <1>1, <1>2, <1>3 DEF Next

\* The operator is never told to clear a config of the site's health while
\* the classic layer is configured, nor the switch of an SSID that this run
\* can serve: whatever polls, publishes and judgements came in what order
\* (health.go:41-51, coordinator.go:774-783, reconcile.go:123-158).
THEOREM AdviceHonest == Spec => []ReportHonest
<1>1. Spec => []Truthful
  BY InitTruthful, NextTruthful, TypeCorrect, PTL DEF Spec
<1>2. Truthful => ReportHonest
  BY DEF Truthful
<1>3. QED
  BY <1>1, <1>2, PTL


=============================================================================
