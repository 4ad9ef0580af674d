------------------------------ MODULE Catalogue ------------------------------
(***************************************************************************)
(* Which entities exist and what they read (internal/hass/discovery.go,    *)
(* client.go, control.go, health.go), and which items the poll loops write *)
(* (internal/coordinator/device.go, client.go, health.go).                 *)
(*                                                                         *)
(* An entity is its object, the platform and key of its config topic, and  *)
(* the items it depends on: its state, its attributes, and the `online`    *)
(* item of an entity that is unavailable with its device or client. The    *)
(* bridge's `connected`, which all of them read, is Bridge's.              *)
(***************************************************************************)
CONSTANTS
    Device, Client, Wlan,
    Shape,      \* of a device: ports, those with PoE, radio bands, and the
                \* bands its statistics mention
    Kind        \* of a client: has a MAC, is wireless, is a guest

Site == "site"
Class == {"device", "client", "wlan", "site"}

ClassOf(o) == CASE o \in Device -> "device"
                [] o \in Client -> "client"
                [] o \in Wlan   -> "wlan"
                [] OTHER        -> "site"

When(condition, S) == IF condition THEN S ELSE {}

Entity(o, platform, key, items) == [of |-> o, platform |-> platform, key |-> key, reads |-> items]

\* The entities of a device itself, which stay available when it goes
\* offline, and those that go with it.
OwnSpecs(d) ==
    {Entity(d, s[1], <<s[2]>>, {<<s[3]>>, <<"attributes">>}) : s \in
        {<<"sensor", "state", "state">>, <<"binary_sensor", "reachable", "state">>,
         <<"sensor", "firmware", "firmware">>, <<"binary_sensor", "update_available", "update_available">>}}

WhileOnline(d, platform, key, item) == Entity(d, platform, key, {item, <<"attributes">>, <<"online">>})

ReadingSpecs(d) ==
    {WhileOnline(d, "sensor", <<k>>, <<k>>) :
        k \in {"uptime", "cpu_utilization", "memory_utilization", "uplink_tx_bps", "uplink_rx_bps"}}

\* Mutant: every port gets a PoE entity.
PortSpecsAllPoE(d) ==
    {WhileOnline(d, "binary_sensor", <<"port", p, "link">>, <<"port", p, "state">>) : p \in Shape[d].ports}
    \cup {WhileOnline(d, "sensor", <<"port", p, "speed">>, <<"port", p, "speed">>) : p \in Shape[d].ports}
    \cup {WhileOnline(d, "binary_sensor", <<"port", p, "poe">>, <<"port", p, "poe">>) : p \in Shape[d].ports}

\* portSpecs: a port without PoE has no such entity.
PortSpecs(d) ==
    {WhileOnline(d, "binary_sensor", <<"port", p, "link">>, <<"port", p, "state">>) : p \in Shape[d].ports}
    \cup {WhileOnline(d, "sensor", <<"port", p, "speed">>, <<"port", p, "speed">>) : p \in Shape[d].ports}
    \cup {WhileOnline(d, "binary_sensor", <<"port", p, "poe">>, <<"port", p, "poe">>) : p \in Shape[d].poe}

\* radioSpecs, by band.
RadioSpecs(d) ==
    {WhileOnline(d, "sensor", <<"radio", b, k>>, <<"radio", b, k>>) :
        b \in Shape[d].bands, k \in {"channel", "tx_retries"}}

\* Device.
DeviceSpecs(d) == OwnSpecs(d) \cup ReadingSpecs(d) \cup PortSpecs(d) \cup RadioSpecs(d)

\* DeviceControls.
DeviceControls(d, options) ==
    When("restart" \in options, {Entity(d, "button", <<"restart">>, {<<"online">>})})
    \cup When("locate" \in options, {Entity(d, "switch", <<"locate">>, {<<"locate">>, <<"online">>})})
    \cup {Entity(d, "button", <<"port", p, "power_cycle">>, {<<"online">>}) :
             p \in When("power_cycle" \in options, Shape[d].poe)}

\* Client: the tracker reports being away and does not go away itself.
ClientEntities(c, signal) ==
    {Entity(c, "device_tracker", <<"presence">>, {<<"state">>, <<"attributes">>})}
    \cup {Entity(c, "sensor", <<k>>, {<<k>>, <<"attributes">>, <<"online">>}) :
             k \in {"ip"} \cup When(signal /\ Kind[c].wireless, {"signal"})}

\* ClientControls: a client without a MAC cannot be blocked.
ClientControls(c, options) ==
    When("block" \in options /\ Kind[c].mac, {Entity(c, "switch", <<"blocked">>, {<<"blocked">>})})
    \cup When("authorize" \in options /\ Kind[c].guest, {Entity(c, "button", <<"authorize">>, {})})

WLANControl(w) == Entity(w, "switch", <<"wlan">>, {<<"enabled">>})

HealthEntities ==
    LET reading(platform, key, item) == Entity(Site, platform, <<key>>, {item, <<"attributes">>})
    IN  {reading("binary_sensor", "wan_connectivity", <<"wan", "state">>), reading("sensor", "wan_ip", <<"wan", "ip">>),
         reading("sensor", "wan_latency", <<"wan", "latency_ms">>), reading("sensor", "wan_rx_bps", <<"wan", "rx_bps">>),
         reading("sensor", "wan_tx_bps", <<"wan", "tx_bps">>), reading("sensor", "clients_total", <<"clients", "total">>),
         reading("sensor", "clients_guest", <<"clients", "guest">>)}

-----------------------------------------------------------------------------
(* What the loops write.                                                   *)

\* publishDevice, with the ports and radios of the static loop's snapshot;
\* a port without PoE gets no `poe` item. The wattage, which no entity
\* reads, is left out.
DeviceItems(d, detailed) ==
    {<<k>> : k \in {"state", "online", "firmware", "update_available", "attributes"}}
    \cup When(detailed, {<<"port", p, k>> : p \in Shape[d].ports, k \in {"state", "speed"}}
                       \cup {<<"port", p, "poe">> : p \in Shape[d].poe}
                       \cup {<<"radio", b, "channel">> : b \in Shape[d].bands})

\* publishDeviceStats: the retries of the bands the sample mentions.
StatsItems(d) ==
    {<<k>> : k \in {"uptime", "cpu_utilization", "memory_utilization", "uplink_tx_bps", "uplink_rx_bps"}}
    \cup {<<"radio", b, "tx_retries">> : b \in Shape[d].sampled}

\* publishLocate, where the switch is announced and nowhere else.
StaticItems(options) == When("locate" \in options, {<<"locate">>})

WLANItems == {<<"enabled">>, <<"name">>}

\* publishClient. An item that is cleared counts as written.
ClientItems(c, options, signal) ==
    {<<k>> : k \in {"state", "online", "ip", "attributes"}}
    \cup When("block" \in options, {<<"blocked">>})
    \cup When(signal /\ Kind[c].wireless, {<<"signal">>})

HealthItems ==
    {<<"wan", k>> : k \in {"state", "ip", "latency_ms", "rx_bps", "tx_bps"}}
    \cup {<<k, "state">> : k \in {"lan", "wlan", "vpn"}}
    \cup {<<"clients", k>> : k \in {"total", "guest"}} \cup {<<"attributes">>}
=============================================================================
