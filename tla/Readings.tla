------------------------------ MODULE Readings ------------------------------
(***************************************************************************)
(* How the two loops that walk the console's lists read them: the          *)
(* transport's attempts (unifi/transport.go), pagination and the detail    *)
(* calls of the official API (unifi/integration/client.go), the classic    *)
(* enrichment (unifi/facade.go), the network mapping (model/resolve.go)    *)
(* and the client filter (coordinator/filter.go), between a console whose  *)
(* lists change and what the coordinator makes of them.                    *)
(*                                                                         *)
(* "static"  reads devices, networks and WLANs, with a detail call per     *)
(*           device and per network, and swaps what it keeps of them       *)
(* "clients" reads the clients and filters them by the networks it finds   *)
(*                                                                         *)
(* A request that cannot succeed (a rejection other than of the key, which *)
(* ends the daemon) and one that fails once too often end a read alike.    *)
(* The waits between attempts take no step of their own.                   *)
(***************************************************************************)
EXTENDS Integers, Sequences, SequencesExt

CONSTANTS
    Client,      \* clients the console may list
    Attr,        \* per client: mac (has one), guest, type, ssid
    Rank,        \* the order of the clients' keys
    Prefix,      \* per client and network: the longest prefix of the network
                 \* that contains its address, NoMatch if none does
    Assigned,    \* per client: the network the classic API reports, or NoNet
    Network,
    Vlan,        \* per network
    Device,      \* devices, each of which has ports
    NoNet,
    Filters,     \* the filter configurations considered
    PageLimit,   \* pageLimit
    MaxPages,    \* maxPages
    Retries,     \* attempts after the first
    MaxListed,   \* bound: clients listed at first
    MaxChanges   \* bound: changes of the client list

NoMatch == -1

ASSUME ReadingsAssumption ==
    /\ PageLimit \in Nat \ {0} /\ MaxPages \in Nat \ {0} /\ Retries \in Nat
    /\ MaxListed \in Nat /\ MaxChanges \in Nat
    /\ IsFiniteSet(Client) /\ IsFiniteSet(Device) /\ IsFiniteSet(Network)
    /\ NoNet \notin Network
    /\ Rank \in [Client -> Nat] /\ IsInjective(Rank)
    /\ \A c \in Client : Prefix[c] \in [Network -> Nat \cup {NoMatch}]
    \* Networks are disjoint or nested (CONCEPT.md section 2.2).
    /\ \A c \in Client, m, n \in Network :
          m # n /\ Prefix[c][m] = Prefix[c][n] => Prefix[c][m] = NoMatch

\* lowerSet leaves out what is empty (filter.go:81-89).
ASSUME FiltersAssumption == \A f \in Filters : f.max \in Nat /\ "" \notin f.ssids

Thread == {"static", "clients"}
Kind == {"devices", "networks", "wlans", "clients"}

VARIABLES
    \* console
    lists,      \* what it lists, in its order
    stuck,      \* it answers every page with the first one and more to come
    changes,    \* how much of MaxChanges has been used
    \* daemon
    degraded,   \* client_details is switched off
    job,        \* per loop: the read it is in
    fetched,    \* what the static poll in progress has kept so far
    catalogue,  \* the networks the coordinator knows the subnets of
    ports       \* devices whose port entities are announced

consoleVars == <<lists, stuck, changes>>
coordVars == <<degraded, fetched, catalogue, ports>>
vars == <<consoleVars, coordVars, job>>

IdleJob == [stage |-> "idle", kind |-> "clients", offset |-> 0, pages |-> 0, attempt |-> 0,
            out |-> <<>>, held |-> {}, enriched |-> {}]

\* What a list is made of; of the SSIDs nothing is kept here.
Member(k) == CASE k = "devices"  -> Device
               [] k = "networks" -> Network
               [] k = "clients"  -> Client
               [] OTHER          -> {}

Object == Client \cup Device \cup Network

Job == [stage : {"idle", "page", "listed", "selected"},
        kind : Kind,
        offset : Nat,                       \* of the next page
        pages : 0..MaxPages, attempt : 0..Retries,
        out : Seq(Object),                  \* what was collected
        held : SUBSET Object,               \* what was listed throughout
        enriched : SUBSET Client]           \* covered by the classic answer

TypeOK ==
    /\ DOMAIN lists = Kind
    /\ \A k \in Kind : lists[k] \in Seq(Member(k)) /\ IsInjective(lists[k])
    /\ stuck \in BOOLEAN /\ changes \in 0..MaxChanges
    /\ degraded \in BOOLEAN
    /\ job \in [Thread -> Job]
    /\ \A th \in Thread :
          /\ job[th].out \in Seq(Member(job[th].kind))
          /\ job[th].offset = Len(job[th].out)
          /\ Len(job[th].out) <= MaxPages * PageLimit
    /\ catalogue \subseteq Network /\ ports \subseteq Device
    /\ fetched \in [ports : SUBSET Device, catalogue : SUBSET Network]

NothingFetched == [ports |-> {}, catalogue |-> {}]

Init ==
    /\ \E cs \in {C \in SUBSET Client : Cardinality(C) <= MaxListed} :
          lists = [k \in Kind |-> CASE k = "devices"  -> SetToSeq(Device)
                                    [] k = "networks" -> SetToSeq(Network)
                                    [] k = "wlans"    -> <<>>
                                    [] k = "clients"  -> SetToSeq(cs)]
    /\ stuck \in BOOLEAN
    /\ changes = 0
    /\ degraded \in BOOLEAN
    /\ job = [th \in Thread |-> IdleJob]
    /\ fetched = NothingFetched
    /\ catalogue = {}
    /\ ports = {}

-----------------------------------------------------------------------------
(* One list: paginate, and the transport's attempts below it.              *)

Reading(k) == [IdleJob EXCEPT !.stage = "page", !.kind = k,
                              !.held = IF stuck THEN {} ELSE ToSet(lists[k])]

Listed(j) == [j EXCEPT !.stage = "listed", !.pages = 0]

\* Mutant: the offset moves by the page size.
AfterPage_ByLimit(j, data, total) ==
    LET read == [j EXCEPT !.out = @ \o data, !.offset = @ + PageLimit, !.pages = @ + 1, !.attempt = 0]
    IN IF data = <<>> \/ read.offset >= total THEN Listed(read) ELSE read

\* Mutant: a short page is taken for the last one.
AfterPage_ShortPageEnds(j, data, total) ==
    LET read == [j EXCEPT !.out = @ \o data, !.offset = @ + Len(data), !.pages = @ + 1, !.attempt = 0]
    IN IF Len(data) < PageLimit \/ read.offset >= total THEN Listed(read) ELSE read

\* The next offset is what has been collected. The read is over when the
\* total is reached, or on an empty page whatever the total says.
AfterPage(j, data, total) ==
    LET read == [j EXCEPT !.out = @ \o data, !.offset = @ + Len(data), !.pages = @ + 1, !.attempt = 0]
    IN IF data = <<>> \/ read.offset >= total THEN Listed(read) ELSE read

\* The console delivers at least one object of what is left, not necessarily
\* a full page, and may report more than it has.
Page(th) ==
    LET j    == job[th]
        list == lists[j.kind]
        left == IF stuck THEN list ELSE SubSeq(list, j.offset + 1, Len(list))
    IN
    /\ j.stage = "page"
    /\ j.pages < MaxPages
    /\ \E n \in (IF left = <<>> THEN {0} ELSE 1..Min({PageLimit, Len(left)})),
          total \in IF stuck THEN {MaxPages * PageLimit + 1} ELSE {Len(list), Len(list) + 1} :
          job' = [job EXCEPT ![th] = AfterPage(j, SubSeq(left, 1, n), total)]
    /\ UNCHANGED <<consoleVars, coordVars>>

\* Too many pages: what was collected counts as the list.
PagesCapped(th) ==
    /\ job[th].stage = "page"
    /\ job[th].pages >= MaxPages
    /\ job' = [job EXCEPT ![th] = [Listed(@) EXCEPT !.held = {}]]
    /\ UNCHANGED <<consoleVars, coordVars>>

\* Mutant: a failed attempt starts the list over.
NextAttempt_StartsOver(j) == Reading(j.kind)

NextAttempt(j) == [j EXCEPT !.attempt = @ + 1]

\* A transient failure (the network, 429, 5xx, an unreadable body) is
\* repeated.
AttemptFails(th) ==
    /\ job[th].stage = "page"
    /\ job[th].pages < MaxPages
    /\ job[th].attempt < Retries
    /\ job' = [job EXCEPT ![th] = NextAttempt(@)]
    /\ UNCHANGED <<consoleVars, coordVars>>

\* A rejection, or one failure too many: the poll is abandoned.
ReadFails(th) ==
    /\ job[th].stage = "page"
    /\ job[th].pages < MaxPages
    /\ job' = [job EXCEPT ![th] = IdleJob]
    /\ fetched' = IF th = "static" THEN NothingFetched ELSE fetched
    /\ UNCHANGED <<consoleVars, degraded, catalogue, ports>>

-----------------------------------------------------------------------------
(* The static poll.                                                        *)

StaticPoll ==
    /\ job["static"].stage = "idle"
    /\ job' = [job EXCEPT !["static"] = Reading("devices")]
    /\ UNCHANGED <<consoleVars, coordVars>>

\* Each detail call of DevicesWithDetails writes to a slot of its own, so the
\* four at a time are one step. One that fails leaves the overview, which has
\* no ports.
DeviceDetails ==
    /\ job["static"].stage = "listed" /\ job["static"].kind = "devices"
    /\ \E answered \in SUBSET ToSet(job["static"].out) : fetched' = [fetched EXCEPT !.ports = answered]
    /\ job' = [job EXCEPT !["static"] = Reading("networks")]
    /\ UNCHANGED <<consoleVars, degraded, catalogue, ports>>

\* A network without details keeps its name and VLAN and has no subnets.
NetworkDetails ==
    /\ job["static"].stage = "listed" /\ job["static"].kind = "networks"
    /\ \E answered \in SUBSET ToSet(job["static"].out) :
          fetched' = [fetched EXCEPT !.catalogue = answered]
    /\ job' = [job EXCEPT !["static"] = Reading("wlans")]
    /\ UNCHANGED <<consoleVars, degraded, catalogue, ports>>

\* All three lists are there: the catalogue is replaced, and announcing the
\* devices retracts the entities they no longer have.
StaticSwap ==
    /\ job["static"].stage = "listed" /\ job["static"].kind = "wlans"
    /\ catalogue' = fetched.catalogue
    /\ ports' = fetched.ports
    /\ fetched' = NothingFetched
    /\ job' = [job EXCEPT !["static"] = IdleJob]
    /\ UNCHANGED <<consoleVars, degraded>>

-----------------------------------------------------------------------------
(* The client poll.                                                        *)

ClientPoll ==
    /\ job["clients"].stage \in {"idle", "selected"}
    /\ job' = [job EXCEPT !["clients"] = Reading("clients")]
    /\ UNCHANGED <<consoleVars, coordVars>>

\* The network found so far gives way to a longer prefix only.
Better(c, m, n) == Prefix[c][n] > IF m = NoNet THEN NoMatch ELSE Prefix[c][m]

\* ResolveNetwork, over the networks in the order the console lists them:
\* best[i] is what the first i of them leave.
ResolveNetwork(c, known, order) ==
    LET best[i \in 0..Len(order)] ==
            IF i = 0 THEN NoNet
            ELSE IF order[i] \in known /\ Better(c, best[i - 1], order[i]) THEN order[i]
            ELSE best[i - 1]
    IN  best[Len(order)]

\* The client's network: by its address, else what the classic API said.
NetworkOf(c, enriched, known, order) ==
    LET n == ResolveNetwork(c, known, order)
    IN IF n # NoNet THEN n ELSE IF c \in enriched THEN Assigned[c] ELSE NoNet

\* The filter, in the order of its rules. Without classic data the SSID is
\* empty.
Keep(filter, c, enriched, known, order) ==
    LET net  == NetworkOf(c, enriched, known, order)
        ssid == IF c \in enriched THEN Attr[c].ssid ELSE ""
        OneOf(list, x) == list = {} \/ x \in list
    IN
    /\ ~(Attr[c].mac /\ c \in filter.exclude)
    /\ \/ filter.include # {} /\ Attr[c].mac /\ c \in filter.include
       \/ /\ filter.include = {}
          /\ ~(filter.guests /\ Attr[c].guest)
          /\ OneOf(filter.types, Attr[c].type)
          /\ filter.networks # {} \/ filter.vlans # {} => net # NoNet
          /\ OneOf(filter.networks, net)
          /\ filter.vlans # {} => Vlan[net] \in filter.vlans
          /\ OneOf(filter.ssids, ssid)

\* Those of the list s that are at the positions I, by key.
Precedes(s, i, k) == Rank[s[i]] < Rank[s[k]] \/ (s[i] = s[k] /\ i < k)
Place(s, I, i) == Cardinality({k \in I : Precedes(s, k, i)}) + 1
Sorted(s, I) == [p \in 1..Cardinality(I) |-> s[CHOOSE i \in I : Place(s, I, i) = p]]
Capped(s, max) == SubSeq(s, 1, Min({Len(s), max}))

\* Mutant: the cap comes before the sorting.
SortedAndCapped_CapFirst(s, I, max) ==
    Sorted(s, {i \in I : Cardinality({k \in I : k < i}) < max})

SortedAndCapped(s, I, max) == Capped(Sorted(s, I), max)

Apply(filter, s, enriched, known, order) ==
    SortedAndCapped(s, {i \in DOMAIN s : Keep(filter, s[i], enriched, known, order)}, filter.max)

\* What refreshClients tracks and publishes after its read, under a filter: in
\* the step that ends it the catalogue is the one it finds.
Kept(filter, order) ==
    LET j == job["clients"] IN Apply(filter, j.out, j.enriched, catalogue, order)

\* Clients of the facade, and refreshClients up to the selection: the classic
\* answer covers some of the clients, none of those without a MAC.
Select(enriched) ==
    LET j == job["clients"] IN
    /\ j.stage = "listed"
    /\ job' = [job EXCEPT !["clients"] =
                  [j EXCEPT !.stage = "selected", !.enriched = enriched]]
    /\ UNCHANGED <<consoleVars, fetched, catalogue, ports>>

Enriched ==
    /\ ~degraded
    /\ \E answered \in SUBSET {c \in ToSet(job["clients"].out) : Attr[c].mac} : Select(answered)
    /\ UNCHANGED degraded

\* A classic call that fails switches the enrichment off.
EnrichFails ==
    /\ ~degraded
    /\ Select({})
    /\ degraded' = TRUE

NotEnriched ==
    /\ degraded
    /\ Select({})
    /\ UNCHANGED degraded

-----------------------------------------------------------------------------
(* The console's list changes under the reads. Whoever was reading it can   *)
(* be held to what stayed only as long as nothing moved to the front.       *)

Change(list) ==
    /\ changes < MaxChanges
    /\ changes' = changes + 1
    /\ lists' = [lists EXCEPT !["clients"] = list]
    /\ UNCHANGED <<stuck, coordVars>>

Arrive ==
    LET list == lists["clients"] IN
    /\ \E c \in Client \ ToSet(list), i \in 1..Len(list) + 1 : Change(InsertAt(list, i, c))
    /\ UNCHANGED job

Leave ==
    LET list == lists["clients"] IN
    /\ \E i \in DOMAIN list : Change(RemoveAt(list, i))
    /\ job' = [job EXCEPT !["clients"].held = {}]

Reorder ==
    LET list == lists["clients"] IN
    /\ \E i, k \in DOMAIN list :
          i < k /\ Change([list EXCEPT ![i] = list[k], ![k] = list[i]])
    /\ job' = [job EXCEPT !["clients"].held = {}]

Next ==
    \/ \E th \in Thread : Page(th) \/ PagesCapped(th) \/ AttemptFails(th) \/ ReadFails(th)
    \/ StaticPoll \/ DeviceDetails \/ NetworkDetails \/ StaticSwap
    \/ ClientPoll \/ Enriched \/ EnrichFails \/ NotEnriched
    \/ Arrive \/ Leave \/ Reorder

\* The loops run, and every attempt is answered or times out.
Works(th) ==
    \/ Page(th) \/ PagesCapped(th) \/ AttemptFails(th) \/ ReadFails(th)
    \/ th = "static" /\ (DeviceDetails \/ NetworkDetails \/ StaticSwap)
    \/ th = "clients" /\ (Enriched \/ EnrichFails \/ NotEnriched)

Spec == Init /\ [][Next]_vars
FairSpec == Spec /\ \A th \in Thread : WF_vars(Works(th))

-----------------------------------------------------------------------------

\* A client that stays on the list while it is read page by page is in what
\* was read, whoever arrives, at whatever place, between two pages and
\* between two attempts, and however short the pages are - unless somebody
\* leaves or the console reorders its list (client.go:386-391).
NoneSkipped ==
    job["clients"].stage = "selected" => job["clients"].held \subseteq ToSet(job["clients"].out)

\* The rules of CONCEPT.md section 6.3, without an order of evaluation.
Longest(c, known) ==
    {n \in known : Prefix[c][n] # NoMatch /\ \A m \in known : Prefix[c][m] <= Prefix[c][n]}
Nets(c, enriched, known) ==
    IF Longest(c, known) # {} THEN Longest(c, known)
    ELSE IF c \in enriched THEN {Assigned[c]} \ {NoNet} ELSE {}
Admitted(filter, c, enriched, known) ==
    LET nets == Nets(c, enriched, known)
        restricted ==
            \/ filter.guests /\ Attr[c].guest
            \/ filter.types # {} /\ Attr[c].type \notin filter.types
            \/ filter.networks # {} /\ nets \cap filter.networks = {}
            \/ filter.vlans # {} /\ {Vlan[n] : n \in nets} \cap filter.vlans = {}
            \/ filter.ssids # {} /\ ~(c \in enriched /\ Attr[c].ssid \in filter.ssids)
    IN IF Attr[c].mac /\ c \in filter.exclude THEN FALSE
       ELSE IF filter.include # {} THEN Attr[c].mac /\ c \in filter.include
       ELSE ~restricted

Orders == SetToSeqs(Network)

\* The first of them, by key.
First(S, max) == {c \in S : Cardinality({d \in S : Rank[d] < Rank[c]}) < max}

\* What is published does not depend on the order in which the console lists
\* clients or networks: it is the first MAX, by key, of the clients the rules
\* admit (filter.go:118-121). A list read twice in part is another matter: a
\* client it repeats counts twice.
SelectionOrderless ==
    LET j == job["clients"] IN
    j.stage = "selected" /\ IsInjective(j.out) =>
        \A filter \in Filters :
            LET admitted == {c \in ToSet(j.out) : Admitted(filter, c, j.enriched, catalogue)}
                first == First(admitted, filter.max)
            IN  \A order \in Orders : ToSet(Kept(filter, order)) = first

\* Every read ends, whatever the console lists, reports or fails to answer
\* (client.go:47-49).
ReadsEnd ==
    \A th \in Thread : job[th].stage \notin {"idle", "selected"} ~> job[th].stage \in {"idle", "selected"}

\* The official list decides which clients exist, the classic layer only adds
\* fields: a client missing from its answer does not disappear
\* (facade.go:251-254).
ClassicOnlyAdds ==
    LET j == job["clients"] IN
    j.stage = "selected" => \A filter \in Filters, order \in Orders :
        ToSet(Apply(filter, j.out, Client, catalogue, order)) \subseteq ToSet(Kept(filter, order))

\* A device whose detail call fails keeps its useful entities
\* (client.go:205-208): no device here ever loses a port.
PortsStay == [][ports \subseteq ports']_vars

=============================================================================
