------------------------------- MODULE Bridge -------------------------------
(***************************************************************************)
(* The process as a whole: bridge and disconnect (cmd/unifi2mqtt/main.go), *)
(* the connect hook and the poll loops (internal/coordinator), what they   *)
(* make of `<name>/connected` on the broker (0, 1, 2, the 0 of the Last    *)
(* Will included) and of the status page (internal/state).                 *)
(*                                                                         *)
(* Of the loops the three that differ here: `devices` decides the level,   *)
(* `stats` works on a list of its own, `health` asks the classic layer.    *)
(* The others fail and stop as `stats` does. What the loops publish is     *)
(* the other modules'.                                                     *)
(*                                                                         *)
(* The discovery runtime is the library's: it remembers a level, starts at *)
(* 1, publishes a level only as a change, and announces the level it has.  *)
(***************************************************************************)
EXTENDS Integers

CONSTANTS
    Device,
    HookOutlivesStop,   \* whether the connect hook may still publish once the
                        \* run context is cancelled: the client library's choice
    MaxEvent            \* bound: drops, outages, revocations, moves, lost
                        \* acknowledgements, deaths and restarts, together

ASSUME BridgeAssumption == HookOutlivesStop \in BOOLEAN /\ MaxEvent \in Nat

Loop == {"devices", "stats", "health"}
Level == {1, 2}

VARIABLES
    \* environment
    console,    \* "up", "down", or "denied" once the key is revoked
    site,       \* devices on the console
    events,     \* how many of the events have happened
    lost,       \* whether a publish was lost on a connection that stayed up
    \* broker
    marker,     \* the retained `connected` item, -1 for none
    owed,       \* a session ended without DISCONNECT and its will is due
    \* process
    phase,      \* "starting", "running", "stopping", "closing", "ended"
    link,       \* the client has a connection
    hook,       \* the connect hook
    runtime,    \* the level the discovery runtime remembers
    upstream,   \* c.upstream
    live,       \* loops that have not returned
    capable,    \* the facade still has the site health
    job,        \* what each loop is at
    page        \* the store: devices, statistics, broker link

world == <<console, site, events, lost>>
broker == <<marker, owed>>
process == <<phase, live, capable>>
vars == <<world, broker, process, link, hook, runtime, upstream, job, page>>

IdleJob == [stage |-> "idle", answer |-> "none", list |-> {}]
IdleHook == [stage |-> "idle", level |-> 1]
EmptyPage == [devices |-> {}, stats |-> {}, linked |-> FALSE]

\* What a new process starts from: coordinator.New, state.New, and the
\* outcome of the classic login.
Fresh ==
    /\ phase' = "starting"
    /\ link' = FALSE /\ hook' = IdleHook
    /\ runtime' = 1 /\ upstream' = 1
    /\ live' = {} /\ capable' \in BOOLEAN
    /\ job' = [l \in Loop |-> IdleJob]
    /\ page' = EmptyPage

Init ==
    /\ console = "up" /\ site \in SUBSET Device
    /\ events = 0 /\ lost = FALSE
    /\ marker = -1 /\ owed = FALSE
    /\ phase = "starting"
    /\ link = FALSE /\ hook = IdleHook
    /\ runtime = 1 /\ upstream = 1
    /\ live = {} /\ capable \in BOOLEAN
    /\ job = [l \in Loop |-> IdleJob]
    /\ page = EmptyPage

Job == [stage : {"idle", "ask", "decide", "tell", "store"},
        answer : {"none", "ok", "failed", "denied", "cancelled"}, list : SUBSET Device]
HookState == [stage : {"idle", "reset", "read", "publish"}, level : Level]
Page == [devices : SUBSET Device, stats : SUBSET Device, linked : BOOLEAN]

TypeOK ==
    /\ console \in {"up", "down", "denied"} /\ site \subseteq Device
    /\ events \in Nat /\ lost \in BOOLEAN
    /\ marker \in {-1, 0} \cup Level /\ owed \in BOOLEAN
    /\ phase \in {"starting", "running", "stopping", "closing", "ended"}
    /\ link \in BOOLEAN /\ (link => ~owed)
    /\ hook \in HookState
    /\ runtime \in Level /\ upstream \in Level
    /\ capable \in BOOLEAN
    /\ live \subseteq Loop /\ (phase \in {"starting", "closing"} => live = {})
    /\ job \in [Loop -> Job] /\ page \in Page

Event == events < MaxEvent /\ events' = events + 1
Set(l, j) == job' = [job EXCEPT ![l] = j]

-----------------------------------------------------------------------------
(* The connection.                                                         *)

\* A retained publish around the breaker; one on a dead connection fails.
Send(v) == marker' = IF link THEN v ELSE marker

\* Runtime.SetConnected: only a change is sent. Whether a failed send is
\* remembered is the library's.
SetConnected(v) ==
    IF v = runtime
    THEN UNCHANGED <<marker, runtime>>
    ELSE Send(v) /\ runtime' \in IF link THEN {v} ELSE {v, runtime}

\* Lifecycle: the first connect inside Start, later ones on its own. A
\* broker still holding the old session ends it first, will included.
Connect ==
    /\ ~link /\ phase \in {"starting", "running"} /\ hook.stage = "idle"
    /\ link' = TRUE /\ owed' = FALSE
    /\ marker' = IF owed THEN 0 ELSE marker
    /\ hook' = [IdleHook EXCEPT !.stage = "reset"]
    /\ UNCHANGED <<world, process, runtime, upstream, job, page>>

Drop ==
    /\ link /\ Event
    /\ link' = FALSE /\ owed' = TRUE
    /\ UNCHANGED <<console, site, lost, marker, process, hook, runtime, upstream, job, page>>

\* The broker notices a session that ended without DISCONNECT.
WillFires ==
    /\ owed
    /\ owed' = FALSE /\ marker' = 0
    /\ UNCHANGED <<world, process, link, hook, runtime, upstream, job, page>>

\* OnConnect: resetPlanes, SetMQTTConnected.
HookResets ==
    /\ hook.stage = "reset"
    /\ runtime' = 1
    /\ page' = [page EXCEPT !.linked = TRUE]
    /\ hook' = [hook EXCEPT !.stage = "read"]
    /\ UNCHANGED <<world, broker, process, link, upstream, job>>

\* Mutant: the level is the runtime's to know.
HookReadsNot ==
    /\ hook.stage = "read"
    /\ hook' = [stage |-> "publish", level |-> 1]
    /\ UNCHANGED <<world, broker, process, link, runtime, upstream, job, page>>

\* announceConnected looks at the level...
HookReads ==
    /\ hook.stage = "read"
    /\ hook' = [stage |-> "publish", level |-> upstream]
    /\ UNCHANGED <<world, broker, process, link, runtime, upstream, job, page>>

\* ...and publishes it: SetConnected for a 2, AnnounceOnline, which sends
\* the level the runtime has, for a 1. Start returns after the first hook,
\* and Run starts the loops.
HookPublishes ==
    /\ hook.stage = "publish"
    /\ \/ /\ phase \in {"starting", "running"} \/ HookOutlivesStop
          /\ IF hook.level = 2 THEN SetConnected(2) ELSE Send(runtime) /\ UNCHANGED runtime
       \/ /\ phase \notin {"starting", "running"}
          /\ UNCHANGED <<marker, runtime>>
    /\ hook' = IdleHook
    /\ IF phase = "starting"
       THEN phase' = "running" /\ live' = Loop
       ELSE UNCHANGED <<phase, live>>
    /\ UNCHANGED <<world, owed, capable, link, upstream, job, page>>

-----------------------------------------------------------------------------
(* The loops.                                                              *)

\* loopWithNudge runs its function: the request goes out. Once the
\* capability is degraded `health` asks nobody, and its polls are no steps.
Poll(l) ==
    /\ phase = "running" /\ l \in live /\ job[l].stage = "idle"
    /\ l = "health" => capable
    /\ Set(l, [IdleJob EXCEPT !.stage = "ask"])
    /\ UNCHANGED <<world, broker, process, link, hook, runtime, upstream, page>>

\* What the console answers. The classic layer fails for reasons of its own,
\* a rejected login among them; what `health` does with an answer, and the
\* page with the aggregate, is left out.
AnswerOf(l) ==
    IF l = "health" THEN {"ok", "failed", "denied"}
    ELSE {CASE console = "up" -> "ok" [] console = "down" -> "failed" [] console = "denied" -> "denied"}
AfterAnswer(l) == IF l = "devices" THEN "decide" ELSE "store"

Answered(l) ==
    /\ job[l].stage = "ask"
    /\ \E a \in AnswerOf(l) :
        /\ Set(l, IF l = "health" /\ a = "ok" THEN IdleJob
                  ELSE [stage |-> AfterAnswer(l), answer |-> a, list |-> IF a = "ok" THEN site ELSE {}])
        /\ capable' = (capable /\ (l = "health" => a = "ok"))
    /\ UNCHANGED <<world, broker, phase, live, link, hook, runtime, upstream, page>>

\* A stop cancels the call.
Cancelled(l) ==
    /\ phase = "stopping" /\ job[l].stage = "ask"
    /\ Set(l, [stage |-> AfterAnswer(l), answer |-> "cancelled", list |-> {}])
    /\ UNCHANGED <<world, broker, process, link, hook, runtime, upstream, page>>

\* Mutant: any failed call says that the console is gone.
SaysAlways(answer) == IF answer = "ok" THEN {2} ELSE {1}

\* refreshDevices: what a finished poll says of the console. A call that
\* failed once the context is done says nothing.
Says(answer) == IF answer = "ok" THEN {2} ELSE IF phase = "running" THEN {1} ELSE {}

\* setUpstream: a repeat publishes nothing.
Decide ==
    /\ job["devices"].stage = "decide"
    /\ \/ /\ Says(job["devices"].answer) \subseteq {upstream}
          /\ Set("devices", [job["devices"] EXCEPT !.stage = "store"])
          /\ UNCHANGED upstream
       \/ /\ upstream' \in Says(job["devices"].answer) \ {upstream}
          /\ Set("devices", [job["devices"] EXCEPT !.stage = "tell"])
    /\ UNCHANGED <<world, broker, process, link, hook, runtime, page>>

\* The publish runs under the loop's context: after a stop it may fail.
Tell ==
    /\ job["devices"].stage = "tell"
    /\ \/ SetConnected(upstream)
       \/ phase = "stopping" /\ UNCHANGED <<marker, runtime>>
    /\ Set("devices", [job["devices"] EXCEPT !.stage = "store"])
    /\ UNCHANGED <<world, owed, process, link, hook, upstream, page>>

\* SetConnected's acknowledgement does not come: the broker may or may not
\* have the value. setUpstream logs it.
TellLost ==
    /\ job["devices"].stage = "tell" /\ link /\ upstream # runtime
    /\ Event /\ lost' = TRUE
    /\ marker' \in {marker, upstream} /\ runtime' \in {runtime, upstream}
    /\ Set("devices", [job["devices"] EXCEPT !.stage = "store"])
    /\ UNCHANGED <<console, site, owed, process, link, hook, upstream, page>>

\* SetDevices keeps the statistics of the devices that are still there.
SetDevices(list) == [page EXCEPT !.devices = list, !.stats = @ \cap list]

\* Mutant: statistics are recorded for whatever device they are of.
SetStatsAnyway(list) == [page EXCEPT !.stats = @ \cup list, !.devices = @ \cup list]

\* SetDeviceStats for the devices of the loop's own list that the page has.
SetStats(list) == [page EXCEPT !.stats = @ \cup (list \cap page.devices)]

\* The poll's result: stored, or logged and left for the next poll (what
\* the page says of the loops is left out). A rejection is fatal, whichever
\* loop met it, and the error group stops the others.
Fatal(l) == job[l].answer = "denied" /\ phase = "running"

Succeeds(l) ==
    /\ job[l].stage = "store" /\ job[l].answer = "ok"
    /\ page' = IF l = "devices" THEN SetDevices(job[l].list) ELSE SetStats(job[l].list)
    /\ Set(l, IdleJob)
    /\ UNCHANGED <<world, broker, process, link, hook, runtime, upstream>>

Fails(l) ==
    /\ job[l].stage = "store" /\ job[l].answer = "failed" /\ phase = "running"
    /\ Set(l, IdleJob)
    /\ UNCHANGED <<world, broker, process, link, hook, runtime, upstream, page>>

FailsForGood(l) ==
    /\ job[l].stage = "store" /\ Fatal(l)
    /\ phase' = "stopping" /\ live' = live \ {l}
    /\ Set(l, IdleJob)
    /\ UNCHANGED <<world, broker, capable, link, hook, runtime, upstream, page>>

\* Mutant: a loop looks at the context only between two polls.
ReturnsIdle(l) ==
    /\ phase = "stopping" /\ l \in live /\ job[l].stage = "idle"
    /\ live' = live \ {l}
    /\ UNCHANGED <<world, broker, phase, capable, link, hook, runtime, upstream, job, page>>

\* Between two polls, or after a call that failed: the context is done.
Returns(l) ==
    /\ phase = "stopping" /\ l \in live
    /\ job[l].stage = "idle" \/ (job[l].stage = "store" /\ job[l].answer # "ok")
    /\ live' = live \ {l}
    /\ Set(l, IdleJob)
    /\ UNCHANGED <<world, broker, phase, capable, link, hook, runtime, upstream, page>>

-----------------------------------------------------------------------------
(* The end, and a new start.                                               *)

\* The process is gone, and its memory with it.
Dies ==
    /\ phase' = "ended"
    /\ link' = FALSE /\ hook' = IdleHook
    /\ runtime' = 1 /\ upstream' = 1
    /\ live' = {} /\ capable' = FALSE /\ job' = [l \in Loop |-> IdleJob]
    /\ page' = EmptyPage

\* A signal or the maintenance restart. Before Start has returned nothing
\* is set up to disconnect, and the process just ends.
Stop ==
    /\ \/ phase = "running" /\ phase' = "stopping" /\ UNCHANGED <<owed, link, hook>>
          /\ UNCHANGED <<capable, live, runtime, upstream, job, page>>
       \/ phase = "starting" /\ Dies /\ owed' = (owed \/ link)
    /\ UNCHANGED <<world, marker>>

\* Mutant: disconnect does not wait for Run.
AnnounceOfflineEarly ==
    /\ phase = "stopping"
    /\ Send(0)
    /\ phase' = "closing"
    /\ UNCHANGED <<world, owed, capable, live, link, hook, runtime, upstream, job, page>>

\* Mutant: the will is trusted to say it.
AnnounceNothing ==
    /\ phase = "stopping" /\ live = {}
    /\ phase' = "closing"
    /\ UNCHANGED <<world, broker, capable, live, link, hook, runtime, upstream, job, page>>

\* Run has returned; disconnect announces 0...
AnnounceOffline ==
    /\ phase = "stopping" /\ live = {}
    /\ Send(0)
    /\ phase' = "closing"
    /\ UNCHANGED <<world, owed, capable, live, link, hook, runtime, upstream, job, page>>

\* ...and DISCONNECTs, which takes the will back.
Disconnect ==
    /\ phase = "closing"
    /\ Dies
    /\ UNCHANGED <<world, broker>>

\* The process is killed.
Crash ==
    /\ phase # "ended" /\ Event
    /\ Dies /\ owed' = (owed \/ link)
    /\ UNCHANGED <<console, site, lost, marker>>

Restart ==
    /\ phase = "ended" /\ Event
    /\ Fresh
    /\ UNCHANGED <<console, site, lost, broker>>

\* The console goes away, comes back, or rejects the key for good.
ConsoleChanges ==
    /\ console # "denied" /\ Event
    /\ console' \in {"up", "down", "denied"} \ {console}
    /\ UNCHANGED <<site, lost, broker, process, link, hook, runtime, upstream, job, page>>

DeviceMoves ==
    /\ Event
    /\ \E d \in Device : site' = IF d \in site THEN site \ {d} ELSE site \cup {d}
    /\ UNCHANGED <<console, lost, broker, process, link, hook, runtime, upstream, job, page>>

Hook == HookResets \/ HookReads \/ HookPublishes
Work(l) == Poll(l) \/ Answered(l) \/ Cancelled(l) \/ Succeeds(l) \/ Fails(l) \/ FailsForGood(l)
           \/ Returns(l) \/ (l = "devices" /\ (Decide \/ Tell))
Ends == AnnounceOffline \/ Disconnect

Next == \/ Connect \/ Hook \/ WillFires
        \/ \E l \in Loop : Work(l)
        \/ Stop \/ Ends
        \/ Drop \/ TellLost \/ Crash \/ Restart \/ ConsoleChanges \/ DeviceMoves

\* The client reconnects, the broker notices, every goroutine is scheduled.
\* Nobody has to stop the process or start it again.
Fairness ==
    /\ WF_vars(Connect) /\ WF_vars(Hook) /\ WF_vars(WillFires)
    /\ \A l \in Loop : WF_vars(Work(l))
    /\ WF_vars(Ends)

Spec == Init /\ [][Next]_vars /\ Fairness

-----------------------------------------------------------------------------
(* What must hold.                                                         *)

\* Entities are not left unavailable: while the process runs connected and
\* the console answers, the level is 2 in the end, whatever order the
\* connect hook, the device loop and the broker's will took before.
OperationalAtLast ==
    <>[](phase = "running" /\ link /\ console = "up" /\ ~lost => marker = 2)

\* What the broker shows as up has a session behind it or a will that is due:
\* no order of the connect hook, the loops, the 0 of a stop and the
\* DISCONNECT leaves a level that nobody would take back (main.go:375-382).
NoStaleLevel == marker \in Level => link \/ owed

\* "The 0 written on the way out must not be preceded by a 1": once the
\* stop has begun the level falls from 2 to 1 only for a poll the console
\* itself failed.
QuietStop ==
    [][phase = "stopping" /\ marker = 2 /\ marker' = 1
         => job["devices"].answer \in {"failed", "denied"}]_vars

\* The page never shows a device that was not in the list the device loop
\* read last, whenever the statistics of one that left arrive.
NoGhost == [][page'.devices \ page.devices \subseteq job["devices"].list]_vars

\* A stop ends the process: no loop goes on, and none waits for another. And
\* however the process ended, by a stop or a kill, the broker says 0 in the
\* end, or nothing if it never heard of it: by disconnect, whose DISCONNECT
\* takes the will back, or by the will.
StopEnds ==
    /\ phase = "stopping" ~> phase = "ended"
    /\ <>[](phase = "ended" => marker \in {-1, 0})

\* "Only an unrecoverable condition - an invalid API key - aborts"
\* (coordinator.go:548): refuted, the classic layer's rejection reaches the
\* health loop and ends the run like the key's.
ClassicDegrades == [][phase = "running" /\ phase' = "stopping" => "health" \in live']_vars

\* `connected` is 1 while the console does not answer (coordinator.go:463):
\* refuted, the connect hook may have read the 2 just before the device
\* loop saw the console fail, and publishes it after.
UnreachableAtLast ==
    <>[](phase = "running" /\ link /\ console = "down" /\ ~lost => marker # 2)
=============================================================================
