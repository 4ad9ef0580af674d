------------------------------ MODULE Controls ------------------------------
(***************************************************************************)
(* The command channel and the way back: the queue and its serial executor *)
(* (internal/coordinator/command.go), the capability gate and the classic  *)
(* session it calls through (unifi/facade.go, unifi/classic/client.go),    *)
(* and the poll loops that a finished command nudges and that publish what *)
(* the console then says (coordinator.go, client.go, device.go).           *)
(*                                                                         *)
(* One object per kind of control. Its item carries the state the command  *)
(* changes; for "restart" that is the device's `online` item, and a        *)
(* restart puts it to FALSE. power_cycle and authorize take the same path  *)
(* as restart and have no item of their own.                               *)
(*                                                                         *)
(* A call may be lost on its way back: the console has acted and the       *)
(* transport either retries (a reset connection) or gives up (a timeout).  *)
(***************************************************************************)
EXTENDS Naturals, Sequences, Functions

CONSTANTS
    Control,       \* the controls CONTROLS.* enables
    Unread,        \* an item that has no value yet
    QueueSize,     \* commandQueueSize
    ExpiryStatus,  \* how the controller reports an expired session: a 401,
                   \* or a 200 with meta.rc = "error"
    MaxRequests,   \* bound: requests on the command topics
    MaxRetain,     \* bound: requests published with the retain flag
    MaxFlip,       \* bound: changes made at the console itself
    MaxFail,       \* bound: calls and publishes that fail
    MaxLost,       \* bound: answers that are lost
    MaxExpire,     \* bound: session expiries
    MaxEvents,     \* bound: the last five together
    MaxLogin       \* bound: logins that fail, after an expiry

ASSUME ControlAssumption ==
    /\ Control \subseteq {"locate", "blocked", "wlan", "restart"}
    /\ QueueSize \in Nat \ {0}
    /\ Unread \notin BOOLEAN
    /\ MaxRequests \in Nat
    /\ ExpiryStatus \subseteq {200, 401} /\ ExpiryStatus # {}

Loop == {"static", "clients", "devices"}
Caller == Loop \cup {"executor"}
ClassicControl == {"locate", "blocked", "wlan"}
Readback == {"port_power", "client_details"}
Capability == ClassicControl \cup Readback
NoCommand == [n |-> 0, outcome |-> "none"]

\* Mutant: the device loop is nudged for everything about a device.
Owner_Devices(k) == IF k = "blocked" THEN "clients" ELSE "devices"

\* The loop that owns an item, by scheduleRefresh.
Owner(k) ==
    CASE k = "blocked"            -> "clients"
      [] k = "restart"            -> "devices"
      [] k \in {"locate", "wlan"} -> "static"

\* The items a loop publishes, the call that reads them, the capability that
\* call is gated on.
Publishes(l) ==
    CASE l = "clients" -> {"blocked"}
      [] l = "devices" -> {"restart"}
      [] l = "static"  -> {"locate", "wlan"}
ReadbackOf(l) == IF l = "static" THEN "port_power" ELSE "client_details"
ClassicItem(l) == IF l = "static" THEN "locate" ELSE "blocked"

VARIABLES
    \* console
    truth,     \* what is really switched on
    session,   \* the controller accepts our session
    \* broker
    sent,      \* how many requests have been published
    retained,  \* those published with the retain flag
    shown,     \* the items' retained values
    \* daemon
    queue,     \* the buffered command channel
    running,   \* the command being executed, and what came of it
    nudge,     \* the buffered-1 nudge channels
    poll,      \* per loop: what it is doing and what it has read
    call,      \* per caller: where its classic call is
    degraded,  \* capabilities switched off
    loggedIn,  \* the classic client's belief
    \* history
    spent,     \* how much of each bound has been used
    applied,   \* how often the console carried a request out
    asked,     \* the controls a request has been executed for
    last,      \* per control, the last request the console carried out
    held       \* per item, the values it really had since it was last published

consoleVars == <<truth, session>>
brokerVars == <<sent, retained, shown>>
historyVars == <<spent, applied, asked, last, held>>
vars == <<consoleVars, brokerVars, queue, running, nudge, poll, call, degraded, loggedIn, historyVars>>

Bound == {"retain", "flip", "fail", "lost", "expire", "login"}
Request == 1..MaxRequests
Command == [n : Request, kind : Control, on : BOOLEAN]
Running == [n : Request, kind : Control, on : BOOLEAN, outcome : {"none", "executed", "failed"}]
PollState == [stage : {"idle", "classic", "wlans", "publish"},
              todo : SUBSET Control,             \* the items still to be published
              reading : [Control -> BOOLEAN]]
IdlePoll == [stage |-> "idle", todo |-> {}, reading |-> [k \in Control |-> FALSE]]

TypeOK ==
    /\ truth \in [Control -> BOOLEAN]
    /\ session \in BOOLEAN
    /\ sent \in 0..MaxRequests
    /\ retained \subseteq Command
    /\ shown \in [Control -> BOOLEAN \cup {Unread}]
    /\ queue \in Seq(Command) /\ Len(queue) <= QueueSize
    /\ running \in Running \cup {NoCommand}
    /\ nudge \in [Loop -> BOOLEAN]
    /\ poll \in [Loop -> PollState]
    /\ call \in [Caller -> {"none", "ensure", "request", "expired", "again"}]
    /\ degraded \subseteq Capability
    /\ loggedIn \in BOOLEAN
    /\ spent \in [Bound -> Nat]
    /\ applied \in [Request -> Nat]
    /\ asked \subseteq Control
    /\ last \in [Control -> [n : 0..MaxRequests, on : BOOLEAN]]
    /\ held \in [Control -> SUBSET BOOLEAN]

\* StartClassic has logged in, or has failed and switched every classic
\* capability off. The loops are about to make their first poll.
Init ==
    /\ truth \in {t \in [Control -> BOOLEAN] : "restart" \in Control => t["restart"]}
    /\ session \in BOOLEAN
    /\ loggedIn = session
    /\ degraded = IF session THEN {} ELSE Capability
    /\ sent = 0 /\ retained = {}
    /\ shown = [k \in Control |-> Unread]
    /\ queue = <<>>
    /\ running = NoCommand
    /\ nudge = [l \in Loop |-> FALSE]
    /\ poll = [l \in Loop |-> IdlePoll]
    /\ call = [x \in Caller |-> "none"]
    /\ spent = [b \in Bound |-> 0]
    /\ applied = [n \in Request |-> 0]
    /\ asked = {}
    /\ last = [k \in Control |-> [n |-> 0, on |-> truth[k]]]
    /\ held = [k \in Control |-> {truth[k]}]

Spend(b, max) ==
    /\ spent[b] < max
    /\ FoldFunction(+, 0, spent) < MaxEvents
    /\ spent' = [spent EXCEPT ![b] = @ + 1]
Has(c) == c \notin degraded

-----------------------------------------------------------------------------
(* Requests: onCommand parses and enqueues.                                *)

Enqueued(c) == Append(queue, c)

\* Mutant: the channel's capacity is not looked at.
Offer_Unbounded(c) == queue' = Enqueued(c)

\* Not when the queue is full: the request is dropped with a warning.
Offer(c) == queue' = IF Len(queue) < QueueSize THEN Enqueued(c) ELSE queue

\* Mutant: the retained flag is not looked at.
Replayed_Executed(c) == Offer(c)

\* A retained request is a replay, not a request.
Replayed(c) == UNCHANGED queue

\* Home Assistant, or somebody with a retain flag, publishes a request.
Publish ==
    /\ sent < MaxRequests
    /\ sent' = sent + 1
    /\ \E k \in Control, on \in BOOLEAN, retain \in BOOLEAN :
         LET c == [n |-> sent + 1, kind |-> k, on |-> on] IN
         /\ k = "restart" => ~on
         /\ IF retain
            THEN retained' = {r \in retained : r.kind # k} \cup {c} /\ Spend("retain", MaxRetain)
            ELSE UNCHANGED <<retained, spent>>
         /\ Offer(c)
    /\ UNCHANGED <<consoleVars, shown, running, nudge, poll, call, degraded, loggedIn,
                   applied, asked, last, held>>

\* On every (re)subscription the broker delivers the retained requests again.
Redeliver ==
    /\ \E c \in retained : Replayed(c)
    /\ UNCHANGED <<consoleVars, brokerVars, running, nudge, poll, call, degraded, loggedIn, historyVars>>

-----------------------------------------------------------------------------
(* The classic client's session: do, ensureSession, request.               *)

Ends(x) == call' = [call EXCEPT ![x] = "none"]

\* A call begins with ensureSession.
Begins(x) == call' = [call EXCEPT ![x] = IF loggedIn THEN "request" ELSE "ensure"]

LogsIn == session' = TRUE /\ loggedIn' = TRUE

\* ensureSession looks and logs in under one lock.
EnsureSession(x) ==
    /\ call[x] = "ensure"
    /\ IF loggedIn THEN UNCHANGED <<session, loggedIn>> ELSE LogsIn
    /\ call' = [call EXCEPT ![x] = "request"]
    /\ UNCHANGED <<truth, brokerVars, queue, running, nudge, poll, degraded, spent, applied, asked, last, held>>

\* The answer tells an expired session apart: a 401 always does, a 200 only
\* where the caller passed a body to look into - an actuator passes none.
Detected(x) == 401 \in ExpiryStatus \/ x # "executor"
Overlooked(x) == 200 \in ExpiryStatus /\ x = "executor"

\* Mutant: an expired session is an error like any other.
AfterExpiry_GivesUp == "again"

AfterExpiry == "expired"

\* The first request meets an expired session.
Expires(x) ==
    /\ call[x] = "request"
    /\ ~session
    /\ Detected(x)
    /\ call' = [call EXCEPT ![x] = AfterExpiry]
    /\ UNCHANGED <<consoleVars, brokerVars, queue, running, nudge, poll, degraded, loggedIn, historyVars>>

\* The login that follows, one caller at a time.
Relogin(x) ==
    /\ call[x] = "expired"
    /\ LogsIn
    /\ call' = [call EXCEPT ![x] = "again"]
    /\ UNCHANGED <<truth, brokerVars, queue, running, nudge, poll, degraded, spent, applied, asked, last, held>>

\* The caller's request is answered with data, or acknowledged.
Answered(x) == call[x] \in {"request", "again"} /\ session

LoginFails ==
    /\ spent["login"] < MaxLogin
    /\ spent' = [spent EXCEPT !["login"] = @ + 1]
    /\ loggedIn' = FALSE

\* The caller gets an error: refused, no answer, a login that fails, or a
\* session that is expired again.
Refused(x) ==
    \/ call[x] \in {"request", "again"} /\ Spend("fail", MaxFail) /\ UNCHANGED loggedIn
    \/ call[x] = "ensure" /\ ~loggedIn /\ LoginFails
    \/ call[x] = "expired" /\ LoginFails
    \/ call[x] = "again" /\ ~session /\ Detected(x) /\ UNCHANGED <<spent, loggedIn>>

-----------------------------------------------------------------------------
(* The executor.                                                           *)

Taken(c, outcome) == [n |-> c.n, kind |-> c.kind, on |-> c.on, outcome |-> outcome]

\* The call is over: it is logged, and the owning loop is nudged next.
Logged(outcome) == running' = [running EXCEPT !.outcome = outcome]
Calling == running # NoCommand /\ running.outcome = "none"

\* The next command is taken and its target looked up.
Take ==
    /\ running = NoCommand
    /\ queue # <<>>
    /\ queue' = Tail(queue)
    /\ running' = Taken(Head(queue), "none")
    /\ IF Head(queue).kind \in ClassicControl
       THEN Has(Head(queue).kind) /\ Begins("executor")
       ELSE UNCHANGED call
    /\ UNCHANGED <<consoleVars, brokerVars, nudge, poll, degraded, loggedIn, historyVars>>

\* dispatch ends before any call: the capability is not available, or the
\* object is not in the last snapshot.
TakeFails ==
    /\ running = NoCommand
    /\ queue # <<>>
    /\ queue' = Tail(queue)
    /\ running' = Taken(Head(queue), "failed")
    /\ \/ Head(queue).kind \in ClassicControl /\ ~Has(Head(queue).kind) /\ UNCHANGED spent
       \/ Head(queue).kind \notin ClassicControl /\ Spend("fail", MaxFail)
    /\ UNCHANGED <<consoleVars, brokerVars, nudge, poll, call, degraded, loggedIn,
                   applied, asked, last, held>>

Reaches == running.kind \in ClassicControl => Answered("executor")

Becomes(k, on) ==
    /\ truth' = [truth EXCEPT ![k] = on]
    /\ held' = [held EXCEPT ![k] = @ \cup {on}]

\* The console carries the command out.
Acts ==
    /\ Calling /\ Reaches
    /\ Becomes(running.kind, running.on)
    /\ applied' = [applied EXCEPT ![running.n] = @ + 1]
    /\ last' = [last EXCEPT ![running.kind] =
                  IF running.n >= @.n THEN [n |-> running.n, on |-> running.on] ELSE @]

\* Mutant: the item is published as requested, whatever the console answered.
ShownAfter_Optimistic == [shown EXCEPT ![running.kind] = running.on]

\* No optimistic state update.
ShownAfter == shown

CallSucceeds ==
    /\ Acts
    /\ Logged("executed")
    /\ Ends("executor")
    /\ UNCHANGED <<session, brokerVars, queue, nudge, poll, degraded, loggedIn, spent, asked>>

\* Mutant: the command is put back into the queue to be tried again.
Retried_Requeued ==
    /\ queue' = Append(queue, [n |-> running.n, kind |-> running.kind, on |-> running.on])
    /\ running' = NoCommand
    /\ Ends("executor")

\* The transport tries again within the call: nothing overtakes it.
Retried == UNCHANGED <<running, call, queue>>

\* The console has acted and its answer is lost: the transport tries again,
\* or it reports a timeout.
CallLost ==
    /\ Acts
    /\ Spend("lost", MaxLost)
    /\ \/ Retried
       \/ Logged("failed") /\ Ends("executor") /\ UNCHANGED queue
    /\ UNCHANGED <<session, brokerVars, nudge, poll, degraded, loggedIn, asked>>

CallFails ==
    /\ Calling
    /\ IF running.kind \in ClassicControl THEN Refused("executor")
       ELSE Spend("fail", MaxFail) /\ UNCHANGED loggedIn
    /\ Logged("failed")
    /\ Ends("executor")
    /\ shown' = ShownAfter
    /\ UNCHANGED <<consoleVars, sent, retained, queue, nudge, poll, degraded,
                   applied, asked, last, held>>

\* A 200 whose body nobody looks into passes for success.
CallIgnored ==
    /\ Calling
    /\ running.kind \in ClassicControl
    /\ call["executor"] \in {"request", "again"}
    /\ ~session /\ Overlooked("executor")
    /\ Logged("executed")
    /\ Ends("executor")
    /\ UNCHANGED <<consoleVars, brokerVars, queue, nudge, poll, degraded, loggedIn, historyVars>>

\* scheduleRefresh, whatever came of the command.
ScheduleRefresh ==
    /\ running.outcome # "none"
    /\ nudge' = [nudge EXCEPT ![Owner(running.kind)] = TRUE]
    /\ asked' = asked \cup {running.kind}
    /\ running' = NoCommand
    /\ UNCHANGED <<consoleVars, brokerVars, queue, poll, call, degraded, loggedIn,
                   spent, applied, last, held>>

-----------------------------------------------------------------------------
(* The loops.                                                              *)

Polling(l, stage, reading) ==
    poll' = [poll EXCEPT ![l] = [stage |-> stage, todo |-> @.todo, reading |-> reading]]
Gives(l, k, v) == [poll[l].reading EXCEPT ![k] = v]
Items(l) == Publishes(l) \cap Control

\* A nudge or a tick starts a poll with the official list, which decides
\* whether a device is online. What the classic layer adds to it is the zero
\* value unless it answers.
Poll(l, nudged) ==
    /\ poll[l].stage = "idle"
    /\ Items(l) # {}
    /\ IF nudged THEN nudge[l] /\ nudge' = [nudge EXCEPT ![l] = FALSE] ELSE UNCHANGED nudge
    /\ LET read == [k \in Control |-> k = "restart" /\ truth[k]]
           asks == l # "devices" /\ Has(ReadbackOf(l))
       IN
       /\ poll' = [poll EXCEPT ![l] =
             [stage |-> IF asks THEN "classic" ELSE IF l = "static" THEN "wlans" ELSE "publish",
              todo |-> Items(l), reading |-> read]]
       /\ IF asks THEN Begins(l) ELSE UNCHANGED call
    /\ UNCHANGED <<consoleVars, brokerVars, queue, running, degraded, loggedIn, historyVars>>

\* The official list fails: the poll is given up, the loop goes on.
PollFails(l, nudged) ==
    /\ poll[l].stage = "idle"
    /\ Items(l) # {}
    /\ IF nudged THEN nudge[l] /\ nudge' = [nudge EXCEPT ![l] = FALSE] ELSE UNCHANGED nudge
    /\ Spend("fail", MaxFail)
    /\ UNCHANGED <<consoleVars, brokerVars, queue, running, poll, call, degraded, loggedIn,
                   applied, asked, last, held>>

AfterClassic(l) == IF l = "static" THEN "wlans" ELSE "publish"

\* The classic answer enriches the list...
Enrich(l) ==
    /\ poll[l].stage = "classic"
    /\ Answered(l)
    /\ LET k == ClassicItem(l) IN
       Polling(l, AfterClassic(l), IF k \in Control THEN Gives(l, k, truth[k]) ELSE poll[l].reading)
    /\ Ends(l)
    /\ UNCHANGED <<consoleVars, brokerVars, queue, running, nudge, degraded, loggedIn, historyVars>>

\* ...and without it the poll goes on, the capability switched off.
Degrade(l) ==
    /\ poll[l].stage = "classic"
    /\ Refused(l)
    /\ degraded' = degraded \cup {ReadbackOf(l)}
    /\ Polling(l, AfterClassic(l), poll[l].reading)
    /\ Ends(l)
    /\ UNCHANGED <<consoleVars, brokerVars, queue, running, nudge, applied, asked, last, held>>

\* refreshStatic reads the networks and the SSIDs last.
ReadWLANs ==
    /\ poll["static"].stage = "wlans"
    /\ \/ /\ Polling("static", "publish",
                 IF "wlan" \in Control THEN Gives("static", "wlan", truth["wlan"]) ELSE poll["static"].reading)
          /\ UNCHANGED spent
       \/ poll' = [poll EXCEPT !["static"] = IdlePoll] /\ Spend("fail", MaxFail)
    /\ UNCHANGED <<consoleVars, brokerVars, queue, running, nudge, call, degraded, loggedIn,
                   applied, asked, last, held>>

\* The `blocked` and `locate` items are published where the switch is
\* announced, the others always.
Reported(k) == k \in {"locate", "blocked"} => Has(k)

\* The devices go before the SSIDs.
NextItem(l) == IF "locate" \in poll[l].todo THEN "locate" ELSE CHOOSE k \in poll[l].todo : TRUE

\* The items of the poll are published one by one; one that fails is tried
\* again with the next poll's reading.
PublishItem(l) ==
    /\ poll[l].stage = "publish"
    /\ LET k == NextItem(l)
           left == poll[l].todo \ {k}
       IN
       /\ \/ /\ Reported(k)
             /\ shown' = [shown EXCEPT ![k] = poll[l].reading[k]]
             /\ held' = [held EXCEPT ![k] = {truth[k]}]
             /\ UNCHANGED spent
          \/ ~Reported(k) /\ UNCHANGED <<shown, held, spent>>
          \/ Reported(k) /\ Spend("fail", MaxFail) /\ UNCHANGED <<shown, held>>
       /\ poll' = [poll EXCEPT ![l] =
             IF left = {} THEN IdlePoll ELSE [poll[l] EXCEPT !.todo = left]]
    /\ UNCHANGED <<consoleVars, sent, retained, queue, running, nudge, call, degraded, loggedIn,
                   applied, asked, last>>

-----------------------------------------------------------------------------
(* The console.                                                            *)

Flip ==
    /\ Spend("flip", MaxFlip)
    /\ \E k \in Control : Becomes(k, ~truth[k])
    /\ UNCHANGED <<session, brokerVars, queue, running, nudge, poll, call, degraded, loggedIn,
                   applied, asked, last>>

SessionExpires ==
    /\ session
    /\ Spend("expire", MaxExpire)
    /\ session' = FALSE
    /\ UNCHANGED <<truth, brokerVars, queue, running, nudge, poll, call, degraded, loggedIn,
                   applied, asked, last, held>>

Executor ==
    \/ Take \/ TakeFails \/ CallSucceeds \/ CallLost \/ CallFails \/ CallIgnored
    \/ ScheduleRefresh
    \/ EnsureSession("executor") \/ Expires("executor") \/ Relogin("executor")

PollStep(l) ==
    \/ EnsureSession(l) \/ Expires(l) \/ Relogin(l) \/ Enrich(l) \/ Degrade(l)
    \/ l = "static" /\ ReadWLANs
    \/ PublishItem(l)

Tick(l) == Poll(l, FALSE) \/ PollFails(l, FALSE)
Nudged(l) == Poll(l, TRUE) \/ PollFails(l, TRUE)

Next ==
    \/ Publish \/ Redeliver
    \/ Executor
    \/ \E l \in Loop : Tick(l) \/ Nudged(l) \/ PollStep(l)
    \/ Flip \/ SessionExpires

Spec == Init /\ [][Next]_vars

\* The executor serves its queue, a poll that has begun goes on, and a nudge
\* is taken.
PromptSpec ==
    /\ Spec
    /\ WF_vars(Executor)
    /\ \A l \in Loop : WF_vars(PollStep(l)) /\ WF_vars(Nudged(l))

-----------------------------------------------------------------------------
(* Properties.                                                             *)

\* The layer that supplies the item's reading is switched on.
Supplied(k) ==
    /\ Reported(k)
    /\ k = "locate" => Has("port_power")
    /\ k = "blocked" => Has("client_details")

\* An item only ever changes to a value the object has really had since the
\* item was last published: nothing is published because it was asked for,
\* and no poll publishes a reading older than the last (command.go:36-39).
NoOptimisticUpdate ==
    [][\A k \in Control :
         Supplied(k) /\ shown'[k] # shown[k] => shown'[k] \in held[k]]_vars

\* Not even without the layer that supplies the reading: it would be an
\* invented one (device.go:169-173).
NoInventedReading ==
    [][\A k \in Control : shown'[k] # shown[k] => shown'[k] \in held[k]]_vars

\* As long as no answer is lost, a press is carried out at most once, however
\* often the broker delivers it (command.go:30-34).
AtMostOnce == spent["lost"] = 0 => \A n \in Request : applied[n] <= 1

\* The console is as the last request it carried out said: neither the
\* queue nor a retry lets an earlier one overtake it.
LastCallWins == spent["flip"] = 0 => \A k \in Control : truth[k] = last[k].on

\* Towards those who publish requests the channel, the executor, the
\* transport's retries and the session behind them are a serial executor:
\* nothing is taken up out of order or twice, or takes effect after it was
\* given up, and no more waits than the channel holds (command.go:56-60,
\* 387-391).
Serial == INSTANCE SerialCommands WITH
    Capacity <- QueueSize,
    waiting  <- Range(queue),
    inHand   <- IF running = NoCommand THEN {}
                ELSE {[n |-> running.n, kind |-> running.kind, on |-> running.on]},
    open     <- Calling,
    doubt    <- spent["lost"] > 0
ImplementsSerial == Serial!Spec

\* An expired session alone neither fails a command nor costs a capability:
\* it is renewed and the call repeated (classic/client.go:243-248).
ExpiryHidden ==
    spent["fail"] + spent["lost"] + spent["login"] = 0 /\ spent["expire"] <= 1 =>
        /\ degraded \in {{}, Capability}
        /\ running.outcome = "failed" => running.kind \in degraded

\* After a command the item shows what the console says without waiting for
\* a tick (coordinator.go:649-652).
Quiet == spent["fail"] = 0 /\ spent["flip"] = 0
PromptReadBack ==
    <>[](Quiet =>
           \A k \in asked : Supplied(k) => shown[k] = truth[k])

\* A command that had no effect is reported as failed
\* (classic/client.go:333-337).
NoSilentFailure == running.outcome = "executed" => applied[running.n] > 0

=============================================================================
