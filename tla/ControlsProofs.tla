---------------------------- MODULE ControlsProofs ----------------------------
(***************************************************************************)
(* Theorems about Controls, for any subset of the controls, any queue size *)
(* and any number of requests, failures, lost answers and expiries.        *)
(***************************************************************************)
EXTENDS Controls, FiniteSetTheorems, TLAPS

-----------------------------------------------------------------------------
(* Type correctness.                                                       *)

\* A poll that has begun has items left, and they are those of its loop.
Working ==
    \A l \in Loop : /\ poll[l].todo \subseteq Items(l)
                    /\ poll[l].stage # "idle" => poll[l].todo # {}

Typed == TypeOK /\ Working

\* The bound b is used up by one, the others are as they were.
LEMMA SpendMoves ==
  ASSUME TypeOK, NEW b \in Bound, NEW max, Spend(b, max)
  PROVE  /\ spent' \in [Bound -> Nat]
         /\ spent'[b] = spent[b] + 1
         /\ \A a \in Bound \ {b} : spent'[a] = spent[a]
<1>1. spent' = [spent EXCEPT ![b] = @ + 1]
  BY Zenon DEF Spend
<1>2. QED
  BY <1>1 DEF TypeOK

LEMMA SpendTyped ==
  ASSUME TypeOK, (\E b \in Bound : \E max : Spend(b, max)) \/ UNCHANGED spent
  PROVE  spent' \in [Bound -> Nat]
  BY SpendMoves DEF TypeOK

LEMMA LoginFailsTyped ==
  ASSUME TypeOK, LoginFails
  PROVE  /\ loggedIn' = FALSE /\ spent' \in [Bound -> Nat]
         /\ spent'["login"] = spent["login"] + 1
         /\ \A a \in Bound \ {"login"} : spent'[a] = spent[a]
  BY DEF TypeOK, LoginFails, Bound

LEMMA RefusedTyped ==
  ASSUME TypeOK, NEW x \in Caller, Refused(x)
  PROVE  spent' \in [Bound -> Nat] /\ loggedIn' \in BOOLEAN
<1>1. CASE Spend("fail", MaxFail) /\ UNCHANGED loggedIn
  BY <1>1, SpendMoves DEF TypeOK, Bound
<1>2. CASE LoginFails
  BY <1>2, LoginFailsTyped
<1>3. CASE UNCHANGED <<spent, loggedIn>>
  BY <1>3 DEF TypeOK
<1>4. QED
  BY <1>1, <1>2, <1>3 DEF Refused

LEMMA CallerTyped == Loop \subseteq Caller /\ "executor" \in Caller
  BY DEF Caller

LEMMA CallTyped ==
  ASSUME TypeOK, NEW x, Begins(x) \/ Ends(x) \/ UNCHANGED call
  PROVE  call' \in [Caller -> {"none", "ensure", "request", "expired", "again"}]
  BY DEF TypeOK, Begins, Ends

\* A poll that moves on stays well typed, and keeps to its loop's items.
LEMMA PollTyped ==
  ASSUME Typed, NEW l \in Loop, NEW p \in PollState, poll' = [poll EXCEPT ![l] = p],
         p.todo \subseteq Items(l), p.stage # "idle" => p.todo # {}
  PROVE  poll' \in [Loop -> PollState] /\ Working'
  BY DEF Typed, TypeOK, Working, Items, Publishes

LEMMA IdlePollTyped == IdlePoll \in PollState /\ IdlePoll.todo = {} /\ IdlePoll.stage = "idle"
  BY DEF IdlePoll, PollState

\* The sessions change hands, nothing else.
LEMMA SessionTyped ==
  ASSUME Typed, NEW x \in Caller, EnsureSession(x) \/ Expires(x) \/ Relogin(x)
  PROVE  Typed'
<1>1. session' \in BOOLEAN /\ loggedIn' \in BOOLEAN
  BY DEF Typed, TypeOK, EnsureSession, Expires, Relogin, LogsIn, consoleVars
<1>2. call' \in [Caller -> {"none", "ensure", "request", "expired", "again"}]
  BY DEF Typed, TypeOK, EnsureSession, Expires, Relogin, AfterExpiry
<1>3. UNCHANGED <<truth, brokerVars, queue, running, nudge, poll, degraded, historyVars>>
  BY DEF EnsureSession, Expires, Relogin, consoleVars, historyVars
<1>4. QED
  BY <1>1, <1>2, <1>3 DEF Typed, TypeOK, Working, Items, brokerVars, historyVars

LEMMA PublishTyped == ASSUME Typed, Publish PROVE Typed'
<1>1. PICK k \in Control, on \in BOOLEAN, retain \in BOOLEAN :
        LET c == [n |-> sent + 1, kind |-> k, on |-> on] IN
        /\ IF retain
           THEN retained' = {r \in retained : r.kind # k} \cup {c} /\ Spend("retain", MaxRetain)
           ELSE UNCHANGED <<retained, spent>>
        /\ Offer(c)
  BY DEF Publish
<1> DEFINE c == [n |-> sent + 1, kind |-> k, on |-> on]
<1>2. sent' \in 0..MaxRequests /\ sent + 1 \in Request
  BY ControlAssumption DEF Typed, TypeOK, Publish, Request
<1>3. c \in Command
  BY <1>2 DEF Command
<1>4. retained' \subseteq Command
  BY <1>1, <1>3 DEF Typed, TypeOK
<1>5. queue' \in Seq(Command) /\ Len(queue') <= QueueSize
  BY <1>1, <1>3, ControlAssumption DEF Offer, Enqueued, Typed, TypeOK
<1>6. spent' \in [Bound -> Nat]
  BY <1>1, SpendMoves DEF Typed, TypeOK, Bound
<1>7. QED
  BY <1>2, <1>4, <1>5, <1>6 DEF Publish, Typed, TypeOK, Working, Items, consoleVars

LEMMA TakeTyped == ASSUME Typed, Take \/ TakeFails PROVE Typed'
<1>1. queue # <<>> /\ Head(queue) \in Command /\ Tail(queue) \in Seq(Command) /\ Len(Tail(queue)) <= QueueSize
  BY ControlAssumption DEF Typed, TypeOK, Take, TakeFails
<1>2. running' \in Running
  BY <1>1 DEF Take, TakeFails, Taken, Command, Running
<1>3. call' \in [Caller -> {"none", "ensure", "request", "expired", "again"}]
  BY CallTyped DEF Typed, TypeOK, Take, TakeFails
<1>4. spent' \in [Bound -> Nat]
  BY SpendMoves DEF Typed, TypeOK, Take, TakeFails, Bound, historyVars
<1>5. queue' = Tail(queue) /\ UNCHANGED <<consoleVars, brokerVars, nudge, poll, degraded, loggedIn, applied, asked, last, held>>
  BY DEF Take, TakeFails, historyVars
<1>6. QED
  BY <1>1, <1>2, <1>3, <1>4, <1>5 DEF Typed, TypeOK, Working, Items, consoleVars, brokerVars

LEMMA ActsTyped ==
  ASSUME TypeOK, Acts
  PROVE  /\ running \in Running
         /\ truth' \in [Control -> BOOLEAN] /\ held' \in [Control -> SUBSET BOOLEAN]
         /\ applied' \in [Request -> Nat]
         /\ last' \in [Control -> [n : 0..MaxRequests, on : BOOLEAN]]
<1>1. running \in Running /\ running.n \in Request /\ running.kind \in Control /\ running.on \in BOOLEAN
  BY DEF TypeOK, Acts, Calling, Running
<1>2. running.n \in 0..MaxRequests
  BY <1>1 DEF Request
<1>3. truth' \in [Control -> BOOLEAN] /\ held' \in [Control -> SUBSET BOOLEAN]
  BY <1>1 DEF TypeOK, Acts, Becomes
<1>4. applied' \in [Request -> Nat]
  BY <1>1 DEF TypeOK, Acts
<1>5. last' \in [Control -> [n : 0..MaxRequests, on : BOOLEAN]]
  BY <1>1, <1>2 DEF TypeOK, Acts
<1>6. QED
  BY <1>1, <1>3, <1>4, <1>5

\* The call is over: of the command, only its outcome changes.
LEMMA LoggedMoves ==
  ASSUME TypeOK, Calling, NEW outcome \in {"executed", "failed"}, Logged(outcome)
  PROVE  /\ running' \in Running /\ running \in Running
         /\ running'.n = running.n /\ running'.kind = running.kind /\ running'.on = running.on
         /\ running'.outcome = outcome
  BY DEF TypeOK, Calling, Logged, Running

LEMMA CallSucceedsTyped == ASSUME Typed, CallSucceeds PROVE Typed'
<1>1. Calling /\ Acts
  BY DEF CallSucceeds, Acts
<1>2. running' \in Running
  BY <1>1, LoggedMoves DEF CallSucceeds, Typed
<1>3. call' \in [Caller -> {"none", "ensure", "request", "expired", "again"}]
  BY CallTyped DEF CallSucceeds, Typed
<1>4. QED
  BY <1>1, <1>2, <1>3, ActsTyped DEF CallSucceeds, Typed, TypeOK, Working, Items, brokerVars

LEMMA CallLostTyped == ASSUME Typed, CallLost PROVE Typed'
<1>1. Calling /\ Acts
  BY DEF CallLost, Acts
<1>2. running' \in Running /\ queue' = queue
  BY <1>1, LoggedMoves, ActsTyped DEF CallLost, Retried, Typed
<1>3. call' \in [Caller -> {"none", "ensure", "request", "expired", "again"}]
  BY CallTyped DEF CallLost, Retried, Typed
<1>4. spent' \in [Bound -> Nat]
  BY SpendMoves DEF CallLost, Typed, Bound
<1>5. QED
  BY <1>1, <1>2, <1>3, <1>4, ActsTyped DEF CallLost, Typed, TypeOK, Working, Items, brokerVars

LEMMA CallFailsTyped == ASSUME Typed, CallFails PROVE Typed'
<1>1. running' \in Running
  BY LoggedMoves DEF CallFails, Typed
<1>2. call' \in [Caller -> {"none", "ensure", "request", "expired", "again"}]
  BY CallTyped DEF CallFails, Typed
<1>3. spent' \in [Bound -> Nat] /\ loggedIn' \in BOOLEAN
  BY RefusedTyped, SpendMoves, CallerTyped DEF CallFails, Typed, TypeOK, Bound
<1>4. QED
  BY <1>1, <1>2, <1>3 DEF CallFails, ShownAfter, Typed, TypeOK, Working, Items, consoleVars

LEMMA CallIgnoredTyped == ASSUME Typed, CallIgnored PROVE Typed'
<1>1. running' \in Running
  BY LoggedMoves DEF CallIgnored, Typed
<1>2. call' \in [Caller -> {"none", "ensure", "request", "expired", "again"}]
  BY CallTyped DEF CallIgnored, Typed
<1>3. QED
  BY <1>1, <1>2 DEF CallIgnored, Typed, TypeOK, Working, Items, consoleVars, brokerVars, historyVars

LEMMA ScheduleRefreshTyped == ASSUME Typed, ScheduleRefresh PROVE Typed'
<1>1. running.kind \in Control
  BY DEF ScheduleRefresh, Typed, TypeOK, Running, NoCommand
<1>2. Owner(running.kind) \in Loop
  BY <1>1, ControlAssumption DEF Owner, Loop
<1>3. QED
  BY <1>1, <1>2 DEF ScheduleRefresh, Typed, TypeOK, Working, Items, consoleVars, brokerVars

LEMMA PollsTyped ==
  ASSUME Typed, NEW l \in Loop, NEW nudged \in BOOLEAN, Poll(l, nudged) \/ PollFails(l, nudged)
  PROVE  Typed'
<1>1. nudge' \in [Loop -> BOOLEAN]
  BY DEF Poll, PollFails, Typed, TypeOK
<1>2. CASE Poll(l, nudged)
  <2> DEFINE read == [k \in Control |-> k = "restart" /\ truth[k]]
             asks == l # "devices" /\ Has(ReadbackOf(l))
             p == [stage |-> IF asks THEN "classic" ELSE IF l = "static" THEN "wlans" ELSE "publish",
                   todo |-> Items(l), reading |-> read]
  <2>1. poll' = [poll EXCEPT ![l] = p] /\ Items(l) # {}
    BY <1>2 DEF Poll
  <2>2. read \in [Control -> BOOLEAN]
    BY DEF Typed, TypeOK
  <2>3. p \in PollState /\ p.todo = Items(l)
    BY <2>2 DEF PollState, Items
  <2>4. poll' \in [Loop -> PollState] /\ Working'
    BY <2>1, <2>3, PollTyped
  <2>5. call' \in [Caller -> {"none", "ensure", "request", "expired", "again"}]
    BY <1>2, CallTyped DEF Poll, Typed
  <2>6. QED
    BY <1>1, <1>2, <2>4, <2>5 DEF Poll, Typed, TypeOK, consoleVars, brokerVars, historyVars
<1>3. CASE PollFails(l, nudged)
  <2>1. spent' \in [Bound -> Nat]
    BY <1>3, SpendMoves DEF PollFails, Typed, Bound
  <2>2. QED
    BY <1>1, <1>3, <2>1 DEF PollFails, Typed, TypeOK, Working, Items, consoleVars, brokerVars
<1>4. QED
  BY <1>2, <1>3

\* A poll passes to its next stage with what it has read.
LEMMA PollingTyped ==
  ASSUME Typed, NEW l \in Loop, poll[l].stage # "idle", NEW stage \in {"wlans", "publish"},
         NEW reading \in [Control -> BOOLEAN], Polling(l, stage, reading)
  PROVE  poll' \in [Loop -> PollState] /\ Working'
<1> DEFINE p == [stage |-> stage, todo |-> poll[l].todo, reading |-> reading]
<1>1. p \in PollState /\ p.todo \subseteq Items(l) /\ p.todo # {}
  BY DEF Typed, TypeOK, Working, PollState
<1>2. poll' = [poll EXCEPT ![l] = p]
  BY DEF Polling, Typed, TypeOK
<1>3. QED
  BY <1>1, <1>2, PollTyped

LEMMA ReadingTyped ==
  ASSUME Typed, NEW l \in Loop
  PROVE  /\ poll[l].reading \in [Control -> BOOLEAN]
         /\ \A k \in Control : Gives(l, k, truth[k]) \in [Control -> BOOLEAN]
  BY DEF Typed, TypeOK, PollState, Gives

LEMMA EnrichTyped == ASSUME Typed, NEW l \in Loop, Enrich(l) PROVE Typed'
<1>1. poll' \in [Loop -> PollState] /\ Working'
  BY PollingTyped, ReadingTyped DEF Enrich, AfterClassic
<1>2. call' \in [Caller -> {"none", "ensure", "request", "expired", "again"}]
  BY CallTyped DEF Enrich, Typed
<1>3. QED
  BY <1>1, <1>2 DEF Enrich, Typed, TypeOK, consoleVars, brokerVars, historyVars

LEMMA DegradeTyped == ASSUME Typed, NEW l \in Loop, Degrade(l) PROVE Typed'
<1>1. poll' \in [Loop -> PollState] /\ Working'
  BY PollingTyped, ReadingTyped DEF Degrade, AfterClassic
<1>2. call' \in [Caller -> {"none", "ensure", "request", "expired", "again"}]
  BY CallTyped DEF Degrade, Typed
<1>3. spent' \in [Bound -> Nat] /\ loggedIn' \in BOOLEAN
  BY RefusedTyped, CallerTyped DEF Degrade, Typed
<1>4. degraded' \subseteq Capability
  BY DEF Degrade, ReadbackOf, Capability, Readback, Typed, TypeOK
<1>5. QED
  BY <1>1, <1>2, <1>3, <1>4 DEF Degrade, Typed, TypeOK, consoleVars, brokerVars

LEMMA ReadWLANsTyped == ASSUME Typed, ReadWLANs PROVE Typed'
<1>1. "static" \in Loop
  BY DEF Loop
<1>2. poll' \in [Loop -> PollState] /\ Working'
  <2>1. CASE poll' = [poll EXCEPT !["static"] = IdlePoll]
    BY <1>1, <2>1, PollTyped, IdlePollTyped
  <2>2. CASE Polling("static", "publish",
               IF "wlan" \in Control THEN Gives("static", "wlan", truth["wlan"]) ELSE poll["static"].reading)
    BY <1>1, <2>2, PollingTyped, ReadingTyped DEF ReadWLANs
  <2>3. QED
    BY <2>1, <2>2 DEF ReadWLANs
<1>3. spent' \in [Bound -> Nat]
  BY SpendMoves DEF ReadWLANs, Typed, TypeOK, Bound
<1>4. QED
  BY <1>2, <1>3 DEF ReadWLANs, Typed, TypeOK, consoleVars, brokerVars

\* The item a poll publishes next is one of those it has left.
LEMMA NextItemTyped ==
  ASSUME Typed, NEW l \in Loop, poll[l].stage = "publish"
  PROVE  NextItem(l) \in poll[l].todo /\ NextItem(l) \in Control /\ NextItem(l) \in Items(l)
<1>1. poll[l].todo # {} /\ poll[l].todo \subseteq Items(l)
  BY DEF Typed, Working
<1>2. (CHOOSE k \in poll[l].todo : TRUE) \in poll[l].todo
  BY <1>1
<1>3. QED
  BY <1>1, <1>2 DEF NextItem, Items

LEMMA PublishItemMoves ==
  ASSUME Typed, NEW l \in Loop, PublishItem(l)
  PROVE  \E p \in PollState :
           /\ poll' = [poll EXCEPT ![l] = p]
           /\ p.todo \subseteq poll[l].todo \ {NextItem(l)}
           /\ p.stage # "idle" => p.todo # {} /\ p.stage = "publish" /\ p.reading = poll[l].reading
<1> DEFINE left == poll[l].todo \ {NextItem(l)}
           p == IF left = {} THEN IdlePoll ELSE [poll[l] EXCEPT !.todo = left]
<1>0. poll[l].stage = "publish" /\ poll[l] \in PollState
  BY DEF PublishItem, Typed, TypeOK
<1>1. poll' = [poll EXCEPT ![l] = p]
  BY DEF PublishItem
<1>2. p \in PollState
  BY <1>0, IdlePollTyped DEF PollState
<1>3. p.todo \subseteq poll[l].todo \ {NextItem(l)}
  BY <1>0, IdlePollTyped DEF PollState
<1>4. p.stage # "idle" => p.todo # {} /\ p.stage = "publish" /\ p.reading = poll[l].reading
  BY <1>0, IdlePollTyped DEF PollState
<1>5. QED
  BY <1>1, <1>2, <1>3, <1>4

LEMMA PublishItemTyped == ASSUME Typed, NEW l \in Loop, PublishItem(l) PROVE Typed'
<1>1. NextItem(l) \in Control /\ poll[l].reading[NextItem(l)] \in BOOLEAN
  BY NextItemTyped, ReadingTyped DEF PublishItem
<1>2. poll' \in [Loop -> PollState] /\ Working'
  BY PublishItemMoves, PollTyped DEF Typed, Working
<1>3. shown' \in [Control -> BOOLEAN \cup {Unread}]
  <2>1. shown' = shown \/ shown' = [shown EXCEPT ![NextItem(l)] = poll[l].reading[NextItem(l)]]
    BY DEF PublishItem
  <2>2. poll[l].reading[NextItem(l)] \in BOOLEAN \cup {Unread}
    BY <1>1
  <2>3. QED
    BY <2>1, <2>2, Zenon DEF Typed, TypeOK
<1>4. held' \in [Control -> SUBSET BOOLEAN]
  <2>1. held' = held \/ held' = [held EXCEPT ![NextItem(l)] = {truth[NextItem(l)]}]
    BY DEF PublishItem
  <2>2. {truth[NextItem(l)]} \in SUBSET BOOLEAN
    BY <1>1 DEF Typed, TypeOK
  <2>3. QED
    BY <2>1, <2>2 DEF Typed, TypeOK
<1>5. spent' \in [Bound -> Nat]
  BY SpendMoves DEF PublishItem, Typed, TypeOK, Bound
<1>6. QED
  BY <1>2, <1>3, <1>4, <1>5 DEF PublishItem, Typed, TypeOK, consoleVars

LEMMA ConsoleTyped == ASSUME Typed, Flip \/ SessionExpires PROVE Typed'
<1>1. spent' \in [Bound -> Nat]
  BY SpendMoves DEF Flip, SessionExpires, Typed, Bound
<1>2. truth' \in [Control -> BOOLEAN] /\ held' \in [Control -> SUBSET BOOLEAN] /\ session' \in BOOLEAN
  <2>1. CASE Flip
    <3>1. PICK k \in Control : Becomes(k, ~truth[k])
      BY <2>1 DEF Flip
    <3>2. held \in [Control -> SUBSET BOOLEAN] /\ truth \in [Control -> BOOLEAN]
      BY DEF Typed, TypeOK
    <3>3. held[k] \cup {~truth[k]} \in SUBSET BOOLEAN
      BY <3>2
    <3>4. truth' = [truth EXCEPT ![k] = ~truth[k]] /\ held' = [held EXCEPT ![k] = held[k] \cup {~truth[k]}]
      BY <3>1 DEF Becomes
    <3>5. QED
      BY <2>1, <3>2, <3>3, <3>4 DEF Flip, Typed, TypeOK
  <2>2. CASE SessionExpires
    BY <2>2 DEF SessionExpires, Typed, TypeOK
  <2>3. QED
    BY <2>1, <2>2
<1>3. QED
  BY <1>1, <1>2 DEF Flip, SessionExpires, Typed, TypeOK, Working, Items, brokerVars

LEMMA TypedStep == Typed /\ [Next]_vars => Typed'
<1> SUFFICES ASSUME Typed, [Next]_vars PROVE Typed'
  OBVIOUS
<1>1. CASE Publish \/ Flip \/ SessionExpires
  BY <1>1, PublishTyped, ConsoleTyped
<1>2. CASE Redeliver \/ UNCHANGED vars
  BY <1>2 DEF Redeliver, Replayed, vars, consoleVars, brokerVars, historyVars, Typed, TypeOK, Working, Items
<1>3. CASE Executor
  BY <1>3, CallerTyped, TakeTyped, CallSucceedsTyped, CallLostTyped, CallFailsTyped, CallIgnoredTyped,
     ScheduleRefreshTyped, SessionTyped DEF Executor
<1>4. ASSUME NEW l \in Loop, Tick(l) \/ Nudged(l) PROVE Typed'
  BY <1>4, PollsTyped DEF Tick, Nudged
<1>5. ASSUME NEW l \in Loop, PollStep(l) PROVE Typed'
  BY <1>5, CallerTyped, SessionTyped, EnrichTyped, DegradeTyped, ReadWLANsTyped, PublishItemTyped DEF PollStep
<1>6. QED
  BY <1>1, <1>2, <1>3, <1>4, <1>5 DEF Next

LEMMA InitTyped == Init => Typed
<1> SUFFICES ASSUME Init PROVE Typed
  OBVIOUS
<1>1. last \in [Control -> [n : 0..MaxRequests, on : BOOLEAN]]
  BY ControlAssumption DEF Init
<1>2. sent \in 0..MaxRequests /\ Len(queue) <= QueueSize /\ queue \in Seq(Command)
  BY ControlAssumption DEF Init
<1>3. poll \in [Loop -> PollState] /\ Working
  BY IdlePollTyped DEF Init, Working
<1>4. QED
  BY <1>1, <1>2, <1>3 DEF Init, Typed, TypeOK

LEMMA AlwaysTyped == Spec => []Typed
  BY InitTyped, TypedStep, PTL DEF Spec

\* Controls is type correct: the command channel never holds more than its
\* capacity, whoever publishes while the executor is busy.
THEOREM TypeCorrect == Spec => []TypeOK
  BY AlwaysTyped, PTL DEF Typed

-----------------------------------------------------------------------------
(* The order of the requests.                                              *)

\* No bound is ever given back.
SpentGrows == \A b \in Bound : spent'[b] >= spent[b]

LEMMA SpendGrows ==
  ASSUME TypeOK, (\E b \in Bound : \E max : Spend(b, max)) \/ LoginFails \/ UNCHANGED spent
  PROVE  SpentGrows
<1>0. \A b \in Bound : spent[b] \in Nat
  BY DEF TypeOK
<1>1. CASE \E b \in Bound : \E max : Spend(b, max)
  <2>1. PICK b \in Bound : \E max : Spend(b, max)
    BY <1>1
  <2>2. spent'[b] = spent[b] + 1 /\ \A a \in Bound \ {b} : spent'[a] = spent[a]
    BY <2>1, SpendMoves
  <2>3. QED
    BY <1>0, <2>2 DEF SpentGrows
<1>2. CASE LoginFails
  <2>1. spent'["login"] = spent["login"] + 1 /\ \A a \in Bound \ {"login"} : spent'[a] = spent[a]
    BY <1>2, LoginFailsTyped
  <2>2. QED
    BY <1>0, <2>1 DEF SpentGrows
<1>3. CASE UNCHANGED spent
  BY <1>3 DEF TypeOK, SpentGrows
<1>4. QED
  BY <1>1, <1>2, <1>3

LEMMA RefusedGrows ==
  ASSUME TypeOK, NEW x, Refused(x)
  PROVE  SpentGrows
  BY SpendGrows DEF Refused, Bound

\* What a step does to the requests, the queue and the console: one arrives,
\* the oldest is taken, the one taken is carried out, the console is changed
\* by hand, or nothing of that.
Arrives ==
    /\ sent' = sent + 1
    /\ \E c \in Command : c.n = sent + 1 /\ queue' \in {queue, Append(queue, c)}
    /\ queue' # queue => Len(queue) < QueueSize
    /\ UNCHANGED <<truth, running, last, applied>>

Starts ==
    /\ running = NoCommand
    /\ queue # <<>> /\ queue' = Tail(queue)
    /\ running' \in Running /\ running'.n = Head(queue).n
    /\ running'.kind = Head(queue).kind /\ running'.on = Head(queue).on
    /\ UNCHANGED <<truth, sent, last, applied>>

TakesEffect ==
    /\ Acts
    /\ running' \in Running /\ running'.n = running.n
    /\ running'.kind = running.kind /\ running'.on = running.on
    /\ running'.outcome = "none" => spent'["lost"] > 0
    /\ UNCHANGED <<sent, queue>>

ByHand ==
    /\ spent'["flip"] > 0
    /\ \E k \in Control : truth' = [truth EXCEPT ![k] = ~truth[k]]
    /\ UNCHANGED <<sent, queue, running, last, applied>>

NoEffect ==
    /\ \/ UNCHANGED running
       \/ running' = NoCommand /\ running.outcome # "none"
       \/ /\ Calling /\ running' \in Running /\ running'.outcome # "none"
          /\ running'.n = running.n /\ running'.kind = running.kind /\ running'.on = running.on
    /\ UNCHANGED <<truth, sent, queue, last, applied>>

Moves == Arrives \/ Starts \/ TakesEffect \/ ByHand \/ NoEffect

LEMMA PublishMoves == ASSUME Typed, Publish PROVE Moves /\ SpentGrows
<1>1. PICK k \in Control, on \in BOOLEAN, retain \in BOOLEAN :
        LET c == [n |-> sent + 1, kind |-> k, on |-> on] IN
        /\ retain => Spend("retain", MaxRetain)
        /\ ~retain => UNCHANGED spent
        /\ Offer(c)
  BY DEF Publish
<1> DEFINE c == [n |-> sent + 1, kind |-> k, on |-> on]
<1>2. c \in Command
  BY ControlAssumption DEF Typed, TypeOK, Publish, Request, Command
<1>3. queue' \in {queue, Append(queue, c)} /\ (queue' # queue => Len(queue) < QueueSize)
  BY <1>1 DEF Offer, Enqueued
<1>4. Arrives
  BY <1>2, <1>3 DEF Arrives, Publish, consoleVars
<1>5. SpentGrows
  BY <1>1, SpendGrows DEF Typed, Bound
<1>6. QED
  BY <1>4, <1>5 DEF Moves

LEMMA ExecutorMoves == ASSUME Typed, Executor PROVE Moves /\ SpentGrows
<1>1. CASE Take \/ TakeFails
  <2>1. queue # <<>> /\ Head(queue) \in Command
    BY <1>1 DEF Typed, TypeOK, Take, TakeFails
  <2>2. /\ running' \in Running /\ running'.n = Head(queue).n
        /\ running'.kind = Head(queue).kind /\ running'.on = Head(queue).on
    BY <1>1, <2>1 DEF Take, TakeFails, Taken, Command, Running
  <2>3. Starts
    BY <1>1, <2>2 DEF Starts, Take, TakeFails, consoleVars, brokerVars, historyVars
  <2>4. SpentGrows
    BY <1>1, SpendGrows DEF Typed, Take, TakeFails, Bound, historyVars
  <2>5. QED
    BY <2>3, <2>4 DEF Moves
<1>2. CASE CallSucceeds
  <2>1. Calling
    BY <1>2 DEF CallSucceeds, Acts
  <2>2. TakesEffect
    BY <1>2, <2>1, LoggedMoves DEF CallSucceeds, Typed, TakesEffect, brokerVars
  <2>3. SpentGrows
    BY <1>2, SpendGrows DEF CallSucceeds, Typed
  <2>4. QED
    BY <2>2, <2>3 DEF Moves
<1>3. CASE CallLost
  <2>1. Calling /\ running \in Running
    BY <1>3, ActsTyped DEF CallLost, Acts, Typed
  <2>2. spent'["lost"] > 0
    BY <1>3, SpendMoves DEF CallLost, Typed, TypeOK, Bound
  <2>3. /\ running' \in Running /\ running'.n = running.n
        /\ running'.kind = running.kind /\ running'.on = running.on
    BY <1>3, <2>1, LoggedMoves DEF CallLost, Retried, Typed
  <2>4. TakesEffect
    BY <1>3, <2>2, <2>3 DEF CallLost, Retried, TakesEffect, brokerVars
  <2>5. SpentGrows
    BY <1>3, SpendGrows DEF CallLost, Typed, Bound
  <2>6. QED
    BY <2>4, <2>5 DEF Moves
<1>4. CASE CallFails \/ CallIgnored
  <2>1. /\ Calling /\ running' \in Running /\ running'.outcome # "none"
        /\ running'.n = running.n /\ running'.kind = running.kind /\ running'.on = running.on
    BY <1>4, LoggedMoves DEF CallFails, CallIgnored, Typed
  <2>2. NoEffect
    BY <1>4, <2>1 DEF NoEffect, CallFails, CallIgnored, consoleVars, brokerVars, historyVars
  <2>3. SpentGrows
    BY <1>4, SpendGrows, RefusedGrows DEF CallFails, CallIgnored, Typed, historyVars, Bound
  <2>4. QED
    BY <2>2, <2>3 DEF Moves
<1>5. CASE ScheduleRefresh \/ EnsureSession("executor") \/ Expires("executor") \/ Relogin("executor")
  <2>1. NoEffect
    BY <1>5 DEF NoEffect, ScheduleRefresh, EnsureSession, Expires, Relogin, consoleVars, brokerVars, historyVars
  <2>2. SpentGrows
    BY <1>5, SpendGrows DEF ScheduleRefresh, EnsureSession, Expires, Relogin, historyVars, Typed
  <2>3. QED
    BY <2>1, <2>2 DEF Moves
<1>6. QED
  BY <1>1, <1>2, <1>3, <1>4, <1>5 DEF Executor

LEMMA PollMoves ==
  ASSUME Typed, NEW l \in Loop, Tick(l) \/ Nudged(l) \/ PollStep(l)
  PROVE  NoEffect /\ SpentGrows
<1>1. CASE Tick(l) \/ Nudged(l)
  <2>1. NoEffect
    BY <1>1 DEF Tick, Nudged, Poll, PollFails, NoEffect, consoleVars, brokerVars, historyVars
  <2>2. SpentGrows
    BY <1>1, SpendGrows DEF Tick, Nudged, Poll, PollFails, historyVars, Typed, Bound
  <2>3. QED
    BY <2>1, <2>2
<1>2. CASE EnsureSession(l) \/ Expires(l) \/ Relogin(l) \/ Enrich(l)
  <2>1. NoEffect
    BY <1>2 DEF NoEffect, EnsureSession, Expires, Relogin, Enrich, consoleVars, brokerVars, historyVars
  <2>2. SpentGrows
    BY <1>2, SpendGrows DEF EnsureSession, Expires, Relogin, Enrich, historyVars, Typed
  <2>3. QED
    BY <2>1, <2>2
<1>3. CASE Degrade(l)
  BY <1>3, RefusedGrows DEF NoEffect, Degrade, consoleVars, brokerVars, Typed
<1>4. CASE ReadWLANs \/ PublishItem(l)
  <2>1. NoEffect
    BY <1>4 DEF NoEffect, ReadWLANs, PublishItem, consoleVars, brokerVars
  <2>2. SpentGrows
    BY <1>4, SpendGrows DEF ReadWLANs, PublishItem, Typed, Bound
  <2>3. QED
    BY <2>1, <2>2
<1>5. QED
  BY <1>1, <1>2, <1>3, <1>4 DEF PollStep

LEMMA StepMoves == ASSUME Typed, [Next]_vars PROVE Moves /\ SpentGrows
<1>1. CASE Flip
  <2>1. spent'["flip"] > 0
    BY <1>1, SpendMoves DEF Flip, Typed, TypeOK, Bound
  <2>2. ByHand
    BY <1>1, <2>1 DEF Flip, Becomes, ByHand, brokerVars
  <2>3. SpentGrows
    BY <1>1, SpendGrows DEF Flip, Typed, Bound
  <2>4. QED
    BY <2>2, <2>3 DEF Moves
<1>2. CASE SessionExpires \/ Redeliver \/ UNCHANGED vars
  <2>1. NoEffect
    BY <1>2 DEF NoEffect, SessionExpires, Redeliver, Replayed, vars, consoleVars, brokerVars, historyVars
  <2>2. SpentGrows
    BY <1>2, SpendGrows DEF SessionExpires, Redeliver, vars, historyVars, Typed, Bound
  <2>3. QED
    BY <2>1, <2>2 DEF Moves
<1>3. QED
  BY <1>1, <1>2, PublishMoves, ExecutorMoves, PollMoves DEF Next, Moves

\* Everything in the queue was requested after n.
Ahead(n) == \A i \in 1..Len(queue) : n < queue[i].n

\* The queue is in the order of the requests, the running command is older
\* than all of it, and what was carried out last is no younger than that.
QueueInOrder == \A i, j \in 1..Len(queue) : i < j => queue[i].n < queue[j].n
QueueSent == \A i \in 1..Len(queue) : queue[i].n <= sent
RunningInOrder == running # NoCommand => running.n <= sent /\ Ahead(running.n)
LastInOrder ==
    \A k \in Control : /\ last[k].n <= sent /\ Ahead(last[k].n)
                       /\ running # NoCommand => last[k].n <= running.n
InOrder == QueueInOrder /\ QueueSent /\ RunningInOrder /\ LastInOrder

LEMMA NumbersTyped ==
  ASSUME TypeOK
  PROVE  /\ sent \in Nat /\ queue \in Seq(Command) /\ Len(queue) \in Nat
         /\ \A i \in 1..Len(queue) : queue[i] \in Command /\ queue[i].n \in Nat
         /\ \A k \in Control : last[k].n \in Nat
         /\ running # NoCommand => running \in Running /\ running.n \in Nat
<1>1. sent \in Nat /\ queue \in Seq(Command) /\ Len(queue) \in Nat
  BY DEF TypeOK
<1>2. \A i \in 1..Len(queue) : queue[i] \in Command /\ queue[i].n \in Nat
  <2>1. \A i \in 1..Len(queue) : queue[i] \in Command
    BY <1>1
  <2>2. \A c \in Command : c.n \in Nat
    BY DEF Command, Request
  <2>3. QED
    BY <2>1, <2>2
<1>3. \A k \in Control : last[k].n \in Nat
  BY DEF TypeOK
<1>4. running # NoCommand => running \in Running /\ running.n \in Nat
  BY DEF TypeOK, Running, Request
<1>5. QED
  BY <1>1, <1>2, <1>3, <1>4

LEMMA RunningIsCommand == \A r \in Running : r # NoCommand /\ r.n \in Request /\ r.n # 0
  BY DEF Running, NoCommand, Request

LEMMA ArrivesInOrder == ASSUME TypeOK, InOrder, Arrives PROVE InOrder'
<1>1. PICK c \in Command : c.n = sent + 1 /\ queue' \in {queue, Append(queue, c)}
  BY DEF Arrives
<1>2. sent' = sent + 1 /\ running' = running /\ last' = last
  BY DEF Arrives
<1>3. CASE queue' = queue
  BY <1>2, <1>3, NumbersTyped
     DEF InOrder, QueueInOrder, QueueSent, RunningInOrder, LastInOrder, Ahead
<1>4. CASE queue' = Append(queue, c)
  <2>1. /\ Len(queue') = Len(queue) + 1
        /\ \A i \in 1..Len(queue) : queue'[i] = queue[i]
        /\ queue'[Len(queue) + 1] = c
    BY <1>4, NumbersTyped
  <2>2. \A i \in 1..Len(queue') : i \in 1..Len(queue) \/ i = Len(queue) + 1
    BY <2>1, NumbersTyped
  <2>3. QueueSent' /\ QueueInOrder'
    <3>1. /\ \A i \in 1..Len(queue) : queue[i].n \in Nat /\ queue[i].n <= sent
          /\ \A i, j \in 1..Len(queue) : i < j => queue[i].n < queue[j].n
          /\ sent \in Nat /\ Len(queue) \in Nat
      BY NumbersTyped DEF InOrder, QueueSent, QueueInOrder
    <3>2. \A i \in 1..Len(queue') : queue'[i].n <= sent + 1
      BY <1>1, <2>1, <2>2, <3>1
    <3>3. ASSUME NEW i \in 1..Len(queue'), NEW j \in 1..Len(queue'), i < j
          PROVE  queue'[i].n < queue'[j].n
      <4>1. i \in 1..Len(queue)
        BY <2>1, <2>2, <3>1, <3>3
      <4>2. CASE j \in 1..Len(queue)
        BY <2>1, <3>1, <3>3, <4>1, <4>2
      <4>3. CASE j = Len(queue) + 1
        BY <1>1, <2>1, <3>1, <4>1, <4>3
      <4>4. QED
        BY <2>2, <4>2, <4>3
    <3>4. QED
      BY <1>2, <3>2, <3>3 DEF QueueSent, QueueInOrder
  <2>4. \A n \in Nat : n <= sent /\ Ahead(n) => Ahead(n)'
    BY <1>1, <2>1, <2>2, NumbersTyped DEF Ahead
  <2>5. RunningInOrder'
    BY <1>2, <2>4, NumbersTyped DEF InOrder, RunningInOrder
  <2>6. LastInOrder'
    BY <1>2, <2>4, NumbersTyped DEF InOrder, LastInOrder
  <2>7. QED
    BY <2>3, <2>5, <2>6 DEF InOrder
<1>5. QED
  BY <1>1, <1>3, <1>4

LEMMA TailTyped ==
  ASSUME TypeOK, queue # <<>>, queue' = Tail(queue)
  PROVE  /\ 1 \in 1..Len(queue) /\ Head(queue) = queue[1]
         /\ \A i \in 1..Len(queue') : i + 1 \in 1..Len(queue) /\ queue'[i] = queue[i + 1]
  BY NumbersTyped

LEMMA StartsInOrder == ASSUME TypeOK, InOrder, Starts PROVE InOrder'
<1>1. /\ 1 \in 1..Len(queue) /\ running'.n = queue[1].n /\ running' # NoCommand
      /\ \A i \in 1..Len(queue') : i + 1 \in 1..Len(queue) /\ queue'[i] = queue[i + 1]
      /\ UNCHANGED <<sent, last>>
  BY TailTyped, RunningIsCommand DEF Starts
<1>2. QueueSent' /\ QueueInOrder'
  <2>1. QueueSent'
    BY <1>1 DEF InOrder, QueueSent
  <2>2. ASSUME NEW i \in 1..Len(queue'), NEW j \in 1..Len(queue'), i < j
        PROVE  queue'[i].n < queue'[j].n
    <3>1. i + 1 \in 1..Len(queue) /\ j + 1 \in 1..Len(queue) /\ i + 1 < j + 1
      BY <1>1, <2>2
    <3>2. queue[i + 1].n < queue[j + 1].n
      BY <3>1 DEF InOrder, QueueInOrder
    <3>3. QED
      BY <1>1, <3>2
  <2>3. QED
    BY <2>1, <2>2 DEF QueueInOrder
<1>3. RunningInOrder'
  BY <1>1, NumbersTyped DEF InOrder, RunningInOrder, QueueSent, QueueInOrder, Ahead
<1>4. LastInOrder'
  BY <1>1, NumbersTyped DEF InOrder, LastInOrder, Ahead
<1>5. QED
  BY <1>2, <1>3, <1>4 DEF InOrder

\* The running command is no older than what was carried out before it: it
\* becomes the last of its control.
LEMMA TakesEffectMoves ==
  ASSUME TypeOK, InOrder, TakesEffect
  PROVE  /\ running # NoCommand /\ running' # NoCommand /\ running.kind \in Control
         /\ running.n \in Request
         /\ last' = [last EXCEPT ![running.kind] = [n |-> running.n, on |-> running.on]]
         /\ truth' = [truth EXCEPT ![running.kind] = running.on]
         /\ applied' = [applied EXCEPT ![running.n] = @ + 1]
         /\ UNCHANGED <<sent, queue>> /\ running'.n = running.n
<1>1. Acts /\ running \in Running /\ running' # NoCommand /\ running # NoCommand
  BY ActsTyped, RunningIsCommand DEF TakesEffect, Calling
<1>2. running.kind \in Control /\ running.n \in Request
  BY <1>1 DEF Running
<1>3. running.n >= last[running.kind].n
  BY <1>1, <1>2, NumbersTyped DEF InOrder, LastInOrder
<1>4. last' = [last EXCEPT ![running.kind] = [n |-> running.n, on |-> running.on]]
  BY <1>1, <1>3 DEF Acts
<1>5. QED
  BY <1>1, <1>2, <1>4 DEF TakesEffect, Acts, Becomes

LEMMA TakesEffectInOrder == ASSUME TypeOK, InOrder, TakesEffect PROVE InOrder'
<1>1. \A k \in Control : last'[k].n = last[k].n \/ last'[k].n = running.n
  <2>1. last \in [Control -> [n : 0..MaxRequests, on : BOOLEAN]]
    BY DEF TypeOK
  <2>2. last' = [last EXCEPT ![running.kind] = [n |-> running.n, on |-> running.on]]
    BY TakesEffectMoves
  <2>3. QED
    BY <2>1, <2>2
<1>2. UNCHANGED <<sent, queue>> /\ running'.n = running.n /\ running # NoCommand /\ running' # NoCommand
  BY TakesEffectMoves
<1>3. QueueSent' /\ QueueInOrder' /\ RunningInOrder'
  BY <1>2 DEF InOrder, QueueSent, QueueInOrder, RunningInOrder, Ahead
<1>4. \A k \in Control : last'[k].n <= sent /\ Ahead(last'[k].n) /\ last'[k].n <= running.n
  BY <1>1, <1>2, NumbersTyped DEF InOrder, LastInOrder, RunningInOrder
<1>5. LastInOrder'
  BY <1>2, <1>4 DEF LastInOrder, Ahead
<1>6. QED
  BY <1>3, <1>5 DEF InOrder

LEMMA InOrderStep == ASSUME Typed, InOrder, [Next]_vars PROVE InOrder'
<1>1. TypeOK /\ Moves
  BY StepMoves DEF Typed
<1>2. CASE ByHand
  BY <1>2 DEF ByHand, InOrder, QueueSent, QueueInOrder, RunningInOrder, LastInOrder, Ahead
<1>3. CASE NoEffect
  <2>1. UNCHANGED <<sent, queue, last>> /\ (running' # NoCommand => running # NoCommand /\ running'.n = running.n)
    BY <1>3, RunningIsCommand DEF NoEffect, Calling
  <2>2. QED
    BY <2>1 DEF InOrder, QueueSent, QueueInOrder, RunningInOrder, LastInOrder, Ahead
<1>4. QED
  BY <1>1, <1>2, <1>3, ArrivesInOrder, StartsInOrder, TakesEffectInOrder DEF Moves

LEMMA LastCallWinsStep == ASSUME Typed, InOrder, LastCallWins, [Next]_vars PROVE LastCallWins'
<1>1. TypeOK /\ Moves /\ SpentGrows
  BY StepMoves DEF Typed
<1> SUFFICES ASSUME spent'["flip"] = 0 PROVE \A k \in Control : truth'[k] = last'[k].on
  BY DEF LastCallWins
<1>2. spent["flip"] = 0
  BY <1>1 DEF SpentGrows, Bound, TypeOK
<1>3. CASE TakesEffect
  <2>1. last \in [Control -> [n : 0..MaxRequests, on : BOOLEAN]] /\ truth \in [Control -> BOOLEAN]
    BY <1>1 DEF TypeOK
  <2>2. /\ last' = [last EXCEPT ![running.kind] = [n |-> running.n, on |-> running.on]]
        /\ truth' = [truth EXCEPT ![running.kind] = running.on]
    BY <1>1, <1>3, TakesEffectMoves
  <2>3. \A k \in Control : truth[k] = last[k].on
    BY <1>2 DEF LastCallWins
  <2>4. QED
    BY <2>1, <2>2, <2>3
<1>4. CASE UNCHANGED <<truth, last>>
  BY <1>2, <1>4 DEF LastCallWins
<1>5. QED
  BY <1>1, <1>3, <1>4 DEF Moves, Arrives, Starts, ByHand, NoEffect

\* The console is as the last request it carried out said, however requests,
\* lost answers and repeated calls interleave: the queue and the executor
\* keep their order, and a repetition stays inside its call.
THEOREM TheLastCallWins == Spec => []LastCallWins
<1>1. Init => InOrder /\ LastCallWins
  BY DEF Init, InOrder, QueueInOrder, QueueSent, RunningInOrder, LastInOrder, LastCallWins, Ahead
<1>2. Typed /\ InOrder /\ LastCallWins /\ [Next]_vars => (InOrder /\ LastCallWins)'
  BY InOrderStep, LastCallWinsStep
<1>3. QED
  BY <1>1, <1>2, AlwaysTyped, PTL DEF Spec

-----------------------------------------------------------------------------
(* At most once.                                                           *)

\* While no answer has been lost, what has not been carried out yet is what
\* has not been requested, what waits, and what is being called.
NotYet ==
    spent["lost"] = 0 =>
        /\ \A n \in Request : applied[n] <= 1 /\ (n > sent => applied[n] = 0)
        /\ \A i \in 1..Len(queue) : applied[queue[i].n] = 0
        /\ Calling => applied[running.n] = 0

LEMMA NotYetStep == ASSUME Typed, InOrder, NotYet, [Next]_vars PROVE NotYet'
<1>1. TypeOK /\ Moves /\ SpentGrows
  BY StepMoves DEF Typed
<1> SUFFICES ASSUME spent'["lost"] = 0
             PROVE  /\ \A n \in Request : applied'[n] <= 1 /\ (n > sent' => applied'[n] = 0)
                    /\ \A i \in 1..Len(queue') : applied'[queue'[i].n] = 0
                    /\ Calling' => applied'[running'.n] = 0
  BY DEF NotYet
<1>2. spent["lost"] = 0
  BY <1>1 DEF SpentGrows, Bound, TypeOK
<1>3. /\ \A n \in Request : applied[n] <= 1 /\ (n > sent => applied[n] = 0)
      /\ \A i \in 1..Len(queue) : applied[queue[i].n] = 0
      /\ Calling => applied[running.n] = 0
  BY <1>2 DEF NotYet
<1>4. CASE Arrives
  <2>1. PICK c \in Command : c.n = sent + 1 /\ queue' \in {queue, Append(queue, c)}
    BY <1>4 DEF Arrives
  <2>2. sent + 1 \in Request /\ applied[sent + 1] = 0
    BY <1>1, <1>3, <2>1, NumbersTyped DEF Command
  <2>3. \A i \in 1..Len(queue') : applied[queue'[i].n] = 0
    <3>1. CASE queue' = queue
      BY <1>3, <3>1
    <3>2. CASE queue' = Append(queue, c)
      <4>1. \A i \in 1..Len(queue') : IF i \in 1..Len(queue) THEN queue'[i] = queue[i] ELSE queue'[i] = c
        BY <1>1, <3>2, NumbersTyped
      <4>2. QED
        BY <1>3, <2>1, <2>2, <4>1
    <3>3. QED
      BY <2>1, <3>1, <3>2
  <2>4. UNCHANGED <<applied, running>> /\ sent' = sent + 1
    BY <1>4 DEF Arrives
  <2>5. QED
    BY <1>1, <1>3, <2>3, <2>4, NumbersTyped DEF Calling, Request
<1>5. CASE Starts
  <2>1. /\ 1 \in 1..Len(queue) /\ running'.n = queue[1].n
        /\ \A i \in 1..Len(queue') : i + 1 \in 1..Len(queue) /\ queue'[i] = queue[i + 1]
    BY <1>1, <1>5, TailTyped DEF Starts
  <2>2. UNCHANGED <<applied, sent>>
    BY <1>5 DEF Starts
  <2>3. QED
    BY <1>3, <2>1, <2>2
<1>6. CASE TakesEffect
  <2>1. Calling /\ ~Calling'
    BY <1>6 DEF TakesEffect, Acts, Calling
  <2>2. /\ running.n \in Request /\ applied' = [applied EXCEPT ![running.n] = @ + 1]
        /\ UNCHANGED <<sent, queue>> /\ running # NoCommand
    BY <1>1, <1>6, TakesEffectMoves
  <2>3. applied[running.n] = 0 /\ running.n <= sent /\ Ahead(running.n)
    BY <1>3, <2>1, <2>2 DEF InOrder, RunningInOrder
  <2>4. \A n \in Request : applied'[n] = IF n = running.n THEN 1 ELSE applied[n]
    BY <1>1, <2>2, <2>3 DEF TypeOK
  <2>5. \A n \in Request : applied'[n] <= 1 /\ (n > sent' => applied'[n] = 0)
    BY <1>1, <1>3, <2>2, <2>3, <2>4, NumbersTyped DEF Request
  <2>6. \A i \in 1..Len(queue') : queue[i].n \in Request /\ queue[i].n # running.n
    BY <1>1, <2>2, <2>3, NumbersTyped DEF Ahead, Command
  <2>7. \A i \in 1..Len(queue') : applied'[queue'[i].n] = 0
    BY <1>3, <2>2, <2>4, <2>6
  <2>8. QED
    BY <2>1, <2>5, <2>7
<1>7. CASE ByHand \/ NoEffect
  <2>1. UNCHANGED <<sent, queue, applied>> /\ (Calling' => UNCHANGED running)
    BY <1>7 DEF ByHand, NoEffect, Calling
  <2>2. QED
    BY <1>3, <2>1 DEF Calling
<1>8. QED
  BY <1>1, <1>4, <1>5, <1>6, <1>7 DEF Moves

\* A press is carried out at most once while no answer is lost, however often
\* the broker delivers a retained request and whatever the calls meet.
THEOREM CarriedOutOnce == Spec => []AtMostOnce
<1>1. Init => InOrder /\ NotYet
  BY DEF Init, InOrder, QueueInOrder, QueueSent, RunningInOrder, LastInOrder, NotYet, Ahead, Calling
<1>2. Typed /\ InOrder /\ NotYet /\ [Next]_vars => (InOrder /\ NotYet)'
  BY InOrderStep, NotYetStep
<1>3. InOrder /\ NotYet => AtMostOnce
  BY DEF NotYet, AtMostOnce
<1>4. QED
  BY <1>1, <1>2, <1>3, AlwaysTyped, PTL DEF Spec

-----------------------------------------------------------------------------
(* The channel is a serial executor.                                       *)

\* What the abstract executor has waiting and in hand.
Waiting == Range(queue)
InHand ==
    IF running = NoCommand THEN {}
    ELSE {[n |-> running.n, kind |-> running.kind, on |-> running.on]}

LEMMA RangeIs ==
  ASSUME NEW q \in Seq(Command)
  PROVE  /\ \A i \in 1..Len(q) : q[i] \in Range(q)
         /\ \A c \in Range(q) : \E i \in 1..Len(q) : c = q[i]
<1>1. DOMAIN q = 1..Len(q)
  OBVIOUS
<1>2. QED
  BY <1>1 DEF Range

LEMMA WaitingIs ==
  ASSUME TypeOK
  PROVE  /\ \A i \in 1..Len(queue) : queue[i] \in Waiting
         /\ \A c \in Waiting : \E i \in 1..Len(queue) : c = queue[i]
  BY NumbersTyped, RangeIs DEF Waiting

LEMMA WaitingNext ==
  ASSUME TypeOK'
  PROVE  /\ \A i \in 1..Len(queue') : queue'[i] \in Waiting'
         /\ \A c \in Waiting' : \E i \in 1..Len(queue') : c = queue'[i]
<1>1. queue' \in Seq(Command)
  BY DEF TypeOK
<1>2. QED
  BY <1>1, RangeIs DEF Waiting

\* A channel with room is one with fewer requests than its capacity.
LEMMA RoomToWait ==
  ASSUME TypeOK, Len(queue) < QueueSize
  PROVE  Cardinality(Waiting) < QueueSize
<1> DEFINE n == Len(queue)
           f == [i \in 1..n |-> queue[i]]
<1>1. n \in Nat /\ IsFiniteSet(1..n) /\ Cardinality(1..n) = n
  <2>1. n \in Nat
    BY NumbersTyped
  <2> HIDE DEF n
  <2>2. IsFiniteSet(1..n) /\ Cardinality(1..n) = IF 1 > n THEN 0 ELSE n - 1 + 1
    BY <2>1, FS_Interval
  <2>3. QED
    BY <2>1, <2>2
<1>2. f \in Surjection(1..n, Waiting)
  BY WaitingIs DEF Surjection
<1>3. IsFiniteSet(Waiting) /\ Cardinality(Waiting) <= n
  BY <1>1, <1>2, FS_Surjection
<1>4. Cardinality(Waiting) \in Nat
  BY <1>3, FS_CardinalityType
<1>5. QED
  BY <1>1, <1>3, <1>4, ControlAssumption

LEMMA WaitingGrows ==
  ASSUME Typed, [Next]_vars, NEW c \in Command, queue' = Append(queue, c)
  PROVE  Waiting' = Waiting \cup {c}
<1>1. TypeOK /\ TypeOK'
  BY TypedStep DEF Typed
<1>2. /\ Len(queue') = Len(queue) + 1 /\ queue'[Len(queue) + 1] = c
      /\ \A i \in 1..Len(queue) : queue'[i] = queue[i]
  BY <1>1, NumbersTyped
<1>3. \A i \in 1..Len(queue') : queue'[i] \in Waiting'
  BY <1>1, WaitingNext
<1>4. \A d \in Waiting' : \E i \in 1..Len(queue') : d = queue'[i]
  BY <1>1, WaitingNext
<1>5. \A i \in 1..Len(queue') : i \in 1..Len(queue) \/ i = Len(queue) + 1
  BY <1>1, <1>2, NumbersTyped
<1>6. \A i \in 1..Len(queue) : i \in 1..Len(queue')
  BY <1>1, <1>2, NumbersTyped
<1>7. Len(queue) + 1 \in 1..Len(queue')
  BY <1>1, <1>2, NumbersTyped
<1>8. QED
  BY <1>1, <1>2, <1>3, <1>4, <1>5, <1>6, <1>7, WaitingIs

\* The head of the queue is the oldest request that waits, and the only one
\* of its number.
LEMMA OldestTaken ==
  ASSUME Typed, InOrder, [Next]_vars, queue # <<>>, queue' = Tail(queue)
  PROVE  /\ Head(queue) \in Waiting
         /\ \A d \in Waiting : Head(queue).n <= d.n
         /\ Waiting' = Waiting \ {Head(queue)}
<1>1. TypeOK /\ TypeOK'
  BY TypedStep DEF Typed
<1>2. /\ 1 \in 1..Len(queue) /\ Head(queue) = queue[1]
      /\ \A i \in 1..Len(queue') : i + 1 \in 1..Len(queue) /\ queue'[i] = queue[i + 1]
  BY <1>1, TailTyped
<1>3. \A i \in 1..Len(queue) : i = 1 \/ queue[1].n < queue[i].n
  BY <1>1, <1>2, NumbersTyped DEF InOrder, QueueInOrder
<1>4. \A i \in 1..Len(queue) : i = 1 \/ (i - 1 \in 1..Len(queue') /\ queue[i] = queue'[i - 1])
  BY <1>1, NumbersTyped
<1>5. \A i \in 1..Len(queue') : queue'[i] \in Waiting'
  BY <1>1, WaitingNext
<1>6. \A d \in Waiting' : \E i \in 1..Len(queue') : d = queue'[i]
  BY <1>1, WaitingNext
<1>7. Waiting' \subseteq Waiting \ {Head(queue)}
  <2> SUFFICES ASSUME NEW d \in Waiting' PROVE d \in Waiting \ {Head(queue)}
    OBVIOUS
  <2>1. PICK i \in 1..Len(queue') : d = queue'[i]
    BY <1>6
  <2>2. i + 1 \in 1..Len(queue) /\ d = queue[i + 1] /\ i + 1 # 1
    BY <1>1, <1>2, <2>1, NumbersTyped
  <2>3. queue[1].n < queue[i + 1].n /\ queue[1].n \in Nat
    BY <1>1, <1>2, <1>3, <2>2, NumbersTyped
  <2>4. QED
    BY <1>1, <1>2, <2>2, <2>3, WaitingIs
<1>8. Waiting \ {Head(queue)} \subseteq Waiting'
  <2> SUFFICES ASSUME NEW d \in Waiting, d # Head(queue) PROVE d \in Waiting'
    OBVIOUS
  <2>1. PICK i \in 1..Len(queue) : d = queue[i]
    BY <1>1, WaitingIs
  <2>2. QED
    BY <1>2, <1>4, <1>5, <2>1
<1>9. \A d \in Waiting : Head(queue).n <= d.n
  <2> SUFFICES ASSUME NEW d \in Waiting PROVE Head(queue).n <= d.n
    OBVIOUS
  <2>1. PICK i \in 1..Len(queue) : d = queue[i]
    BY <1>1, WaitingIs
  <2>2. queue[1].n \in Nat /\ queue[i].n \in Nat
    BY <1>1, <1>2, NumbersTyped
  <2>3. QED
    BY <1>2, <1>3, <2>1, <2>2
<1>10. QED
  BY <1>1, <1>2, <1>7, <1>8, <1>9, WaitingIs

\* Doubt, once there is any, stays.
LEMMA DoubtStays ==
  ASSUME Typed, [Next]_vars, spent["lost"] > 0
  PROVE  spent'["lost"] > 0
<1>1. SpentGrows /\ spent' \in [Bound -> Nat] /\ spent \in [Bound -> Nat]
  BY StepMoves, TypedStep DEF Typed, TypeOK
<1>2. spent["lost"] \in Nat /\ spent'["lost"] \in Nat /\ spent'["lost"] >= spent["lost"]
  BY <1>1 DEF SpentGrows, Bound
<1>3. QED
  BY <1>2

LEMMA ArrivesRefines == ASSUME Typed, [Next]_vars, Arrives PROVE [Serial!Next]_(Serial!vars)
<1>1. PICK c \in Command : c.n = sent + 1 /\ queue' \in {queue, Append(queue, c)}
  BY DEF Arrives
<1>2. sent' = sent + 1 /\ UNCHANGED <<truth, running>> /\ (queue' # queue => Len(queue) < QueueSize)
  BY DEF Arrives
<1>3. c = [n |-> sent + 1, kind |-> c.kind, on |-> c.on] /\ c.kind \in Control /\ c.on \in BOOLEAN
  BY <1>1 DEF Command
<1>4. CASE queue' = queue
  BY <1>2, <1>4, DoubtStays DEF Serial!Next, Serial!Request, Calling
<1>5. CASE queue' = Append(queue, c) /\ queue' # queue
  <2>1. Cardinality(Waiting) < QueueSize /\ Waiting' = Waiting \cup {c}
    BY <1>2, <1>5, RoomToWait, WaitingGrows DEF Typed
  <2>2. \E k \in Control, on \in BOOLEAN :
          Waiting' = Waiting \cup {[n |-> sent + 1, kind |-> k, on |-> on]}
    BY <1>3, <2>1
  <2>3. UNCHANGED InHand /\ UNCHANGED Calling
    BY <1>2 DEF InHand, Calling
  <2>4. Serial!Cardinality(Range(queue)) < QueueSize
    BY <2>1, Zenon DEF Serial!Cardinality, Cardinality, Waiting
  <2>5. Serial!Request
    BY <1>2, <2>2, <2>3, <2>4 DEF Serial!Request, Waiting, InHand
  <2>6. QED
    BY <2>5, DoubtStays DEF Serial!Next
<1>6. QED
  BY <1>1, <1>4, <1>5

LEMMA StartsRefines == ASSUME Typed, InOrder, [Next]_vars, Starts PROVE [Serial!Next]_(Serial!vars)
<1>1. /\ Head(queue) \in Waiting /\ Head(queue) \in Command
      /\ \A d \in Waiting : Head(queue).n <= d.n
      /\ Waiting' = Waiting \ {Head(queue)}
  BY OldestTaken, NumbersTyped, TailTyped DEF Starts, Typed
<1>2. /\ running = NoCommand /\ running' # NoCommand /\ UNCHANGED <<truth, sent>>
      /\ running'.n = Head(queue).n /\ running'.kind = Head(queue).kind /\ running'.on = Head(queue).on
  BY RunningIsCommand DEF Starts
<1>3. Head(queue) = [n |-> Head(queue).n, kind |-> Head(queue).kind, on |-> Head(queue).on]
  BY <1>1 DEF Command
<1>4. InHand = {} /\ InHand' = {Head(queue)}
  BY <1>2, <1>3 DEF InHand
<1>5. Calling' \in BOOLEAN
  BY DEF Calling
<1>6. Serial!TakeUp
  BY <1>1, <1>2, <1>4, <1>5 DEF Serial!TakeUp, Waiting, InHand
<1>7. QED
  BY <1>6, DoubtStays DEF Serial!Next

LEMMA TakesEffectRefines ==
  ASSUME Typed, InOrder, [Next]_vars, TakesEffect
  PROVE  [Serial!Next]_(Serial!vars)
<1>1. /\ running # NoCommand /\ running' # NoCommand
      /\ truth' = [truth EXCEPT ![running.kind] = running.on]
      /\ UNCHANGED <<sent, queue>> /\ running'.n = running.n
  BY TakesEffectMoves DEF Typed
<1>2. /\ Calling /\ running'.kind = running.kind /\ running'.on = running.on
      /\ Calling' => spent'["lost"] > 0
  BY DEF TakesEffect, Acts, Calling
<1>3. UNCHANGED InHand /\ [n |-> running.n, kind |-> running.kind, on |-> running.on] \in InHand
  BY <1>1, <1>2 DEF InHand
<1>4. Serial!TakeEffect
  BY <1>1, <1>2, <1>3 DEF Serial!TakeEffect, InHand
<1>5. QED
  BY <1>4, DoubtStays DEF Serial!Next

LEMMA NoEffectRefines == ASSUME Typed, [Next]_vars, NoEffect PROVE [Serial!Next]_(Serial!vars)
<1>1. UNCHANGED <<truth, sent, queue>>
  BY DEF NoEffect
<1>2. CASE UNCHANGED running
  BY <1>1, <1>2, DoubtStays DEF Serial!Next, Calling
<1>3. CASE running' = NoCommand /\ running.outcome # "none"
  <2>1. running # NoCommand
    BY <1>3 DEF NoCommand
  <2>2. InHand # {} /\ InHand' = {}
    BY <1>3, <2>1 DEF InHand
  <2>3. ~Calling /\ UNCHANGED Calling
    BY <1>3 DEF Calling
  <2>4. Serial!Finish
    BY <1>1, <2>2, <2>3 DEF Serial!Finish, InHand
  <2>5. QED
    BY <2>4, DoubtStays DEF Serial!Next
<1>4. CASE /\ Calling /\ running' \in Running /\ running'.outcome # "none"
           /\ running'.n = running.n /\ running'.kind = running.kind /\ running'.on = running.on
  <2>1. UNCHANGED InHand /\ Calling /\ ~Calling'
    BY <1>4, RunningIsCommand DEF InHand, Calling
  <2>2. Serial!Close
    BY <1>1, <2>1 DEF Serial!Close, InHand
  <2>3. QED
    BY <2>2, DoubtStays DEF Serial!Next
<1>5. QED
  BY <1>2, <1>3, <1>4 DEF NoEffect

LEMMA ByHandRefines == ASSUME Typed, [Next]_vars, ByHand PROVE [Serial!Next]_(Serial!vars)
<1>1. /\ \E k \in Control : truth' = [truth EXCEPT ![k] = ~truth[k]]
      /\ UNCHANGED <<sent, queue, running>>
  BY DEF ByHand
<1>2. Serial!ByHand
  BY <1>1 DEF Serial!ByHand, Calling
<1>3. QED
  BY <1>2, DoubtStays DEF Serial!Next

\* The channel, the executor, the transport's retries and the session behind
\* them implement SerialCommands: whatever polls, expiries, failures and
\* repeated calls do meanwhile, requests are taken up one at a time, in the
\* order they were made and never twice, none takes effect after it was
\* given up, and nothing but a request or a hand switches anything.
THEOREM SerialExecutor == Spec => ImplementsSerial
<1>1. Init => InOrder /\ Serial!Init
  <2> SUFFICES ASSUME Init PROVE InOrder /\ Serial!Init
    OBVIOUS
  <2>1. InOrder
    BY DEF Init, InOrder, QueueInOrder, QueueSent, RunningInOrder, LastInOrder, Ahead
  <2>2. truth \in [Control -> BOOLEAN] /\ sent = 0 /\ Range(queue) = {} /\ spent["lost"] = 0
    BY DEF Init, Range, Bound
  <2>3. running = NoCommand /\ ~Calling
    BY DEF Init, Calling
  <2>4. QED
    BY <2>1, <2>2, <2>3 DEF Serial!Init
<1>2. Typed /\ InOrder /\ [Next]_vars => InOrder'
  BY InOrderStep
<1>3. Typed /\ InOrder /\ [Next]_vars => [Serial!Next]_(Serial!vars)
  BY StepMoves, ArrivesRefines, StartsRefines, TakesEffectRefines, NoEffectRefines, ByHandRefines DEF Moves
<1>4. QED
  BY <1>1, <1>2, <1>3, AlwaysTyped, PTL DEF Spec, ImplementsSerial, Serial!Spec

-----------------------------------------------------------------------------
(* An expired session.                                                     *)

Undisturbed == spent["fail"] + spent["lost"] + spent["login"] = 0 /\ spent["expire"] <= 1

\* The classic layer is on or off as StartClassic left it; the session is
\* gone only where the one expiry took it, and after a caller's new login
\* there is no second one to take it again.
AsStarted == degraded = {} \/ (degraded = Capability /\ \A x \in Caller : call[x] = "none")
TakenByExpiry ==
    /\ degraded = {} /\ ~session => spent["expire"] = 1
    /\ \A x \in Caller : /\ call[x] \in {"expired", "again"} => spent["expire"] = 1
                         /\ call[x] = "again" => session
FailedWhereOff == running.outcome = "failed" => running.kind \in degraded
Renewed == AsStarted /\ TakenByExpiry /\ FailedWhereOff

LEMMA NoneSpent == \A a, b, c \in Nat : a + b + c = 0 => a = 0 /\ b = 0 /\ c = 0
  OBVIOUS

LEMMA UndisturbedStep ==
  ASSUME Typed, [Next]_vars, Undisturbed'
  PROVE  /\ Undisturbed
         /\ ~Spend("fail", MaxFail) /\ ~Spend("lost", MaxLost) /\ ~LoginFails
         /\ Spend("expire", MaxExpire) => spent["expire"] = 0
<1>1. TypeOK /\ SpentGrows
  BY StepMoves DEF Typed
<1>2. \A b \in Bound : spent[b] \in Nat /\ spent'[b] \in Nat /\ spent'[b] >= spent[b]
  BY <1>1, TypedStep DEF Typed, TypeOK, SpentGrows
<1>3. /\ spent'["fail"] = 0 /\ spent'["lost"] = 0 /\ spent'["login"] = 0 /\ spent'["expire"] <= 1
      /\ Undisturbed
  <2>1. spent'["fail"] + spent'["lost"] + spent'["login"] = 0 /\ spent'["expire"] <= 1
    BY DEF Undisturbed
  <2>2. spent'["fail"] = 0 /\ spent'["lost"] = 0 /\ spent'["login"] = 0
    BY <1>2, <2>1, NoneSpent DEF Bound
  <2>3. spent["fail"] = 0 /\ spent["lost"] = 0 /\ spent["login"] = 0 /\ spent["expire"] <= 1
    BY <1>2, <2>1, <2>2 DEF Bound
  <2>4. QED
    BY <2>1, <2>2, <2>3 DEF Undisturbed
<1>4. ~Spend("fail", MaxFail)
  BY <1>1, <1>2, <1>3, SpendMoves DEF Bound
<1>5. ~Spend("lost", MaxLost)
  BY <1>1, <1>2, <1>3, SpendMoves DEF Bound
<1>6. ~LoginFails
  <2>1. SUFFICES ASSUME LoginFails PROVE FALSE
    OBVIOUS
  <2>2. spent'["login"] = spent["login"] + 1
    BY <1>1, <2>1, LoginFailsTyped
  <2>3. QED
    BY <1>2, <1>3, <2>2 DEF Bound
<1>7. Spend("expire", MaxExpire) => spent["expire"] = 0
  BY <1>1, <1>2, <1>3, SpendMoves DEF Bound
<1>8. QED
  BY <1>3, <1>4, <1>5, <1>6, <1>7

\* A caller whose second request is refused has lost its session twice.
LEMMA NeverRefused ==
  ASSUME Renewed, NEW x \in Caller, Refused(x), ~Spend("fail", MaxFail), ~LoginFails
  PROVE  FALSE
  BY DEF Refused, Renewed, TakenByExpiry

\* A call that begins finds the classic layer on.
LEMMA BeginsRenewed ==
  ASSUME Typed, AsStarted, TakenByExpiry, NEW x \in Caller, Begins(x), NEW c \in Capability, Has(c),
         UNCHANGED <<degraded, session, spent>>
  PROVE  AsStarted' /\ TakenByExpiry'
<1>1. degraded = {}
  BY DEF AsStarted, Has
<1>2. call' = [call EXCEPT ![x] = IF loggedIn THEN "request" ELSE "ensure"]
  BY DEF Begins
<1>3. \A y \in Caller : call'[y] = call[y] \/ call'[y] \in {"request", "ensure"}
  BY <1>2 DEF Typed, TypeOK
<1>4. QED
  BY <1>1, <1>3 DEF AsStarted, TakenByExpiry

LEMMA EndsRenewed ==
  ASSUME Typed, AsStarted, TakenByExpiry, NEW x \in Caller, Ends(x),
         UNCHANGED <<degraded, session, spent>>
  PROVE  AsStarted' /\ TakenByExpiry'
<1>1. \A y \in Caller : call'[y] = call[y] \/ call'[y] = "none"
  BY DEF Ends, Typed, TypeOK
<1>2. QED
  BY <1>1 DEF AsStarted, TakenByExpiry

LEMMA SessionRenewed ==
  ASSUME Typed, Renewed, NEW x \in Caller, EnsureSession(x) \/ Expires(x) \/ Relogin(x)
  PROVE  Renewed'
<1>1. UNCHANGED <<degraded, spent, running>> /\ call[x] # "none" /\ (session' = session \/ session' = TRUE)
  BY DEF EnsureSession, Expires, Relogin, LogsIn, consoleVars, historyVars
<1>2. degraded = {}
  BY <1>1 DEF Renewed, AsStarted
<1>3. CASE EnsureSession(x)
  <2>1. \A y \in Caller : call'[y] = call[y] \/ call'[y] = "request"
    BY <1>3 DEF EnsureSession, Typed, TypeOK
  <2>2. QED
    BY <1>1, <1>2, <2>1 DEF Renewed, AsStarted, TakenByExpiry, FailedWhereOff
<1>4. CASE Expires(x)
  <2>1. spent["expire"] = 1
    BY <1>2, <1>4 DEF Expires, Renewed, TakenByExpiry
  <2>2. \A y \in Caller : call'[y] = call[y] \/ call'[y] = "expired"
    BY <1>4 DEF Expires, AfterExpiry, Typed, TypeOK
  <2>3. QED
    BY <1>1, <1>2, <2>1, <2>2 DEF Renewed, AsStarted, TakenByExpiry, FailedWhereOff
<1>5. CASE Relogin(x)
  <2>1. session' /\ spent["expire"] = 1
    BY <1>5 DEF Relogin, LogsIn, Renewed, TakenByExpiry
  <2>2. QED
    BY <1>1, <1>2, <2>1 DEF Renewed, AsStarted, TakenByExpiry, FailedWhereOff
<1>6. QED
  BY <1>3, <1>4, <1>5

LEMMA ExecutorRenewed ==
  ASSUME Typed, Renewed, Executor, ~Spend("fail", MaxFail), ~Spend("lost", MaxLost), ~LoginFails
  PROVE  Renewed'
<1>1. "executor" \in Caller
  BY CallerTyped
<1>2. CASE Take
  <2>1. running'.outcome # "failed" /\ UNCHANGED <<degraded, session, spent>>
    BY <1>2 DEF Take, Taken, consoleVars, historyVars
  <2>2. CASE Begins("executor") /\ Head(queue).kind \in ClassicControl /\ Has(Head(queue).kind)
    BY <1>1, <2>1, <2>2, BeginsRenewed DEF Renewed, FailedWhereOff, Capability
  <2>3. CASE UNCHANGED call
    BY <2>1, <2>3 DEF Renewed, AsStarted, TakenByExpiry, FailedWhereOff
  <2>4. QED
    BY <1>2, <2>2, <2>3 DEF Take
<1>3. CASE TakeFails
  <2>1. running'.kind \in degraded /\ UNCHANGED <<degraded, session, spent, call>>
    BY <1>3 DEF TakeFails, Taken, Has, consoleVars
  <2>2. QED
    BY <2>1 DEF Renewed, AsStarted, TakenByExpiry, FailedWhereOff
<1>4. CASE CallSucceeds \/ CallIgnored
  <2>1. running'.outcome = "executed"
    BY <1>4, LoggedMoves DEF CallSucceeds, CallIgnored, Acts, Typed
  <2>2. UNCHANGED <<degraded, session, spent>> /\ Ends("executor")
    BY <1>4 DEF CallSucceeds, CallIgnored, consoleVars, historyVars
  <2>3. QED
    BY <1>1, <2>1, <2>2, EndsRenewed DEF Renewed, FailedWhereOff
<1>5. ~CallLost
  BY DEF CallLost
<1>6. ~CallFails
  BY <1>1, NeverRefused DEF CallFails
<1>7. CASE ScheduleRefresh
  BY <1>7 DEF ScheduleRefresh, NoCommand, consoleVars, Renewed, AsStarted, TakenByExpiry, FailedWhereOff
<1>8. QED
  BY <1>1, <1>2, <1>3, <1>4, <1>5, <1>6, <1>7, SessionRenewed DEF Executor

LEMMA LoopRenewed ==
  ASSUME Typed, Renewed, NEW l \in Loop, Tick(l) \/ Nudged(l) \/ PollStep(l),
         ~Spend("fail", MaxFail), ~LoginFails
  PROVE  Renewed'
<1>1. l \in Caller
  BY CallerTyped
<1>2. ASSUME NEW nudged \in BOOLEAN, Poll(l, nudged) PROVE Renewed'
  <2>1. UNCHANGED <<degraded, session, spent, running>>
    BY <1>2 DEF Poll, consoleVars, historyVars
  <2>2. CASE Begins(l) /\ Has(ReadbackOf(l))
    BY <1>1, <2>1, <2>2, BeginsRenewed DEF Renewed, FailedWhereOff, ReadbackOf, Capability, Readback
  <2>3. CASE UNCHANGED call
    BY <2>1, <2>3 DEF Renewed, AsStarted, TakenByExpiry, FailedWhereOff
  <2>4. QED
    BY <1>2, <2>2, <2>3 DEF Poll
<1>3. ASSUME NEW nudged \in BOOLEAN PROVE ~PollFails(l, nudged)
  BY DEF PollFails
<1>4. CASE Enrich(l)
  <2>1. UNCHANGED <<degraded, session, spent, running>> /\ Ends(l)
    BY <1>4 DEF Enrich, consoleVars, historyVars
  <2>2. QED
    BY <1>1, <2>1, EndsRenewed DEF Renewed, FailedWhereOff
<1>5. ~Degrade(l)
  BY <1>1, NeverRefused DEF Degrade
<1>6. CASE ReadWLANs \/ PublishItem(l)
  <2>1. UNCHANGED <<degraded, session, spent, running, call>>
    BY <1>6 DEF ReadWLANs, PublishItem, consoleVars
  <2>2. QED
    BY <2>1 DEF Renewed, AsStarted, TakenByExpiry, FailedWhereOff
<1>7. QED
  BY <1>1, <1>2, <1>3, <1>4, <1>5, <1>6, SessionRenewed DEF Tick, Nudged, PollStep

LEMMA RenewedStep ==
  ASSUME Typed, Undisturbed => Renewed, [Next]_vars, Undisturbed'
  PROVE  Renewed'
<1>1. /\ Renewed /\ Undisturbed
      /\ ~Spend("fail", MaxFail) /\ ~Spend("lost", MaxLost) /\ ~LoginFails
      /\ Spend("expire", MaxExpire) => spent["expire"] = 0
  BY UndisturbedStep
<1>2. CASE SessionExpires
  <2>1. spent["expire"] = 0 /\ UNCHANGED <<call, degraded, running>>
    BY <1>1, <1>2 DEF SessionExpires
  <2>2. spent'["expire"] = 1
    BY <1>2, <2>1, SpendMoves DEF SessionExpires, Typed, Bound
  <2>3. QED
    BY <1>1, <2>1, <2>2 DEF Renewed, AsStarted, TakenByExpiry, FailedWhereOff
<1>3. CASE Publish \/ Flip
  <2>1. spent'["expire"] = spent["expire"]
    BY <1>3, SpendMoves DEF Publish, Flip, Typed, Bound
  <2>2. UNCHANGED <<session, call, degraded, running>>
    BY <1>3 DEF Publish, Flip, consoleVars
  <2>3. QED
    BY <1>1, <2>1, <2>2 DEF Renewed, AsStarted, TakenByExpiry, FailedWhereOff
<1>4. CASE Redeliver \/ UNCHANGED vars
  <2>1. UNCHANGED <<session, call, degraded, running, spent>>
    BY <1>4 DEF Redeliver, vars, consoleVars, historyVars
  <2>2. QED
    BY <1>1, <2>1 DEF Renewed, AsStarted, TakenByExpiry, FailedWhereOff
<1>5. QED
  BY <1>1, <1>2, <1>3, <1>4, ExecutorRenewed, LoopRenewed DEF Next

\* An expired session alone neither fails a command nor costs a capability,
\* whichever caller meets it and however many meet it at once: the second
\* request finds the session the login has just made.
THEOREM ExpiryIsHidden == Spec => []ExpiryHidden
<1>1. Init => Renewed
  <2> SUFFICES ASSUME Init PROVE Renewed
    OBVIOUS
  <2>1. \A x \in Caller : call[x] = "none"
    BY DEF Init
  <2>2. IF session THEN degraded = {} ELSE degraded = Capability
    BY DEF Init
  <2>3. "wlan" \in Capability /\ running.outcome = "none"
    BY DEF Init, NoCommand, Capability, ClassicControl
  <2>4. QED
    BY <2>1, <2>2, <2>3 DEF Renewed, AsStarted, TakenByExpiry, FailedWhereOff
<1>2. Typed /\ (Undisturbed => Renewed) /\ [Next]_vars => (Undisturbed => Renewed)'
  BY RenewedStep
<1>3. (Undisturbed => Renewed) => ExpiryHidden
  BY DEF Undisturbed, Renewed, AsStarted, FailedWhereOff, ExpiryHidden
<1>4. QED
  BY <1>1, <1>2, <1>3, AlwaysTyped, PTL DEF Spec

-----------------------------------------------------------------------------
(* What is published is what was there.                                    *)

\* How far a poll must have come to have read an item: the device list comes
\* first, the classic answer next, the SSIDs last.
HasRead(stage, k) ==
    /\ stage # "idle"
    /\ k = "locate" => stage # "classic"
    /\ k \in {"blocked", "wlan"} => stage = "publish"

TruthHeld == \A k \in Control : truth[k] \in held[k]
ReadingHeld ==
    \A l \in Loop : \A k \in poll[l].todo :
        Supplied(k) /\ HasRead(poll[l].stage, k) => poll[l].reading[k] \in held[k]

\* What an object is, and what a poll has read of it, are values it has had
\* since its item was last published.
Held == TruthHeld /\ ReadingHeld

LEMMA SuppliedShrinks ==
  ASSUME degraded \subseteq degraded', NEW k, Supplied(k)'
  PROVE  Supplied(k)
  BY DEF Supplied, Reported, Has

\* Where no poll moves, it is enough that no value is forgotten.
LEMMA WidensHeld ==
  ASSUME Typed, Held, UNCHANGED poll, degraded \subseteq degraded',
         \A k \in Control : held[k] \subseteq held'[k] /\ truth'[k] \in held'[k]
  PROVE  Held'
<1>1. TruthHeld'
  BY DEF TruthHeld
<1>2. ASSUME NEW l \in Loop, NEW k \in poll'[l].todo, Supplied(k)', HasRead(poll'[l].stage, k)
      PROVE  poll'[l].reading[k] \in held'[k]
  <2>1. k \in Control
    BY <1>2 DEF Typed, Working, Items
  <2>2. poll[l].reading[k] \in held[k]
    BY <1>2, SuppliedShrinks DEF Held, ReadingHeld
  <2>3. QED
    BY <2>1, <2>2
<1>3. QED
  BY <1>1, <1>2 DEF Held, ReadingHeld

\* Where one poll moves, it is enough to look at that one.
LEMMA PollHeld ==
  ASSUME Typed, Held, NEW l \in Loop, NEW p \in PollState, poll' = [poll EXCEPT ![l] = p],
         UNCHANGED <<truth, held>>, degraded \subseteq degraded',
         \A k \in p.todo : Supplied(k)' /\ HasRead(p.stage, k) => p.reading[k] \in held[k]
  PROVE  Held'
<1>1. TruthHeld'
  BY DEF Held, TruthHeld
<1>2. ASSUME NEW m \in Loop, NEW k \in poll'[m].todo, Supplied(k)', HasRead(poll'[m].stage, k)
      PROVE  poll'[m].reading[k] \in held'[k]
  <2>1. CASE m = l
    <3>1. poll'[m] = p
      BY <2>1 DEF Typed, TypeOK
    <3>2. QED
      BY <1>2, <3>1
  <2>2. CASE m # l
    <3>1. poll'[m] = poll[m]
      BY <2>2 DEF Typed, TypeOK
    <3>2. QED
      BY <1>2, <3>1, SuppliedShrinks DEF Held, ReadingHeld
  <2>3. QED
    BY <2>1, <2>2
<1>3. QED
  BY <1>1, <1>2 DEF Held, ReadingHeld

LEMMA BecomesHeld ==
  ASSUME Typed, Held, NEW k \in Control, NEW on, Becomes(k, on),
         UNCHANGED <<poll, degraded>>
  PROVE  Held'
<1>1. \A j \in Control : /\ truth'[j] = IF j = k THEN on ELSE truth[j]
                         /\ held'[j] = IF j = k THEN held[j] \cup {on} ELSE held[j]
  BY DEF Becomes, Typed, TypeOK
<1>2. \A j \in Control : held[j] \subseteq held'[j] /\ truth'[j] \in held'[j]
  BY <1>1 DEF Held, TruthHeld
<1>3. QED
  BY <1>2, WidensHeld

LEMMA PollsHeld ==
  ASSUME Typed, Held, NEW l \in Loop, NEW nudged \in BOOLEAN, Poll(l, nudged)
  PROVE  Held'
<1> DEFINE read == [k \in Control |-> k = "restart" /\ truth[k]]
           asks == l # "devices" /\ Has(ReadbackOf(l))
           stage == IF asks THEN "classic" ELSE IF l = "static" THEN "wlans" ELSE "publish"
           p == [stage |-> stage, todo |-> Items(l), reading |-> read]
<1>1. poll' = [poll EXCEPT ![l] = p] /\ UNCHANGED <<truth, held, degraded>>
  BY DEF Poll, consoleVars, historyVars
<1>2. read \in [Control -> BOOLEAN] /\ p \in PollState
  BY DEF PollState, Items, Typed, TypeOK
<1>3. \A k \in Items(l) : Supplied(k)' /\ HasRead(stage, k) => k = "restart"
  <2>1. \A k \in Items(l) : /\ k \in Control
                            /\ k = "blocked" => l = "clients"
                            /\ k \in {"locate", "wlan"} => l = "static"
    BY DEF Items, Publishes, Loop
  <2>2. \A k \in Items(l) : k \in {"locate", "blocked", "wlan", "restart"}
    BY DEF Items, Publishes, Loop
  <2>3. ASSUME Supplied("locate")', HasRead(stage, "locate"), l = "static" PROVE FALSE
    BY <1>1, <2>3 DEF Supplied, HasRead, Has, ReadbackOf
  <2>4. ASSUME Supplied("blocked")', HasRead(stage, "blocked"), l = "clients" PROVE FALSE
    BY <1>1, <2>4 DEF Supplied, HasRead, Has, ReadbackOf
  <2>5. ASSUME HasRead(stage, "wlan"), l = "static" PROVE FALSE
    BY <2>5 DEF HasRead
  <2>6. QED
    BY <2>1, <2>2, <2>3, <2>4, <2>5
<1>4. \A k \in p.todo : Supplied(k)' /\ HasRead(p.stage, k) => p.reading[k] \in held[k]
  <2>1. ASSUME NEW k \in Items(l), Supplied(k)', HasRead(stage, k) PROVE read[k] \in held[k]
    <3>1. k = "restart" /\ k \in Control
      BY <1>3, <2>1 DEF Items
    <3>2. truth[k] \in held[k] /\ truth[k] \in BOOLEAN
      BY <3>1 DEF Held, TruthHeld, Typed, TypeOK
    <3>3. read[k] = truth[k]
      BY <3>1, <3>2
    <3>4. QED
      BY <3>2, <3>3
  <2>2. QED
    BY <2>1
<1>5. QED
  BY <1>1, <1>2, <1>4, PollHeld

\* A poll that goes on with k read besides: what it had read is still held.
LEMMA ReadsHeld ==
  ASSUME Typed, Held, NEW l \in Loop, poll[l].stage # "idle", NEW stage \in {"wlans", "publish"},
         NEW reading \in [Control -> BOOLEAN], Polling(l, stage, reading),
         UNCHANGED <<truth, held>>, degraded \subseteq degraded',
         \A k \in poll[l].todo : Supplied(k)' /\ HasRead(stage, k) =>
             \/ HasRead(poll[l].stage, k) /\ reading[k] = poll[l].reading[k]
             \/ reading[k] = truth[k]
  PROVE  Held'
<1> DEFINE p == [stage |-> stage, todo |-> poll[l].todo, reading |-> reading]
<1>1. p \in PollState /\ poll' = [poll EXCEPT ![l] = p] /\ poll[l].todo \subseteq Control
  BY DEF Typed, TypeOK, PollState, Polling
<1>2. ASSUME NEW k \in poll[l].todo, Supplied(k)', HasRead(stage, k)
      PROVE  reading[k] \in held[k]
  <2>1. CASE reading[k] = truth[k]
    BY <1>1, <2>1 DEF Held, TruthHeld
  <2>2. CASE HasRead(poll[l].stage, k) /\ reading[k] = poll[l].reading[k]
    BY <1>2, <2>2, SuppliedShrinks DEF Held, ReadingHeld
  <2>3. QED
    BY <1>2, <2>1, <2>2
<1>3. QED
  BY <1>1, <1>2, PollHeld

\* The items of a loop, and the one its classic answer is about.
LEMMA TodoOf ==
  ASSUME Typed, NEW l \in Loop, NEW k \in poll[l].todo
  PROVE  /\ k \in Control /\ k \in {"locate", "blocked", "wlan", "restart"}
         /\ k \in {"locate", "wlan"} <=> l = "static"
         /\ k = "blocked" <=> l = "clients"
<1>1. k \in Items(l)
  BY DEF Typed, Working
<1>2. QED
  BY <1>1 DEF Items, Publishes, Loop

LEMMA EnrichHeld == ASSUME Typed, Held, NEW l \in Loop, Enrich(l) PROVE Held'
<1> DEFINE c == ClassicItem(l)
           reading == IF c \in Control THEN Gives(l, c, truth[c]) ELSE poll[l].reading
<1>1. /\ poll[l].stage = "classic" /\ Polling(l, AfterClassic(l), reading)
      /\ UNCHANGED <<truth, held, degraded>>
  BY DEF Enrich, consoleVars, historyVars
<1>2. reading \in [Control -> BOOLEAN]
  BY ReadingTyped
<1>3. \A k \in Control : reading[k] = IF k = c THEN truth[c] ELSE poll[l].reading[k]
  BY ReadingTyped DEF Gives
<1>4. ASSUME NEW k \in poll[l].todo, HasRead(AfterClassic(l), k)
      PROVE  \/ HasRead(poll[l].stage, k) /\ reading[k] = poll[l].reading[k]
             \/ reading[k] = truth[k]
  <2>1. CASE k = c
    BY <1>3, <2>1, TodoOf
  <2>2. CASE k # c
    <3>1. k = "restart"
      BY <1>4, <2>2, TodoOf DEF ClassicItem, AfterClassic, HasRead
    <3>2. QED
      BY <1>1, <1>3, <2>2, <3>1, TodoOf DEF HasRead
  <2>3. QED
    BY <2>1, <2>2
<1>5. AfterClassic(l) \in {"wlans", "publish"} /\ poll[l].stage # "idle"
  BY <1>1 DEF AfterClassic
<1> HIDE DEF reading
<1>6. QED
  BY <1>1, <1>2, <1>4, <1>5, ReadsHeld

LEMMA DegradeHeld == ASSUME Typed, Held, NEW l \in Loop, Degrade(l) PROVE Held'
<1>1. /\ poll[l].stage = "classic" /\ Polling(l, AfterClassic(l), poll[l].reading)
      /\ UNCHANGED <<truth, held>> /\ degraded' = degraded \cup {ReadbackOf(l)}
  BY DEF Degrade, consoleVars
<1>2. ASSUME NEW k \in poll[l].todo, Supplied(k)', HasRead(AfterClassic(l), k)
      PROVE  HasRead(poll[l].stage, k)
  <2>1. k # "locate" /\ k # "blocked"
    BY <1>1, <1>2, TodoOf DEF Supplied, Has, ReadbackOf
  <2>2. k # "wlan"
    BY <1>2, TodoOf DEF AfterClassic, HasRead
  <2>3. QED
    BY <1>1, <2>1, <2>2 DEF HasRead
<1>3. AfterClassic(l) \in {"wlans", "publish"} /\ poll[l].stage # "idle"
  BY <1>1 DEF AfterClassic
<1>4. QED
  BY <1>1, <1>2, <1>3, ReadingTyped, ReadsHeld

LEMMA ReadWLANsHeld == ASSUME Typed, Held, ReadWLANs PROVE Held'
<1> DEFINE reading == IF "wlan" \in Control THEN Gives("static", "wlan", truth["wlan"]) ELSE poll["static"].reading
<1>1. "static" \in Loop /\ poll["static"].stage = "wlans" /\ UNCHANGED <<truth, held, degraded>>
  BY DEF ReadWLANs, Loop, consoleVars
<1>2. CASE poll' = [poll EXCEPT !["static"] = IdlePoll]
  BY <1>1, <1>2, IdlePollTyped, PollHeld
<1>3. CASE Polling("static", "publish", reading)
  <2>1. reading \in [Control -> BOOLEAN]
    BY <1>1, ReadingTyped
  <2>2. \A k \in Control : reading[k] = IF k = "wlan" THEN truth["wlan"] ELSE poll["static"].reading[k]
    BY <1>1, ReadingTyped DEF Gives
  <2>3. ASSUME NEW k \in poll["static"].todo
        PROVE  \/ HasRead(poll["static"].stage, k) /\ reading[k] = poll["static"].reading[k]
               \/ reading[k] = truth[k]
    <3>1. k \in Control /\ k \in {"locate", "wlan"}
      BY <1>1, TodoOf
    <3>2. QED
      BY <1>1, <2>2, <3>1 DEF HasRead
  <2> HIDE DEF reading
  <2>4. QED
    BY <1>1, <1>3, <2>1, <2>3, ReadsHeld
<1>4. QED
  BY <1>2, <1>3 DEF ReadWLANs

\* The item that is published is read again before it is published again,
\* and no other loop has it.
LEMMA PublishItemHeld == ASSUME Typed, Held, NEW l \in Loop, PublishItem(l) PROVE Held'
<1> DEFINE k == NextItem(l)
<1>1. PICK p \in PollState :
        /\ poll' = [poll EXCEPT ![l] = p]
        /\ p.todo \subseteq poll[l].todo \ {k}
        /\ p.stage # "idle" => p.todo # {} /\ p.stage = "publish" /\ p.reading = poll[l].reading
  BY PublishItemMoves
<1>2. /\ poll[l].stage = "publish" /\ UNCHANGED <<truth, degraded>>
      /\ held' = held \/ held' = [held EXCEPT ![k] = {truth[k]}]
  BY DEF PublishItem, consoleVars
<1>3. k \in poll[l].todo
  BY <1>2, NextItemTyped
<1>4. \A j \in Control : held'[j] = held[j] \/ (j = k /\ held'[j] = {truth[k]})
  BY <1>2 DEF Typed, TypeOK
<1>5. TruthHeld'
  BY <1>2, <1>4 DEF Held, TruthHeld
<1>6. ASSUME NEW m \in Loop, NEW j \in poll'[m].todo, Supplied(j)', HasRead(poll'[m].stage, j)
      PROVE  poll'[m].reading[j] \in held'[j]
  <2>1. Supplied(j)
    BY <1>2, <1>6, SuppliedShrinks
  <2>2. j \in poll[m].todo /\ j # k /\ poll'[m].reading = poll[m].reading /\ HasRead(poll[m].stage, j)
    <3>1. CASE m = l
      <4>1. poll'[m] = p
        BY <1>1, <3>1 DEF Typed, TypeOK
      <4>2. QED
        BY <1>1, <1>2, <1>6, <3>1, <4>1 DEF HasRead
    <3>2. CASE m # l
      <4>1. poll'[m] = poll[m]
        BY <1>1, <3>2 DEF Typed, TypeOK
      <4>2. j # k
        BY <1>3, <1>6, <3>2, <4>1 DEF Typed, Working, Items, Publishes, Loop
      <4>3. QED
        BY <1>6, <4>1, <4>2
    <3>3. QED
      BY <3>1, <3>2
  <2>3. j \in Control /\ poll[m].reading[j] \in held[j]
    BY <2>1, <2>2, TodoOf DEF Held, ReadingHeld
  <2>4. QED
    BY <1>4, <2>2, <2>3
<1>7. QED
  BY <1>5, <1>6 DEF Held, ReadingHeld

LEMMA HeldStep == ASSUME Typed, Held, [Next]_vars PROVE Held'
<1>1. ASSUME UNCHANGED <<truth, held, poll, degraded>> PROVE Held'
  BY <1>1 DEF Held, TruthHeld, ReadingHeld, Supplied, Reported, Has
<1>2. CASE Flip
  <2>1. PICK k \in Control : Becomes(k, ~truth[k])
    BY <1>2 DEF Flip
  <2>2. QED
    BY <1>2, <2>1, BecomesHeld DEF Flip
<1>3. CASE CallSucceeds \/ CallLost
  <2>1. Acts /\ UNCHANGED <<poll, degraded>>
    BY <1>3 DEF CallSucceeds, CallLost
  <2>2. running.kind \in Control /\ Becomes(running.kind, running.on)
    BY <2>1, ActsTyped DEF Typed, Acts, Running
  <2>3. QED
    BY <2>1, <2>2, BecomesHeld
<1>4. ASSUME NEW x, EnsureSession(x) \/ Expires(x) \/ Relogin(x) PROVE Held'
  <2>1. UNCHANGED <<truth, held, poll, degraded>>
    BY <1>4 DEF EnsureSession, Expires, Relogin, consoleVars, historyVars
  <2>2. QED
    BY <1>1, <2>1
<1>5. CASE Take \/ TakeFails \/ CallFails \/ CallIgnored \/ ScheduleRefresh
  <2>1. UNCHANGED <<truth, held, poll, degraded>>
    BY <1>5 DEF Take, TakeFails, CallFails, CallIgnored, ScheduleRefresh, consoleVars, historyVars
  <2>2. QED
    BY <1>1, <2>1
<1>6. CASE Publish \/ Redeliver \/ SessionExpires \/ UNCHANGED vars
  <2>1. UNCHANGED <<truth, held, poll, degraded>>
    BY <1>6 DEF Publish, Redeliver, SessionExpires, vars, consoleVars, historyVars
  <2>2. QED
    BY <1>1, <2>1
<1>7. ASSUME NEW l \in Loop, NEW nudged \in BOOLEAN, Poll(l, nudged) \/ PollFails(l, nudged) PROVE Held'
  <2>1. CASE Poll(l, nudged)
    BY <2>1, PollsHeld
  <2>2. CASE PollFails(l, nudged)
    <3>1. UNCHANGED <<truth, held, poll, degraded>>
      BY <2>2 DEF PollFails, consoleVars
    <3>2. QED
      BY <1>1, <3>1
  <2>3. QED
    BY <1>7, <2>1, <2>2
<1>8. ASSUME NEW l \in Loop, PollStep(l) PROVE Held'
  BY <1>4, <1>8, EnrichHeld, DegradeHeld, ReadWLANsHeld, PublishItemHeld DEF PollStep
<1>9. QED
  BY <1>2, <1>3, <1>4, <1>5, <1>6, <1>7, <1>8 DEF Next, Executor, Tick, Nudged

\* Only a poll that has come to its end changes an item.
LEMMA ShownMoves ==
  ASSUME Typed, [Next]_vars, shown' # shown
  PROVE  \E l \in Loop : PublishItem(l) /\ shown' = [shown EXCEPT ![NextItem(l)] = poll[l].reading[NextItem(l)]]
<1>1. ~(Publish \/ Redeliver \/ Flip \/ SessionExpires \/ UNCHANGED vars)
  BY DEF Publish, Redeliver, Flip, SessionExpires, vars, brokerVars
<1>2. ASSUME NEW x, EnsureSession(x) \/ Expires(x) \/ Relogin(x) PROVE FALSE
  BY <1>2 DEF EnsureSession, Expires, Relogin, brokerVars
<1>3. ~(Take \/ TakeFails \/ CallSucceeds \/ CallLost \/ CallFails \/ CallIgnored \/ ScheduleRefresh)
  BY DEF Take, TakeFails, CallSucceeds, CallLost, CallFails, CallIgnored, ScheduleRefresh, ShownAfter, brokerVars
<1>4. ASSUME NEW l \in Loop, Tick(l) \/ Nudged(l) PROVE FALSE
  BY <1>4 DEF Tick, Nudged, Poll, PollFails, brokerVars
<1>5. ASSUME NEW l \in Loop, Enrich(l) \/ Degrade(l) \/ ReadWLANs PROVE FALSE
  BY <1>5 DEF Enrich, Degrade, ReadWLANs, brokerVars
<1>6. PICK l \in Loop : PublishItem(l)
  BY <1>1, <1>2, <1>3, <1>4, <1>5 DEF Next, Executor, PollStep
<1>7. shown' = [shown EXCEPT ![NextItem(l)] = poll[l].reading[NextItem(l)]]
  BY <1>6 DEF PublishItem
<1>8. QED
  BY <1>6, <1>7

LEMMA ShownWasHeld ==
  ASSUME Typed, Held, [Next]_vars, NEW k \in Control, Supplied(k), shown'[k] # shown[k]
  PROVE  shown'[k] \in held[k]
<1>1. PICK l \in Loop : PublishItem(l) /\ shown' = [shown EXCEPT ![NextItem(l)] = poll[l].reading[NextItem(l)]]
  BY ShownMoves
<1>2. shown \in [Control -> BOOLEAN \cup {Unread}]
  BY DEF Typed, TypeOK
<1>3. k = NextItem(l) /\ shown'[k] = poll[l].reading[k]
  BY <1>1, <1>2
<1>4. poll[l].stage = "publish" /\ k \in poll[l].todo
  BY <1>1, <1>3, NextItemTyped DEF PublishItem
<1>5. QED
  BY <1>3, <1>4 DEF Held, ReadingHeld, HasRead

\* Nothing is published because it was asked for: an item changes only to
\* what a poll has read, and to nothing older than its last value. Commands,
\* polls of three loops and changes at the console may interleave as they like.
THEOREM NothingOptimistic == Spec => NoOptimisticUpdate
<1> DEFINE Item == \A k \in Control :
                     Supplied(k) /\ shown'[k] # shown[k] => shown'[k] \in held[k]
<1>1. Init => Held
  BY IdlePollTyped DEF Init, Held, TruthHeld, ReadingHeld
<1>2. Typed /\ Held /\ [Next]_vars => Held'
  BY HeldStep
<1>3. Typed /\ Held /\ [Next]_vars => [Item]_vars
  BY ShownWasHeld
<1>4. QED
  BY <1>1, <1>2, <1>3, AlwaysTyped, PTL DEF Spec, NoOptimisticUpdate

=============================================================================
