---------------------------- MODULE BridgeProofs ----------------------------
(***************************************************************************)
(* Theorems about Bridge, for any set of devices and any number of events. *)
(*                                                                         *)
(* TypeOK is inductive. NoGhost needs no more. QuietStop needs to know     *)
(* what a poll that is about to announce a level has been told: a 1 is     *)
(* only ever announced for an answer the console gave, because an answer   *)
(* cut off by a stop is never turned into a level.                         *)
(***************************************************************************)
EXTENDS Bridge, TLAPS

-----------------------------------------------------------------------------
(* Type correctness.                                                       *)

LEMMA IdleTyped == IdleJob \in Job /\ IdleHook \in HookState /\ EmptyPage \in Page
  BY DEF IdleJob, Job, IdleHook, HookState, Level, EmptyPage, Page

\* What a dead process leaves of its memory is well typed.
LEMMA DiesTyped ==
  ASSUME Dies
  PROVE  /\ phase' = "ended" /\ link' = FALSE /\ live' = {}
         /\ hook' \in HookState /\ runtime' \in Level /\ upstream' \in Level
         /\ capable' \in BOOLEAN /\ job' \in [Loop -> Job] /\ page' \in Page
  BY IdleTyped DEF Dies, Level

LEMMA EventTyped == TypeOK /\ Event => events' \in Nat
  BY DEF TypeOK, Event

LEMMA SendTyped ==
  ASSUME TypeOK, NEW v \in {0} \cup Level, Send(v)
  PROVE  marker' \in {-1, 0} \cup Level
  BY DEF TypeOK, Send

LEMMA SetConnectedTyped ==
  ASSUME TypeOK, NEW v \in Level, SetConnected(v)
  PROVE  marker' \in {-1, 0} \cup Level /\ runtime' \in Level
  BY SendTyped DEF TypeOK, SetConnected

\* A loop that moves on stays well typed.
LEMMA SetTyped ==
  ASSUME TypeOK, NEW l \in Loop, NEW j \in Job, Set(l, j)
  PROVE  job' \in [Loop -> Job]
  BY DEF TypeOK, Set

LEMMA LevelType == 1 \in Level /\ 2 \in Level
  BY DEF Level

LEMMA ConnectionTyped ==
  ASSUME TypeOK, Connect \/ Drop \/ WillFires \/ HookResets \/ HookReads
  PROVE  TypeOK'
<1>1. CASE Connect
  BY <1>1 DEF TypeOK, Connect, IdleHook, HookState, Level, world, process
<1>2. CASE Drop
  <2>1. events' \in Nat
    BY <1>2, EventTyped DEF Drop
  <2>2. QED
    BY <1>2, <2>1 DEF TypeOK, Drop, process
<1>3. CASE WillFires
  BY <1>3 DEF TypeOK, WillFires, world, process
<1>4. CASE HookResets
  BY <1>4 DEF TypeOK, HookResets, HookState, Page, Level, world, broker, process
<1>5. CASE HookReads
  BY <1>5 DEF TypeOK, HookReads, HookState, world, broker, process
<1>6. QED
  BY <1>1, <1>2, <1>3, <1>4, <1>5

LEMMA HookPublishesTyped ==
  ASSUME TypeOK, HookPublishes
  PROVE  TypeOK'
<1>1. marker' \in {-1, 0} \cup Level /\ runtime' \in Level
  BY SendTyped, SetConnectedTyped, LevelType DEF TypeOK, HookPublishes
<1>2. /\ phase' \in {"starting", "running", "stopping", "closing", "ended"}
      /\ live' \subseteq Loop /\ (phase' \in {"starting", "closing"} => live' = {})
  BY DEF TypeOK, HookPublishes
<1>3. hook' \in HookState
  BY IdleTyped DEF HookPublishes
<1>4. QED
  BY <1>1, <1>2, <1>3 DEF TypeOK, HookPublishes, world

LEMMA PollTyped ==
  ASSUME TypeOK, NEW l \in Loop, Poll(l) \/ Answered(l) \/ Cancelled(l)
  PROVE  TypeOK'
<1>1. CASE Poll(l)
  <2>1. job' \in [Loop -> Job]
    BY <1>1, SetTyped, IdleTyped DEF Poll, IdleJob, Job
  <2>2. QED
    BY <1>1, <2>1 DEF TypeOK, Poll, world, broker, process
<1>2. CASE Answered(l)
  <2>1. PICK a \in AnswerOf(l) :
          /\ Set(l, IF l = "health" /\ a = "ok" THEN IdleJob
                    ELSE [stage |-> AfterAnswer(l), answer |-> a, list |-> IF a = "ok" THEN site ELSE {}])
          /\ capable' = (capable /\ (l = "health" => a = "ok"))
    BY <1>2 DEF Answered
  <2>2. a \in {"ok", "failed", "denied"} /\ AfterAnswer(l) \in {"decide", "store"}
    BY DEF AnswerOf, AfterAnswer, TypeOK
  <2>3. [stage |-> AfterAnswer(l), answer |-> a, list |-> IF a = "ok" THEN site ELSE {}] \in Job
    BY <2>2 DEF Job, TypeOK
  <2>4. job' \in [Loop -> Job]
    BY <2>1, <2>3, SetTyped, IdleTyped
  <2>5. capable' \in BOOLEAN
    BY <2>1
  <2>6. QED
    BY <1>2, <2>4, <2>5 DEF TypeOK, Answered, world, broker
<1>3. CASE Cancelled(l)
  <2>1. job' \in [Loop -> Job]
    BY <1>3, SetTyped DEF Cancelled, AfterAnswer, Job
  <2>2. QED
    BY <1>3, <2>1 DEF TypeOK, Cancelled, world, broker, process
<1>4. QED
  BY <1>1, <1>2, <1>3

\* The device loop goes from one stage of its poll to the next.
LEMMA DeviceStageTyped ==
  ASSUME TypeOK, NEW s \in {"store", "tell"}, Set("devices", [job["devices"] EXCEPT !.stage = s])
  PROVE  job' \in [Loop -> Job]
<1>1. "devices" \in Loop
  BY DEF Loop
<1>2. [job["devices"] EXCEPT !.stage = s] \in Job
  BY <1>1 DEF TypeOK, Job
<1>3. QED
  BY <1>1, <1>2, SetTyped

LEMMA DecideTyped ==
  ASSUME TypeOK, Decide \/ Tell \/ TellLost
  PROVE  TypeOK'
<1>1. job' \in [Loop -> Job]
  BY DeviceStageTyped DEF Decide, Tell, TellLost
<1>2. CASE Decide
  <2>1. upstream' \in Level
    BY <1>2 DEF TypeOK, Decide, Says, Level
  <2>2. QED
    BY <1>1, <1>2, <2>1 DEF TypeOK, Decide, world, broker, process
<1>3. CASE Tell
  <2>1. marker' \in {-1, 0} \cup Level /\ runtime' \in Level
    BY <1>3, SetConnectedTyped DEF TypeOK, Tell
  <2>2. QED
    BY <1>1, <1>3, <2>1 DEF TypeOK, Tell, world, process
<1>4. CASE TellLost
  <2>1. events' \in Nat
    BY <1>4, EventTyped DEF TellLost
  <2>2. QED
    BY <1>1, <1>4, <2>1 DEF TypeOK, TellLost, process
<1>5. QED
  BY <1>2, <1>3, <1>4

LEMMA OutcomeTyped ==
  ASSUME TypeOK, NEW l \in Loop, Succeeds(l) \/ Fails(l) \/ FailsForGood(l) \/ Returns(l)
  PROVE  TypeOK'
<1>1. job' \in [Loop -> Job]
  BY SetTyped, IdleTyped DEF Succeeds, Fails, FailsForGood, Returns
<1>2. CASE Succeeds(l)
  <2>1. job[l].list \subseteq Device
    BY DEF TypeOK, Job
  <2>2. page' \in Page
    BY <1>2, <2>1 DEF TypeOK, Succeeds, SetDevices, SetStats, Page
  <2>3. QED
    BY <1>1, <1>2, <2>2 DEF TypeOK, Succeeds, world, broker, process
<1>3. CASE Fails(l)
  BY <1>1, <1>3 DEF TypeOK, Fails, world, broker, process
<1>4. CASE FailsForGood(l)
  BY <1>1, <1>4 DEF TypeOK, FailsForGood, world, broker
<1>5. CASE Returns(l)
  BY <1>1, <1>5 DEF TypeOK, Returns, world, broker
<1>6. QED
  BY <1>2, <1>3, <1>4, <1>5

LEMMA EndTyped ==
  ASSUME TypeOK, Stop \/ AnnounceOffline \/ Disconnect \/ Crash
  PROVE  TypeOK'
<1>1. CASE Stop
  <2>1. CASE phase = "running"
    BY <1>1, <2>1 DEF TypeOK, Stop, world
  <2>2. CASE phase # "running"
    <3>1. Dies /\ owed' = (owed \/ link) /\ UNCHANGED <<world, marker>>
      BY <1>1, <2>2 DEF Stop
    <3>2. QED
      BY <3>1, DiesTyped DEF TypeOK, world
  <2>3. QED
    BY <2>1, <2>2
<1>2. CASE AnnounceOffline
  <2>1. marker' \in {-1, 0} \cup Level
    BY <1>2, SendTyped DEF AnnounceOffline
  <2>2. QED
    BY <1>2, <2>1 DEF TypeOK, AnnounceOffline, world
<1>3. CASE Disconnect
  BY <1>3, DiesTyped DEF TypeOK, Disconnect, world, broker
<1>4. CASE Crash
  <2>1. events' \in Nat
    BY <1>4, EventTyped DEF Crash
  <2>2. QED
    BY <1>4, <2>1, DiesTyped DEF TypeOK, Crash
<1>5. QED
  BY <1>1, <1>2, <1>3, <1>4

LEMMA EnvironmentTyped ==
  ASSUME TypeOK, Restart \/ ConsoleChanges \/ DeviceMoves
  PROVE  TypeOK'
<1>1. events' \in Nat
  BY EventTyped DEF Restart, ConsoleChanges, DeviceMoves
<1>2. CASE Restart
  <2>1. /\ phase' = "starting" /\ link' = FALSE /\ live' = {} /\ capable' \in BOOLEAN
        /\ hook' \in HookState /\ runtime' \in Level /\ upstream' \in Level
        /\ job' \in [Loop -> Job] /\ page' \in Page
    BY <1>2, IdleTyped, LevelType DEF Restart, Fresh
  <2>2. QED
    BY <1>1, <1>2, <2>1 DEF TypeOK, Restart, broker
<1>3. CASE ConsoleChanges
  BY <1>1, <1>3 DEF TypeOK, ConsoleChanges, broker, process
<1>4. CASE DeviceMoves
  BY <1>1, <1>4 DEF TypeOK, DeviceMoves, broker, process
<1>5. QED
  BY <1>2, <1>3, <1>4

\* Bridge is type correct: among others, a connection and a due will exclude
\* each other, and no loop is alive before the first connect or after the
\* last publish.
THEOREM TypeCorrect == Spec => []TypeOK
<1>1. Init => TypeOK
  <2> SUFFICES ASSUME Init PROVE TypeOK
    OBVIOUS
  <2>1. hook \in HookState /\ job \in [Loop -> Job] /\ page \in Page
    BY IdleTyped DEF Init
  <2>2. marker \in {-1, 0} \cup Level /\ runtime \in Level /\ upstream \in Level /\ events \in Nat
    BY DEF Init, Level
  <2>3. live = {} /\ phase = "starting" /\ capable \in BOOLEAN /\ lost \in BOOLEAN
        /\ owed \in BOOLEAN /\ link \in BOOLEAN /\ ~owed
    BY DEF Init
  <2>4. console \in {"up", "down", "denied"} /\ site \subseteq Device
    BY DEF Init
  <2>5. QED
    BY <2>1, <2>2, <2>3, <2>4 DEF TypeOK
<1>2. TypeOK /\ [Next]_vars => TypeOK'
  <2> SUFFICES ASSUME TypeOK, [Next]_vars PROVE TypeOK'
    OBVIOUS
  <2>1. CASE Connect \/ Drop \/ WillFires \/ HookResets \/ HookReads
    BY <2>1, ConnectionTyped
  <2>2. CASE HookPublishes
    BY <2>2, HookPublishesTyped
  <2>3. ASSUME NEW l \in Loop, Work(l) PROVE TypeOK'
    BY <2>3, PollTyped, OutcomeTyped, DecideTyped DEF Work
  <2>4. CASE TellLost
    BY <2>4, DecideTyped
  <2>5. CASE Stop \/ Ends \/ Crash
    BY <2>5, EndTyped DEF Ends
  <2>6. CASE Restart \/ ConsoleChanges \/ DeviceMoves
    BY <2>6, EnvironmentTyped
  <2>7. CASE UNCHANGED vars
    BY <2>7 DEF TypeOK, vars, world, broker, process
  <2>8. QED
    BY <2>1, <2>2, <2>3, <2>4, <2>5, <2>6, <2>7 DEF Next, Hook
<1>3. QED
  BY <1>1, <1>2, PTL DEF Spec

-----------------------------------------------------------------------------
(* A stop is not an outage.                                                *)

\* What a poll of the device loop knows: one that is over has its answer, one
\* that was cut off was cut off by a stop, and a 1 on its way to the broker
\* is an answer of the console's. A process that has not started polls
\* nothing.
AnswerHonest ==
    LET j == job["devices"] IN
    /\ j.stage \in {"decide", "tell"} => j.answer # "none"
    /\ j.answer = "cancelled" => phase # "running"
    /\ j.stage = "tell" /\ upstream = 1 => j.answer \in {"failed", "denied"}
    /\ phase = "starting" => j = IdleJob

LEMMA DevicesAreALoop == "devices" \in Loop /\ "devices" # "health"
  BY DEF Loop

\* Another loop's step leaves the device loop's poll alone.
LEMMA OtherLoop ==
  ASSUME TypeOK, NEW l \in Loop \ {"devices"}, NEW j, Set(l, j)
  PROVE  job'["devices"] = job["devices"]
  BY DevicesAreALoop DEF TypeOK, Set

LEMMA OwnLoop ==
  ASSUME TypeOK, NEW j, Set("devices", j)
  PROVE  job'["devices"] = j
  BY DevicesAreALoop DEF TypeOK, Set

LEMMA IdleHonest == ASSUME job'["devices"] = IdleJob PROVE AnswerHonest'
  BY DEF AnswerHonest, IdleJob

LEMMA PollHonest ==
  ASSUME TypeOK, AnswerHonest, NEW l \in Loop, Poll(l) \/ Answered(l) \/ Cancelled(l)
  PROVE  AnswerHonest'
<1>1. CASE l # "devices"
  <2>1. job'["devices"] = job["devices"]
    BY <1>1, OtherLoop DEF Poll, Answered, Cancelled
  <2>2. upstream' = upstream /\ phase' = phase
    BY DEF Poll, Answered, Cancelled, process
  <2>3. QED
    BY <2>1, <2>2 DEF AnswerHonest
<1>2. CASE l = "devices"
  <2>1. CASE Poll(l)
    <3>1. job'["devices"] = [IdleJob EXCEPT !.stage = "ask"] /\ phase' = "running"
      BY <1>2, <2>1, OwnLoop DEF Poll, process
    <3>2. QED
      BY <3>1 DEF AnswerHonest, IdleJob
  <2>2. CASE Answered(l)
    <3>1. PICK a \in AnswerOf("devices") :
            Set("devices", [stage |-> AfterAnswer("devices"), answer |-> a, list |-> IF a = "ok" THEN site ELSE {}])
      BY <1>2, <2>2, DevicesAreALoop DEF Answered
    <3>2. /\ job'["devices"].stage = "decide"
          /\ job'["devices"].answer \in {"ok", "failed", "denied"}
      BY <3>1, OwnLoop DEF AnswerOf, AfterAnswer, TypeOK
    <3>3. phase' # "starting"
      BY <1>2, <2>2 DEF Answered, AnswerHonest, IdleJob
    <3>4. QED
      BY <3>2, <3>3 DEF AnswerHonest
  <2>3. CASE Cancelled(l)
    <3>1. /\ job'["devices"] = [stage |-> "decide", answer |-> "cancelled", list |-> {}]
          /\ phase' = "stopping"
      BY <1>2, <2>3, OwnLoop DEF Cancelled, AfterAnswer, process
    <3>2. QED
      BY <3>1 DEF AnswerHonest
  <2>4. QED
    BY <2>1, <2>2, <2>3
<1>3. QED
  BY <1>1, <1>2

\* setUpstream decides for a 1 only when the console has failed the call.
LEMMA DecideHonest ==
  ASSUME TypeOK, AnswerHonest, Decide \/ Tell \/ TellLost
  PROVE  AnswerHonest'
<1>1. phase' = phase /\ phase # "starting"
  BY DEF Decide, Tell, TellLost, process, AnswerHonest, IdleJob
<1>2. job["devices"] \in Job
  BY DevicesAreALoop DEF TypeOK
<1>3. CASE job'["devices"] = [job["devices"] EXCEPT !.stage = "store"]
  BY <1>1, <1>2, <1>3 DEF AnswerHonest, Job
<1>4. CASE /\ Decide
           /\ Set("devices", [job["devices"] EXCEPT !.stage = "tell"])
           /\ upstream' \in Says(job["devices"].answer) \ {upstream}
  <2>1. job'["devices"] = [job["devices"] EXCEPT !.stage = "tell"]
    BY <1>4, OwnLoop
  <2>2. job["devices"].answer # "none"
    BY <1>4 DEF Decide, AnswerHonest
  <2>3. upstream' = 1 => job["devices"].answer \in {"failed", "denied"}
    BY <1>2, <1>4, <2>2 DEF Says, AnswerHonest, Job
  <2>4. job'["devices"].answer = job["devices"].answer
    BY <1>2, <2>1 DEF Job
  <2>5. QED
    BY <1>1, <2>2, <2>3, <2>4 DEF AnswerHonest
<1>5. QED
  BY <1>3, <1>4, OwnLoop DEF Decide, Tell, TellLost

LEMMA OutcomeHonest ==
  ASSUME TypeOK, AnswerHonest, NEW l \in Loop,
         Succeeds(l) \/ Fails(l) \/ FailsForGood(l) \/ Returns(l)
  PROVE  AnswerHonest'
<1>1. CASE l = "devices"
  BY <1>1, OwnLoop, IdleHonest DEF Succeeds, Fails, FailsForGood, Returns
<1>2. CASE l # "devices"
  <2>1. job'["devices"] = job["devices"] /\ upstream' = upstream
    BY <1>2, OtherLoop DEF Succeeds, Fails, FailsForGood, Returns
  <2>2. phase' = phase \/ phase' = "stopping"
    BY DEF Succeeds, Fails, FailsForGood, Returns, process
  <2>3. QED
    BY <2>1, <2>2 DEF AnswerHonest
<1>3. QED
  BY <1>1, <1>2

LEMMA EndHonest ==
  ASSUME TypeOK, AnswerHonest,
         Stop \/ AnnounceOffline \/ Disconnect \/ Crash \/ Restart
  PROVE  AnswerHonest'
<1>1. CASE Dies
  BY <1>1, IdleHonest, DevicesAreALoop DEF Dies
<1>2. CASE Restart
  BY <1>2, IdleHonest, DevicesAreALoop DEF Restart, Fresh
<1>3. CASE phase' \in {"stopping", "closing"} /\ UNCHANGED <<job, upstream>>
  BY <1>3 DEF AnswerHonest
<1>4. QED
  BY <1>1, <1>2, <1>3 DEF Stop, AnnounceOffline, Disconnect, Crash

\* The connection, the hook and the environment do not touch the poll. A hook
\* that lets the loops begin finds them idle.
LEMMA ElsewhereHonest ==
  ASSUME TypeOK, AnswerHonest,
         \/ Connect \/ Drop \/ WillFires \/ Hook
         \/ ConsoleChanges \/ DeviceMoves \/ UNCHANGED vars
  PROVE  AnswerHonest'
<1>1. UNCHANGED <<job, upstream>>
  BY DEF Connect, Drop, WillFires, Hook, HookResets, HookReads, HookPublishes,
         ConsoleChanges, DeviceMoves, vars
<1>2. phase' = phase \/ (phase = "starting" /\ phase' = "running")
  BY DEF Connect, Drop, WillFires, Hook, HookResets, HookReads, HookPublishes,
         ConsoleChanges, DeviceMoves, vars, process
<1>3. QED
  BY <1>1, <1>2 DEF AnswerHonest, IdleJob

LEMMA HonestStep == TypeOK /\ AnswerHonest /\ [Next]_vars => AnswerHonest'
<1> SUFFICES ASSUME TypeOK, AnswerHonest, [Next]_vars PROVE AnswerHonest'
  OBVIOUS
<1>1. ASSUME NEW l \in Loop, Work(l) PROVE AnswerHonest'
  BY <1>1, PollHonest, OutcomeHonest, DecideHonest DEF Work
<1>2. CASE TellLost
  BY <1>2, DecideHonest
<1>3. CASE Stop \/ Ends \/ Crash \/ Restart
  BY <1>3, EndHonest DEF Ends
<1>4. CASE \/ Connect \/ Drop \/ WillFires \/ Hook
           \/ ConsoleChanges \/ DeviceMoves \/ UNCHANGED vars
  BY <1>4, ElsewhereHonest
<1>5. QED
  BY <1>1, <1>2, <1>3, <1>4 DEF Next

THEOREM AnswersHonest == Spec => []AnswerHonest
<1>1. Init => AnswerHonest
  BY DevicesAreALoop DEF Init, AnswerHonest, IdleJob
<1>2. QED
  BY <1>1, HonestStep, TypeCorrect, PTL DEF Spec

\* Only the announcement of a level can turn the marker from 2 to 1 while the
\* process is stopping.
LEMMA OnlyTellLowers ==
  ASSUME TypeOK, ~HookOutlivesStop, Next, phase = "stopping", marker = 2, marker' = 1
  PROVE  job["devices"].stage = "tell" /\ upstream = 1
<1>1. CASE Tell
  BY <1>1 DEF Tell, SetConnected, Send
<1>2. CASE TellLost
  BY <1>2 DEF TellLost
<1>3. CASE Hook
  BY <1>3 DEF Hook, HookResets, HookReads, HookPublishes, broker
<1>4. CASE Connect \/ WillFires \/ AnnounceOffline
  BY <1>4 DEF Connect, WillFires, AnnounceOffline, Send
<1>5. ASSUME NEW l \in Loop, Work(l), ~Tell PROVE marker' = marker
  BY <1>5 DEF Work, Poll, Answered, Cancelled, Succeeds, Fails, FailsForGood, Returns, Decide, broker
<1>6. CASE Stop \/ Disconnect \/ Drop \/ Crash \/ Restart \/ ConsoleChanges \/ DeviceMoves
  BY <1>6 DEF Stop, Disconnect, Drop, Crash, Restart, ConsoleChanges, DeviceMoves, broker
<1>7. QED
  BY <1>1, <1>2, <1>3, <1>4, <1>5, <1>6 DEF Next, Ends

\* A stop is not reported as an outage (coordinator.go:790-794), provided the
\* client library publishes nothing from the connect hook once the run
\* context is cancelled.
THEOREM StopIsQuiet == ASSUME ~HookOutlivesStop PROVE Spec => QuietStop
<1>1. TypeOK /\ AnswerHonest /\ [Next]_vars =>
        [phase = "stopping" /\ marker = 2 /\ marker' = 1
           => job["devices"].answer \in {"failed", "denied"}]_vars
  BY OnlyTellLowers DEF AnswerHonest
<1>2. QED
  BY <1>1, TypeCorrect, AnswersHonest, PTL DEF Spec, QuietStop

-----------------------------------------------------------------------------
(* The page.                                                               *)

LEMMA PageStep ==
  ASSUME TypeOK, Next
  PROVE  page'.devices \ page.devices \subseteq job["devices"].list
<1>1. ASSUME NEW l \in Loop, Succeeds(l)
      PROVE  page'.devices \ page.devices \subseteq job["devices"].list
  BY <1>1 DEF TypeOK, Page, Succeeds, SetDevices, SetStats
<1>2. CASE HookResets
  BY <1>2 DEF TypeOK, Page, HookResets
<1>3. CASE Dies \/ Fresh
  BY <1>3 DEF Dies, Fresh, EmptyPage
<1>4. ASSUME NEW l \in Loop, Work(l), ~Succeeds(l) PROVE page' = page
  BY <1>4 DEF Work, Poll, Answered, Cancelled, Fails, FailsForGood, Returns, Decide, Tell
<1>5. CASE \/ Connect \/ HookReads \/ HookPublishes \/ WillFires \/ (Stop /\ ~Dies)
           \/ AnnounceOffline \/ Drop \/ TellLost \/ ConsoleChanges \/ DeviceMoves
  BY <1>5 DEF Connect, HookReads, HookPublishes, WillFires, Stop, AnnounceOffline, Drop, TellLost,
              ConsoleChanges, DeviceMoves
<1>6. QED
  BY <1>1, <1>2, <1>3, <1>4, <1>5 DEF Next, Hook, Ends, Disconnect, Crash, Restart

\* The page never shows a device the device loop has not just listed, whenever
\* the statistics of one that left arrive (store.go:121-135).
THEOREM PageHonest == Spec => NoGhost
<1>1. TypeOK /\ [Next]_vars =>
        [page'.devices \ page.devices \subseteq job["devices"].list]_vars
  BY PageStep
<1>2. QED
  BY <1>1, TypeCorrect, PTL DEF Spec, NoGhost
-----------------------------------------------------------------------------
(* No level is left behind.                                                *)

\* A loop that has returned has nothing in hand; before the DISCONNECT the
\* level is 0 or its connection has been lost; and the end has no connection.
Backed ==
    /\ \A l \in Loop \ live : job[l] = IdleJob
    /\ NoStaleLevel
    /\ phase = "closing" /\ marker \in Level => owed
    /\ phase = "ended" => ~link

LEMMA ZeroIsNoLevel == 0 \notin Level /\ -1 \notin Level
  BY DEF Level

\* What a level needs to be sent.
LEMMA SendNeedsLink ==
  ASSUME NEW v, Send(v)
  PROVE  marker' = marker \/ link
  BY DEF Send

LEMMA LoopsBacked ==
  ASSUME TypeOK, Backed, NEW l \in Loop, Work(l)
  PROVE  Backed'
<1>0. /\ job \in [Loop -> Job] /\ live \subseteq Loop /\ (phase = "closing" => live = {})
      /\ "devices" \in Loop
  BY DevicesAreALoop DEF TypeOK
<1>1. l \in live
  <2>1. job[l].stage # "idle" \/ l \in live
    BY DEF Work, Poll, Answered, Cancelled, Succeeds, Fails, FailsForGood, Returns, Decide, Tell
  <2>2. QED
    BY <2>1 DEF Backed, IdleJob
<1>2. CASE l = "devices" /\ Tell
  <2>1. (marker' = marker \/ link) /\ UNCHANGED <<owed, phase, live, link>>
    BY <1>2, SendNeedsLink DEF Tell, SetConnected, process
  <2>2. \A x \in Loop \ live : job'[x] = job[x]
    BY <1>0, <1>1, <1>2 DEF Tell, Set
  <2>3. phase # "closing"
    BY <1>0, <1>1
  <2>4. QED
    BY <2>1, <2>2, <2>3 DEF Backed, NoStaleLevel
<1>3. CASE ~(l = "devices" /\ Tell)
  <2>1. UNCHANGED <<marker, owed, link>>
    BY <1>3 DEF Work, Poll, Answered, Cancelled, Succeeds, Fails, FailsForGood, Returns, Decide, broker
  <2>2. phase' = phase \/ phase' = "stopping"
    BY <1>3 DEF Work, Poll, Answered, Cancelled, Succeeds, Fails, FailsForGood, Returns, Decide, process
  <2>3. \/ live' = live
        \/ live' = live \ {l} /\ job'[l] = IdleJob
    BY <1>0, <1>3 DEF Work, Poll, Answered, Cancelled, Succeeds, Fails, FailsForGood, Returns, Decide,
                      process, Set
  <2>4. \A x \in Loop \ {l} : job'[x] = job[x]
    BY <1>0, <1>3 DEF Work, Poll, Answered, Cancelled, Succeeds, Fails, FailsForGood, Returns, Decide, Set
  <2>5. QED
    BY <1>1, <2>1, <2>2, <2>3, <2>4 DEF Backed, NoStaleLevel
<1>4. QED
  BY <1>2, <1>3

LEMMA ConnectionBacked ==
  ASSUME ~HookOutlivesStop, TypeOK, Backed, Connect \/ Hook \/ WillFires \/ Drop
  PROVE  Backed'
<1>1. CASE Connect
  BY <1>1, ZeroIsNoLevel DEF Connect, Backed, NoStaleLevel, process
<1>2. CASE HookResets \/ HookReads
  BY <1>2 DEF HookResets, HookReads, Backed, NoStaleLevel, broker, process
<1>3. CASE HookPublishes
  <2>1. (marker' = marker \/ link) /\ UNCHANGED <<owed, link, job>>
    BY <1>3, SendNeedsLink DEF HookPublishes, SetConnected
  <2>2. \/ phase \in {"starting", "running"} /\ phase' = "running"
        \/ phase \notin {"starting", "running"} /\ phase' = phase /\ marker' = marker
    BY <1>3 DEF HookPublishes
  <2>3. live' = live \/ live' = Loop
    BY <1>3 DEF HookPublishes
  <2>4. QED
    BY <2>1, <2>2, <2>3 DEF Backed, NoStaleLevel
<1>4. CASE WillFires
  BY <1>4, ZeroIsNoLevel DEF WillFires, Backed, NoStaleLevel, process
<1>5. CASE Drop
  BY <1>5 DEF Drop, Backed, NoStaleLevel, process
<1>6. QED
  BY <1>1, <1>2, <1>3, <1>4, <1>5 DEF Hook

LEMMA EndBacked ==
  ASSUME TypeOK, Backed, Stop \/ Ends \/ Crash \/ Restart \/ TellLost \/ ConsoleChanges \/ DeviceMoves
  PROVE  Backed'
<1>0. job \in [Loop -> Job] /\ (phase = "closing" => live = {}) /\ "devices" \in Loop
  BY DevicesAreALoop DEF TypeOK
<1>1. CASE Stop
  <2>1. CASE phase = "running" /\ phase' = "stopping" /\ UNCHANGED <<owed, link, live, job>>
    BY <1>1, <2>1 DEF Stop, Backed, NoStaleLevel
  <2>2. CASE Dies /\ owed' = (owed \/ link)
    BY <1>1, <2>2 DEF Stop, Dies, Backed, NoStaleLevel
  <2>3. QED
    BY <1>1, <2>1, <2>2 DEF Stop
<1>2. CASE AnnounceOffline
  BY <1>2, ZeroIsNoLevel DEF AnnounceOffline, Send, Backed, NoStaleLevel
<1>3. CASE Disconnect
  BY <1>3 DEF Disconnect, Dies, Backed, NoStaleLevel, broker
<1>4. CASE Crash
  BY <1>4 DEF Crash, Dies, Backed, NoStaleLevel
<1>5. CASE Restart
  <2>1. phase = "ended" /\ UNCHANGED <<marker, owed>> /\ phase' = "starting"
        /\ job' = [l \in Loop |-> IdleJob]
    BY <1>5 DEF Restart, Fresh, broker
  <2>2. ~link
    BY <2>1 DEF Backed
  <2>3. QED
    BY <2>1, <2>2 DEF Backed, NoStaleLevel
<1>6. CASE TellLost
  <2>1. link /\ UNCHANGED <<owed, phase, live, link>>
    BY <1>6 DEF TellLost, process
  <2>2. "devices" \in live
    BY <1>0, <1>6 DEF TellLost, Backed, IdleJob
  <2>3. \A x \in Loop \ live : job'[x] = job[x]
    BY <1>0, <1>6, <2>2 DEF TellLost, Set
  <2>4. QED
    BY <1>0, <2>1, <2>2, <2>3 DEF Backed, NoStaleLevel
<1>7. CASE ConsoleChanges \/ DeviceMoves
  BY <1>7 DEF ConsoleChanges, DeviceMoves, Backed, NoStaleLevel, broker, process
<1>8. QED
  BY <1>1, <1>2, <1>3, <1>4, <1>5, <1>6, <1>7 DEF Ends

\* Whatever the broker shows as up is backed by a session or by a will that
\* is due, provided the connect hook publishes nothing after the context is
\* cancelled: a hook that outlived the 0 would leave its level for good
\* (main.go:375-382).
THEOREM NothingLeftBehind == ASSUME ~HookOutlivesStop PROVE Spec => []NoStaleLevel
<1>1. Init => Backed
  BY ZeroIsNoLevel DEF Init, Backed, NoStaleLevel
<1>2. TypeOK /\ Backed /\ [Next]_vars => Backed'
  <2>1. SUFFICES ASSUME TypeOK, Backed, [Next]_vars PROVE Backed'
    OBVIOUS
  <2>2. CASE UNCHANGED vars
    BY <2>1, <2>2 DEF vars, broker, process, Backed, NoStaleLevel
  <2>3. CASE Next
    BY <2>1, <2>3, LoopsBacked, ConnectionBacked, EndBacked DEF Next
  <2>4. QED
    BY <2>1, <2>2, <2>3
<1>3. Backed => NoStaleLevel
  BY DEF Backed
<1>4. QED
  BY <1>1, <1>2, <1>3, TypeCorrect, PTL DEF Spec


=============================================================================
