--------------------------- MODULE MigrationProofs ---------------------------
(***************************************************************************)
(* Theorems about Migration: for any clients, devices, SSIDs and config    *)
(* topics, any present configuration, and any number of failures and       *)
(* deaths of the process.                                                  *)
(***************************************************************************)
EXTENDS Migration, TLAPS

-----------------------------------------------------------------------------
(* Type correctness.                                                       *)

Busy == mig.stage \in {"settle", "put", "record", "clear"}

\* While an object is settled the round knows it, and the configs it has
\* left are configs of that object; the one being written is among them.
Target ==
    /\ Busy \/ mig.stage = "away" => mig.cur \in Object
    /\ mig.stage = "away" \/ (Busy /\ mig.as = "rebuilt") => mig.cur \in Client
    /\ \A t \in mig.configs : t[1] = mig.cur
    /\ mig.stage \in {"put", "record", "clear"} => mig.call \in mig.configs
    /\ mig.stage \in {"put", "record"} => mig.as # "none"
    /\ ~Busy => mig.configs = {}

Typed == TypeOK /\ Target /\ mig.todo \subseteq reported

LEMMA EventTyped ==
  ASSUME TypeOK, NEW kind \in {"move", "crash", "fail"}, Event(kind)
  PROVE  /\ spent' \in [{"move", "crash", "fail"} -> Nat]
         /\ kind = "fail" => spent'.fail > 0
         /\ spent'.fail >= spent.fail
  BY DEF TypeOK, Event

LEMMA IdleJobTyped == IdleJob \in Job
  BY DEF IdleJob, Job

LEMMA IdleRoundTyped ==
  /\ IdleRound \in Round /\ IdleRound.configs = {} /\ IdleRound.window = {}
  /\ IdleRound.stage = "await" /\ IdleRound.objects = {} /\ IdleRound.todo = {}
  /\ IdleRound.extra = {} /\ IdleRound.items = {}
  BY DEF IdleRound, Round, Config

\* What the actions of the loops leave alone.
LEMMA JobTyped ==
  ASSUME TypeOK, NEW th \in Announcer
  PROVE  /\ job[th] \in Job
         /\ \A j \in Job : Step(th, j) => job' \in [Announcer -> Job]
  BY DEF TypeOK, Step

LEMMA RestTyped ==
  ASSUME Typed, UNCHANGED migVars, reported \subseteq reported'
  PROVE  /\ Target' /\ (mig.todo \subseteq reported)' /\ done' \subseteq reported'
         /\ mig' \in Round /\ mig'.configs \subseteq mig'.window
  BY DEF Typed, TypeOK, Target, Busy, migVars

LEMMA PublishStateTyped ==
  ASSUME TypeOK, NEW c \in Client, NEW v \in Presence, PublishState(c, v)
  PROVE  memo' \in [Client -> Presence] /\ presence' \in [Client -> Presence]
  BY DEF TypeOK, PublishState

LEMMA StaticPollTyped == ASSUME Typed, StaticPoll PROVE Typed'
<1>1. [IdleJob EXCEPT !.stage = "pick", !.list = listed] \in Job
  BY DEF IdleJob, Job, listed, Object
<1>2. job' \in [Announcer -> Job]
  BY <1>1, JobTyped DEF StaticPoll, Typed, Announcer
<1>3. details' \subseteq Device /\ catalogue' \subseteq Wlan
  BY DEF StaticPoll, Typed, TypeOK
<1>4. QED
  BY <1>2, <1>3, RestTyped DEF StaticPoll, Typed, TypeOK, envVars, itemVars, migVars

LEMMA StaticPollFailsTyped == ASSUME Typed, StaticPollFails PROVE Typed'
  BY EventTyped, RestTyped DEF StaticPollFails, Typed, TypeOK, itemVars, pollVars, migVars

LEMMA DevicePollTyped == ASSUME Typed, DevicePoll PROVE Typed'
<1>1. reported' \subseteq Class /\ reported \subseteq reported' /\ seen' \subseteq Device
  BY DEF DevicePoll, Typed, TypeOK, Class
<1>2. QED
  BY <1>1, RestTyped DEF DevicePoll, Typed, TypeOK, envVars, itemVars, migVars

LEMMA ClientPollTyped == ASSUME Typed, ClientPoll PROVE Typed'
<1>1. [IdleJob EXCEPT !.stage = "pick", !.list = here, !.saw = here] \in Job
  BY DEF IdleJob, Job, Typed, TypeOK, Object
<1>2. job' \in [Announcer -> Job]
  BY <1>1, JobTyped DEF ClientPoll, Typed, Announcer
<1>3. QED
  BY <1>2, RestTyped DEF ClientPoll, Typed, TypeOK, envVars, itemVars, pollVars, migVars

LEMMA HealthPollTyped == ASSUME Typed, HealthPoll PROVE Typed'
<1>1. [IdleJob EXCEPT !.stage = "pick", !.list = Health] \in Job
  BY DEF IdleJob, Job, Object
<1>2. job' \in [Announcer -> Job]
  BY <1>1, JobTyped DEF HealthPoll, Typed, Announcer
<1>3. QED
  BY <1>2, RestTyped DEF HealthPoll, Typed, TypeOK, envVars, itemVars, pollVars, migVars

LEMMA PickTyped == ASSUME Typed, NEW th \in Announcer, Pick(th) PROVE Typed'
<1>1. job[th] \in Job
  BY JobTyped DEF Typed
<1>2. PICK o \in FirstOf(job[th].list) :
        /\ tracked' = IF o \in Client THEN [tracked EXCEPT ![o] = "home"] ELSE tracked
        /\ Step(th, [job[th] EXCEPT !.stage = "put", !.list = @ \ {o}, !.cur = o,
                        !.todo = IF o \in latched THEN {} ELSE Rendered(o)])
  BY DEF Pick
<1>3. o \in Object
  BY <1>1 DEF FirstOf, Job
<1>4. Rendered(o) \subseteq Topic
  BY DEF Rendered, TopicsOf
<1>5. [job[th] EXCEPT !.stage = "put", !.list = @ \ {o}, !.cur = o,
          !.todo = IF o \in latched THEN {} ELSE Rendered(o)] \in Job
  BY <1>1, <1>3, <1>4 DEF Job
<1>6. job' \in [Announcer -> Job]
  BY <1>2, <1>5, JobTyped DEF Typed
<1>7. tracked' \in [Client -> {"unknown", "home", "away"}]
  BY <1>2 DEF Typed, TypeOK
<1>8. QED
  BY <1>6, <1>7, RestTyped DEF Pick, Typed, TypeOK, envVars, itemVars, migVars

LEMMA PutTyped == ASSUME Typed, NEW th \in Announcer, Put(th) PROVE Typed'
<1>1. job[th] \in Job
  BY JobTyped DEF Typed
<1>2. PICK t \in job[th].todo :
        IF lastConfig[t] = "live"
        THEN UNCHANGED config /\ Step(th, [job[th] EXCEPT !.todo = @ \ {t}])
        ELSE /\ config' = [config EXCEPT ![t] = "live"]
             /\ Step(th, [job[th] EXCEPT !.sent = t])
  BY DEF Put
<1>3. t \in Topic
  BY <1>1 DEF Job
<1>4. [job[th] EXCEPT !.todo = @ \ {t}] \in Job /\ [job[th] EXCEPT !.sent = t] \in Job
  BY <1>1, <1>3 DEF Job
<1>5. job' \in [Announcer -> Job]
  BY <1>2, <1>4, JobTyped DEF Typed
<1>6. config' \in [Topic -> Config]
  BY <1>2 DEF Typed, TypeOK, Config
<1>7. QED
  BY <1>5, <1>6, RestTyped DEF Put, Typed, TypeOK, envVars, itemVars, pollVars, migVars

LEMMA RecordTyped == ASSUME Typed, NEW th \in Announcer, Record(th) PROVE Typed'
<1>1. job[th] \in Job
  BY JobTyped DEF Typed
<1>2. [job[th] EXCEPT !.sent = None, !.todo = @ \ {job[th].sent}] \in Job
  BY <1>1 DEF Job
<1>3. job' \in [Announcer -> Job]
  BY <1>2, JobTyped DEF Record, Typed
<1>4. lastConfig' \in [Topic -> Config \ {"old"}]
  BY DEF Record, Typed, TypeOK, Config
<1>5. QED
  BY <1>3, <1>4, RestTyped DEF Record, Typed, TypeOK, envVars, itemVars, pollVars, migVars

LEMMA PutFailsTyped == ASSUME Typed, NEW th \in Announcer, PutFails(th) PROVE Typed'
<1>1. job[th] \in Job
  BY JobTyped DEF Typed
<1>2. [job[th] EXCEPT !.stage = "pick", !.cur = None, !.todo = {}] \in Job
  BY <1>1 DEF Job
<1>3. job' \in [Announcer -> Job] /\ running' \in BOOLEAN
  BY <1>2, JobTyped, IdleJobTyped DEF PutFails, Typed, TypeOK
<1>4. spent' \in [{"move", "crash", "fail"} -> Nat]
  BY EventTyped DEF PutFails, Typed
<1>5. QED
  BY <1>3, <1>4, RestTyped DEF PutFails, Typed, TypeOK, itemVars, pollVars, migVars

LEMMA PutDoneTyped == ASSUME Typed, NEW th \in Announcer, PutDone(th) PROVE Typed'
<1>1. job[th] \in Job
  BY JobTyped DEF Typed
<1>2. [job[th] EXCEPT !.stage = "pick", !.cur = None] \in Job
  BY <1>1 DEF Job
<1>3. job' \in [Announcer -> Job]
  BY <1>2, JobTyped DEF PutDone, Typed
<1>4. /\ memo' \in [Client -> Presence] /\ presence' \in [Client -> Presence]
      /\ blocked' \subseteq Client /\ latched' \subseteq Client
  BY PublishStateTyped DEF PutDone, Typed, TypeOK, Presence, itemVars
<1>5. QED
  BY <1>3, <1>4, RestTyped DEF PutDone, Typed, TypeOK, envVars, migVars

LEMMA PollDoneTyped == ASSUME Typed, NEW th \in Announcer, PollDone(th) PROVE Typed'
<1>1. job' \in [Announcer -> Job]
  BY JobTyped, IdleJobTyped DEF PollDone, Typed
<1>2. reported' \subseteq Class /\ reported \subseteq reported'
  BY DEF PollDone, Typed, TypeOK, Class
<1>3. /\ tracked' \in [Client -> {"unknown", "home", "away"}]
      /\ memo' \in [Client -> Presence] /\ presence' \in [Client -> Presence]
  BY DEF PollDone, Typed, TypeOK, Presence
<1>4. QED
  BY <1>1, <1>2, <1>3, RestTyped DEF PollDone, Typed, TypeOK, envVars, migVars

LEMMA MoveTyped == ASSUME Typed, Move PROVE Typed'
  BY EventTyped, RestTyped DEF Move, Typed, TypeOK, itemVars, pollVars, migVars

LEMMA CrashTyped == ASSUME Typed, Crash PROVE Typed'
<1>1. spent' \in [{"move", "crash", "fail"} -> Nat]
  BY EventTyped DEF Crash, Typed
<1>2. mig' \in Round /\ mig'.configs \subseteq mig'.window /\ Target' /\ mig'.todo \subseteq reported'
  BY IdleRoundTyped DEF Crash, Target, Busy
<1>3. reported' \subseteq Class
  BY DEF Crash, ReadyAtStart, Class
<1>4. QED
  BY <1>1, <1>2, <1>3, IdleJobTyped DEF Crash, Typed, TypeOK, Config, Presence

\* What the actions of the migration leave alone.
LEMMA MigTyped ==
  ASSUME Typed, UNCHANGED <<running, pollVars, job, done, here, old>>,
         mig' \in Round, mig'.configs \subseteq mig'.window, Target', mig'.todo \subseteq reported,
         config' \in [Topic -> Config], lastConfig' \in [Topic -> Config \ {"old"}],
         UNCHANGED itemVars, UNCHANGED spent \/ Event("fail")
  PROVE  Typed'
<1>1. spent' \in [{"move", "crash", "fail"} -> Nat]
  BY EventTyped DEF Typed, TypeOK
<1>2. QED
  BY <1>1 DEF Typed, TypeOK, pollVars, itemVars

\* The same, where nothing is written but the round's own state.
LEMMA RoundTyped ==
  ASSUME Typed, UNCHANGED <<running, pollVars, job, done, here, old, config, lastConfig, itemVars>>,
         mig' \in Round, mig'.configs \subseteq mig'.window, Target', mig'.todo \subseteq reported,
         UNCHANGED spent \/ Event("fail")
  PROVE  Typed'
  BY MigTyped DEF Typed, TypeOK

LEMMA RoundFields ==
  ASSUME Typed
  PROVE  /\ mig \in Round /\ mig.configs \subseteq mig.window /\ mig.todo \subseteq reported
         /\ mig.configs \subseteq Topic /\ Target
  BY DEF Typed, TypeOK, Round

LEMMA AwaitTyped == ASSUME Typed, AwaitReady \/ NextRound PROVE Typed'
<1>1. mig' = [mig EXCEPT !.stage = "collect"] /\ ~Busy /\ mig.configs = {}
  BY DEF AwaitReady, NextRound, Mig, Busy, Typed, Target
<1>2. mig' \in Round /\ mig'.configs \subseteq mig'.window /\ mig'.todo \subseteq reported
  BY <1>1, RoundFields DEF Round
<1>3. Target'
  BY <1>1, RoundFields DEF Target, Busy, Round
<1>4. QED
  BY <1>2, <1>3, RoundTyped DEF AwaitReady, NextRound, envVars

LEMMA StartRoundTyped ==
  ASSUME Typed, NEW window \in SUBSET Topic, NEW items \in SUBSET OldItems, StartRound(window, items)
  PROVE  /\ mig' \in Round /\ mig'.configs \subseteq mig'.window /\ mig'.todo \subseteq reported
         /\ Target' /\ mig'.configs = {}
         /\ mig'.window = window /\ mig'.items = items /\ mig'.objects = {t[1] : t \in window}
         /\ mig'.extra = {} /\ mig'.stage = "objects"
<1>1. {t[1] : t \in window} \subseteq Object
  BY MigrationAssumption
<1>2. reported \ done \subseteq Class
  BY DEF Typed, TypeOK
<1>3. /\ mig'.configs = {} /\ mig'.window = window /\ mig'.items = items
      /\ mig'.objects = {t[1] : t \in window} /\ mig'.extra = {}
      /\ mig'.stage = "objects" /\ mig'.todo = reported \ done
  BY DEF StartRound, IdleRound
<1>4. mig' \in Round
  <2>1. mig' = [IdleRound EXCEPT !.stage = "objects", !.todo = reported \ done,
                    !.window = window, !.items = items, !.objects = {t[1] : t \in window}]
    BY DEF StartRound
  <2>2. QED
    BY <1>1, <1>2, <2>1, IdleRoundTyped DEF Round
<1>5. Target'
  BY <1>3 DEF Target, Busy
<1>6. QED
  BY <1>3, <1>4, <1>5

LEMMA CollectTyped == ASSUME Typed, Collect \/ CollectFails PROVE Typed'
<1>1. Window(reported \ done) \subseteq Topic /\ old \subseteq OldItems
  BY DEF Window, Typed, TypeOK
<1>2. mig' \in Round /\ mig'.configs \subseteq mig'.window /\ mig'.todo \subseteq reported /\ Target'
  <2>1. Window(reported \ done) \in SUBSET Topic /\ old \in SUBSET OldItems
        /\ {} \in SUBSET Topic /\ {} \in SUBSET OldItems
    BY <1>1
  <2>2. \/ StartRound(Window(reported \ done), old)
        \/ StartRound({}, old)
        \/ StartRound(Window(reported \ done), {})
    BY DEF Collect, CollectFails
  <2>3. QED
    BY <2>1, <2>2, StartRoundTyped
<1>3. QED
  BY <1>2, RoundTyped DEF Collect, CollectFails, envVars

\* What NextObject does: one of the objects is settled, or a device that is
\* listed and not yet detailed is left for another start.
LEMMA SettlesMoves ==
  ASSUME Typed, NEW o \in mig.objects, NEW as \in {"live", "rebuilt", "none"}, NEW extra \in BOOLEAN,
         as = "rebuilt" => o \in Client, Settles(o, as, extra)
  PROVE  /\ mig' \in Round /\ mig'.configs \subseteq mig'.window /\ Target'
         /\ mig'.todo = mig.todo /\ mig'.objects = mig.objects \ {o} /\ mig'.stage = "settle"
         /\ mig'.cur = o /\ mig'.as = as /\ mig'.window = mig.window /\ mig'.items = mig.items
         /\ mig'.configs = {t \in mig.window : t[1] = o}
         /\ mig'.extra = IF extra THEN mig.extra \cup {o} ELSE mig.extra
<1> DEFINE m == [mig EXCEPT !.stage = "settle", !.objects = @ \ {o}, !.cur = o, !.as = as,
                    !.extra = IF extra THEN @ \cup {o} ELSE @, !.moved = FALSE,
                    !.configs = {t \in mig.window : t[1] = o}]
<1>1. mig' = m /\ mig \in Round /\ o \in Object
  BY RoundFields DEF Settles, Mig, Round
<1>2. m \in Round
  BY <1>1 DEF Round, Config
<1>3. /\ m.todo = mig.todo /\ m.objects = mig.objects \ {o} /\ m.stage = "settle"
      /\ m.cur = o /\ m.as = as /\ m.window = mig.window /\ m.items = mig.items
      /\ m.configs = {t \in mig.window : t[1] = o}
      /\ m.extra = IF extra THEN mig.extra \cup {o} ELSE mig.extra
  BY <1>1 DEF Round
<1> HIDE DEF m
<1>4. Target'
  BY <1>1, <1>3 DEF Target, Busy
<1>5. QED
  BY <1>1, <1>2, <1>3, <1>4

LEMMA NextObjectTyped == ASSUME Typed, NextObject PROVE Typed'
<1>1. mig.stage = "objects" /\ UNCHANGED <<envVars, config, old, itemVars, running, lastConfig, pollVars, job, done>>
  BY DEF NextObject
<1>2. PICK o \in mig.objects :
        \/ o \in Client /\ Settles(o, IF Known(o) THEN "live" ELSE "rebuilt", TRUE)
        \/ o \notin Client /\ ~OnConsole(o) /\ Settles(o, "none", TRUE)
        \/ o \in Device \ details /\ OnConsole(o) /\ Mig([mig EXCEPT !.objects = @ \ {o}])
        \/ o \notin Device \ details /\ OnConsole(o) /\ Settles(o, "live", FALSE)
  BY DEF NextObject, FirstOf
<1>3. mig' \in Round /\ mig'.configs \subseteq mig'.window /\ Target' /\ mig'.todo = mig.todo
  <2>1. CASE Mig([mig EXCEPT !.objects = @ \ {o}])
    <3>1. mig' \in Round /\ mig'.configs = mig.configs /\ mig'.window = mig.window /\ mig'.todo = mig.todo
      BY <2>1, RoundFields DEF Mig, Round
    <3>2. mig'.stage = "objects" /\ mig'.configs = {}
      BY <1>1, <2>1, <3>1, RoundFields DEF Mig, Round, Target, Busy
    <3>3. QED
      BY <3>1, <3>2 DEF Target, Busy
  <2>2. QED
    BY <1>2, <2>1, SettlesMoves
<1>4. QED
  BY <1>1, <1>3, RoundFields, RoundTyped DEF envVars

\* What Check does: a config of this process is left alone, another is
\* written or emptied.
LEMMA CheckMoves ==
  ASSUME Typed, Check
  PROVE  \E t \in mig.configs :
           /\ mig' \in Round /\ mig'.cur = mig.cur /\ mig'.as = mig.as /\ mig'.window = mig.window
           /\ mig'.todo = mig.todo /\ mig'.objects = mig.objects /\ mig'.extra = mig.extra
           /\ mig'.items = mig.items
           /\ \/ /\ WasPublished(t) /\ mig'.configs = mig.configs \ {t} /\ mig'.stage = "settle"
              \/ /\ mig'.configs = mig.configs /\ mig'.call = t
                 /\ mig'.stage = IF mig.as # "none" /\ t \in Rendered(mig.cur) THEN "put" ELSE "clear"
<1>1. PICK t \in mig.configs :
        mig' = IF WasPublished(t)
               THEN [mig EXCEPT !.configs = @ \ {t}]
               ELSE [mig EXCEPT !.call = t, !.stage =
                       IF mig.as # "none" /\ t \in Rendered(mig.cur) THEN "put" ELSE "clear"]
  BY DEF Check, Mig
<1>2. mig \in Round /\ t \in Topic /\ mig.stage = "settle"
  BY RoundFields DEF Check
<1>3. CASE WasPublished(t)
  BY <1>1, <1>2, <1>3 DEF Round
<1>4. CASE ~WasPublished(t)
  BY <1>1, <1>2, <1>4 DEF Round
<1>5. QED
  BY <1>3, <1>4

LEMMA CheckTyped == ASSUME Typed, Check PROVE Typed'
<1>1. mig.stage = "settle"
  BY DEF Check
<1>2. mig' \in Round /\ mig'.configs \subseteq mig'.window /\ mig'.todo \subseteq reported
  BY CheckMoves, RoundFields
<1>3. Target'
  BY <1>1, CheckMoves, RoundFields DEF Target, Busy
<1>4. QED
  BY <1>2, <1>3, RoundTyped DEF Check, envVars

\* The config being written is done with: the object goes on to its next.
LEMMA SettledMoves ==
  ASSUME Typed, NEW moved \in BOOLEAN, mig.stage \in {"put", "record", "clear"}, Mig(Settled(moved))
  PROVE  /\ mig' \in Round /\ mig'.configs \subseteq mig'.window /\ Target'
         /\ mig'.stage = "settle" /\ mig'.cur = mig.cur /\ mig'.as = mig.as /\ mig'.window = mig.window
         /\ mig'.todo = mig.todo /\ mig'.objects = mig.objects /\ mig'.extra = mig.extra
         /\ mig'.items = mig.items /\ mig'.configs = mig.configs \ {mig.call}
<1>1. /\ mig \in Round /\ mig' = [mig EXCEPT !.stage = "settle", !.configs = @ \ {mig.call},
                                             !.call = None, !.moved = @ \/ moved]
  BY RoundFields DEF Mig, Settled
<1>2. mig.moved \/ moved \in BOOLEAN
  OBVIOUS
<1>3. mig' \in Round
  <2>1. mig.moved \in BOOLEAN
    BY <1>1 DEF Round
  <2>2. (mig.moved \/ moved) \in BOOLEAN
    BY <2>1
  <2>3. QED
    BY <1>1, <2>2 DEF Round
<1>4. /\ mig'.stage = "settle" /\ mig'.cur = mig.cur /\ mig'.as = mig.as /\ mig'.window = mig.window
      /\ mig'.todo = mig.todo /\ mig'.objects = mig.objects /\ mig'.extra = mig.extra
      /\ mig'.items = mig.items /\ mig'.configs = mig.configs \ {mig.call}
  BY <1>1 DEF Round
<1>5. mig'.configs \subseteq mig'.window /\ Target'
  BY <1>4, RoundFields DEF Target, Busy
<1>6. QED
  BY <1>3, <1>4, <1>5

LEMMA RepointTyped == ASSUME Typed, Repoint PROVE Typed'
<1>1. /\ mig.stage = "put" /\ mig.call \in Topic /\ mig.as \in Config
      /\ UNCHANGED <<envVars, old, itemVars, running, lastConfig, pollVars, job, done>>
  BY RoundFields DEF Repoint, Target, Round
<1>2. config' \in [Topic -> Config] /\ lastConfig' \in [Topic -> Config \ {"old"}]
  BY <1>1 DEF Repoint, Typed, TypeOK
<1>3. mig' \in Round /\ mig'.configs \subseteq mig'.window /\ Target' /\ mig'.todo = mig.todo
  <2>1. CASE Mig(Settled(TRUE))
    BY <1>1, <2>1, SettledMoves
  <2>2. CASE Mig([mig EXCEPT !.stage = "record"])
    <3>1. /\ mig' \in Round /\ mig'.stage = "record" /\ mig'.cur = mig.cur /\ mig'.as = mig.as
          /\ mig'.window = mig.window /\ mig'.todo = mig.todo /\ mig'.configs = mig.configs
          /\ mig'.call = mig.call
      BY <2>2, RoundFields DEF Mig, Round
    <3>2. QED
      BY <1>1, <3>1, RoundFields DEF Target, Busy
  <2>3. QED
    BY <2>1, <2>2 DEF Repoint
<1>4. QED
  BY <1>1, <1>2, <1>3, RoundFields, MigTyped DEF envVars

LEMMA RepointedTyped == ASSUME Typed, Repointed PROVE Typed'
<1>1. /\ mig.stage = "record" /\ mig.as \in Config \ {"old"} /\ Mig(Settled(TRUE))
      /\ UNCHANGED <<envVars, config, old, itemVars, running, pollVars, job, done>>
  BY RoundFields DEF Repointed, Round
<1>2. config' \in [Topic -> Config] /\ lastConfig' \in [Topic -> Config \ {"old"}]
  BY <1>1 DEF Repointed, Typed, TypeOK
<1>3. QED
  BY <1>1, <1>2, SettledMoves, RoundFields, MigTyped DEF envVars

LEMMA RetractTyped == ASSUME Typed, Retract PROVE Typed'
<1>1. /\ mig.stage = "clear" /\ Mig(Settled(FALSE))
      /\ UNCHANGED <<envVars, old, itemVars, running, pollVars, job, done>>
  BY DEF Retract
<1>2. config' \in [Topic -> Config] /\ lastConfig' \in [Topic -> Config \ {"old"}]
  BY DEF Retract, Typed, TypeOK, Config
<1>3. QED
  BY <1>1, <1>2, SettledMoves, RoundFields, MigTyped DEF envVars

LEMMA SettleFailsTyped == ASSUME Typed, SettleFails PROVE Typed'
<1>1. /\ mig.stage \in {"put", "clear"} /\ Mig(Settled(FALSE)) /\ Event("fail")
      /\ UNCHANGED <<here, config, old, itemVars, running, lastConfig, pollVars, job, done>>
  BY DEF SettleFails
<1>2. QED
  BY <1>1, SettledMoves, RoundFields, RoundTyped

LEMMA AwayItemsTyped == \A c : AwayItems(c) \in Seq({"state", "blocked"})
<1> SUFFICES ASSUME NEW c PROVE AwayItems(c) \in Seq({"state", "blocked"})
  OBVIOUS
<1>1. <<"state">> \in Seq({"state", "blocked"}) /\ <<"blocked">> \in Seq({"state", "blocked"})
      /\ <<>> \in Seq({"state", "blocked"})
  OBVIOUS
<1>2. \A s, t \in Seq({"state", "blocked"}) : s \o t \in Seq({"state", "blocked"})
  OBVIOUS
<1>3. QED
  BY <1>1, <1>2 DEF AwayItems

LEMMA SettleDoneTyped == ASSUME Typed, SettleDone PROVE Typed'
<1>1. mig.stage = "settle" /\ mig.configs = {} /\ mig \in Round /\ Target
  BY RoundFields DEF SettleDone
<1>2. CASE mig' = [mig EXCEPT !.stage = "away", !.away = AwayItems(mig.cur)] /\ mig.as = "rebuilt"
  <2>1. mig' \in Round
    BY <1>1, <1>2, AwayItemsTyped DEF Round
  <2>2. mig'.stage = "away" /\ mig'.configs = {} /\ mig'.cur = mig.cur /\ mig'.todo = mig.todo
    BY <1>1, <1>2 DEF Round
  <2>3. mig.cur \in Client /\ mig.cur \in Object
    BY <1>1, <1>2 DEF Target, Busy
  <2>4. Target'
    BY <2>2, <2>3 DEF Target, Busy
  <2>5. QED
    BY <2>1, <2>2, <2>4, RoundFields, RoundTyped DEF SettleDone, envVars
<1>3. CASE mig' = [mig EXCEPT !.stage = "objects", !.cur = None]
  <2>1. mig' \in Round
    BY <1>1, <1>3 DEF Round
  <2>2. mig'.stage = "objects" /\ mig'.configs = {} /\ mig'.todo = mig.todo
    BY <1>1, <1>3 DEF Round
  <2>3. Target'
    BY <2>2 DEF Target, Busy
  <2>4. QED
    BY <2>1, <2>2, <2>3, RoundFields, RoundTyped DEF SettleDone, envVars
<1>4. QED
  BY <1>2, <1>3 DEF SettleDone, Mig

LEMMA AwayTyped == ASSUME Typed, PublishAway \/ PublishAwayFails \/ AwayDone PROVE Typed'
<1>1. mig.stage = "away" /\ mig.configs = {} /\ mig \in Round /\ mig.cur \in Client /\ mig.cur \in Object
  BY RoundFields DEF PublishAway, PublishAwayFails, AwayDone, Target, Busy
<1>2. CASE PublishAway \/ PublishAwayFails
  <2>1. /\ mig.away # <<>> /\ mig.away \in Seq({"state", "blocked"})
        /\ mig' = [mig EXCEPT !.away = Tail(mig.away)] \/ mig' = [mig EXCEPT !.away = <<>>]
    BY <1>1, <1>2 DEF PublishAway, PublishAwayFails, Mig, Round
  <2>2. PICK a \in Seq({"state", "blocked"}) : mig' = [mig EXCEPT !.away = a]
    <3>1. Tail(mig.away) \in Seq({"state", "blocked"}) /\ <<>> \in Seq({"state", "blocked"})
      BY <2>1
    <3>2. QED
      BY <2>1, <3>1
  <2>3. mig' \in Round
    BY <1>1, <2>2 DEF Round
  <2>4. mig'.stage = "away" /\ mig'.configs = {} /\ mig'.cur = mig.cur /\ mig'.todo = mig.todo
    BY <1>1, <2>2 DEF Round
  <2>5. Target'
    BY <1>1, <2>4 DEF Target, Busy
  <2>6. /\ memo' \in [Client -> Presence] /\ presence' \in [Client -> Presence]
        /\ blocked' \subseteq Client
    BY <1>1, <1>2, PublishStateTyped DEF PublishAway, PublishAwayFails, itemVars, Typed, TypeOK, Presence
  <2>7. spent' \in [{"move", "crash", "fail"} -> Nat]
    BY <1>2, EventTyped DEF PublishAway, PublishAwayFails, envVars, Typed, TypeOK
  <2>8. UNCHANGED <<here, config, old, running, lastConfig, pollVars, job, done>>
    BY <1>2 DEF PublishAway, PublishAwayFails, envVars
  <2>9. QED
    BY <2>3, <2>4, <2>5, <2>6, <2>7, <2>8 DEF Typed, TypeOK, pollVars
<1>3. CASE AwayDone
  <2>1. mig' = [mig EXCEPT !.stage = "objects", !.cur = None]
    BY <1>3 DEF AwayDone, Mig
  <2>2. mig' \in Round
    BY <1>1, <2>1 DEF Round
  <2>3. mig'.stage = "objects" /\ mig'.configs = {} /\ mig'.todo = mig.todo
    BY <1>1, <2>1 DEF Round
  <2>4. Target'
    BY <2>3 DEF Target, Busy
  <2>5. QED
    BY <1>3, <2>2, <2>3, <2>4, RoundFields, RoundTyped DEF AwayDone, envVars
<1>4. QED
  BY <1>2, <1>3

\* What the eviction leaves alone of the round.
LEMMA EvictMoves ==
  ASSUME Typed, StartEvict \/ Evict \/ EvictFails
  PROVE  /\ mig' \in Round /\ mig'.stage = "evict" /\ mig'.configs = {} /\ mig'.todo = mig.todo
         /\ mig'.extra = mig.extra /\ mig'.window = mig.window /\ mig'.objects = mig.objects
         /\ mig'.items \subseteq mig.items
<1>1. mig.stage \in {"objects", "evict"} /\ mig \in Round /\ mig.configs = {}
  BY RoundFields DEF StartEvict, Evict, EvictFails, Target, Busy
<1>2. CASE StartEvict
  BY <1>1, <1>2 DEF StartEvict, Mig, Round
<1>3. CASE Evict
  BY <1>1, <1>3 DEF Evict, Mig, Round
<1>4. CASE EvictFails
  BY <1>1, <1>4 DEF EvictFails, Mig, Round
<1>5. QED
  BY <1>2, <1>3, <1>4

LEMMA EvictTyped == ASSUME Typed, StartEvict \/ Evict \/ EvictFails PROVE Typed'
<1>1. old' \subseteq OldItems
  BY DEF StartEvict, Evict, EvictFails, Typed, TypeOK
<1>2. spent' \in [{"move", "crash", "fail"} -> Nat]
  BY EventTyped DEF StartEvict, Evict, EvictFails, envVars, Typed, TypeOK
<1>3. Target'
  BY EvictMoves DEF Target, Busy
<1>4. UNCHANGED <<here, config, itemVars, running, lastConfig, pollVars, job, done>>
  BY DEF StartEvict, Evict, EvictFails, envVars
<1>5. QED
  BY <1>1, <1>2, <1>3, <1>4, EvictMoves DEF Typed, TypeOK, pollVars, itemVars

LEMMA RoundEndTyped == ASSUME Typed, RoundEnd PROVE Typed'
<1>1. /\ mig' \in Round /\ mig'.configs = {} /\ mig'.todo = {}
      /\ mig'.stage \in {"done", "wait"}
  <2>1. \/ mig' = [IdleRound EXCEPT !.stage = "done"]
        \/ mig' = [IdleRound EXCEPT !.stage = "wait"]
    BY DEF RoundEnd, Mig
  <2>2. QED
    BY <2>1, IdleRoundTyped DEF Round
<1>2. Target'
  BY <1>1 DEF Target, Busy
<1>3. done' \subseteq reported
  BY DEF RoundEnd, Typed, TypeOK
<1>4. QED
  BY <1>1, <1>2, <1>3 DEF RoundEnd, Typed, TypeOK, envVars, itemVars, pollVars

LEMMA TypedStep == Typed /\ [Next]_vars => Typed'
<1> SUFFICES ASSUME Typed, [Next]_vars PROVE Typed'
  OBVIOUS
<1>1. CASE StaticPoll \/ DevicePoll \/ ClientPoll \/ HealthPoll \/ Move \/ Crash
  BY <1>1, StaticPollTyped, DevicePollTyped, ClientPollTyped, HealthPollTyped, MoveTyped, CrashTyped
<1>2. ASSUME NEW th \in Announcer, Announce(th) PROVE Typed'
  BY <1>2, PickTyped, PutTyped, RecordTyped, PutDoneTyped, PollDoneTyped DEF Announce
<1>3. CASE Migrate
  BY <1>3, AwaitTyped, CollectTyped, NextObjectTyped, CheckTyped, RepointTyped, RepointedTyped,
     RetractTyped, SettleDoneTyped, AwayTyped, EvictTyped, RoundEndTyped DEF Migrate
<1>4. CASE Fails
  BY <1>4, StaticPollFailsTyped, CollectTyped, SettleFailsTyped, AwayTyped, EvictTyped, PutFailsTyped DEF Fails
<1>5. CASE UNCHANGED vars
  BY <1>5 DEF vars, envVars, itemVars, pollVars, migVars, Typed, TypeOK, Target, Busy
<1>6. QED
  BY <1>1, <1>2, <1>3, <1>4, <1>5 DEF Next

LEMMA InitTyped == Init => Typed
<1> SUFFICES ASSUME Init PROVE Typed
  OBVIOUS
<1>1. mig \in Round /\ mig.configs \subseteq mig.window /\ Target /\ mig.todo \subseteq reported
  BY IdleRoundTyped DEF Init, Target, Busy
<1>2. reported \subseteq Class
  BY DEF Init, ReadyAtStart, Class
<1>3. spent \in [{"move", "crash", "fail"} -> Nat]
  BY DEF Init
<1>4. QED
  BY <1>1, <1>2, <1>3, IdleJobTyped DEF Init, Typed, TypeOK, Config, Presence

LEMMA AlwaysTyped == Spec => []Typed
  BY InitTyped, TypedStep, PTL DEF Spec

\* Migration is type correct: the client and the config a round works on
\* are what it has read, whatever the loops do meanwhile.
THEOREM TypeCorrect == Spec => []TypeOK
  BY AlwaysTyped, PTL DEF Typed

-----------------------------------------------------------------------------
(* What a step of the re-point does.                                       *)

Keeps == mig'.objects \subseteq mig.objects /\ mig'.window = mig.window /\ mig'.extra = mig.extra
KeepsTarget == mig'.cur = mig.cur /\ mig'.as = mig.as

\* A round begins with what it has read of the 1.x configs.
Opens ==
    /\ mig'.stage = "objects" /\ mig'.configs = {} /\ mig'.extra = {}
    /\ mig'.window \in {{}, Window(reported \ done)}
    /\ mig'.objects = {t[1] : t \in mig'.window}
    /\ UNCHANGED config

\* An object is taken up, to be retracted only where no loop has it.
TakesUp ==
    \E o \in mig.objects :
        /\ mig.configs = {} /\ mig'.stage = "settle" /\ mig'.cur = o
        /\ mig'.objects \subseteq mig.objects /\ mig'.window = mig.window
        /\ mig'.configs = {t \in mig.window : t[1] = o}
        /\ mig'.extra \subseteq mig.extra \cup {o}
        /\ mig'.as = "none" => o \notin Client /\ ~OnConsole(o)
        /\ UNCHANGED config

\* A config is looked at.
Looks ==
    /\ Keeps /\ KeepsTarget /\ Busy
    /\ \E t \in mig.configs :
         \/ WasPublished(t) /\ mig'.configs = mig.configs \ {t} /\ mig'.stage = "settle"
         \/ /\ mig'.configs = mig.configs /\ mig'.call = t
            /\ mig'.stage = IF mig.as # "none" /\ t \in Rendered(mig.cur) THEN "put" ELSE "clear"
    /\ UNCHANGED config

\* It is written...
Writes ==
    /\ Keeps /\ KeepsTarget /\ Busy
    /\ mig.stage = "put" /\ mig'.stage = "record"
    /\ mig'.configs = mig.configs /\ mig'.call = mig.call
    /\ config' = [config EXCEPT ![mig.call] = mig.as]

\* ...and done with: recorded, emptied, found written already, or failed.
TurnsTo ==
    /\ Keeps /\ KeepsTarget /\ Busy
    /\ mig'.stage = "settle" /\ mig'.configs = mig.configs \ {mig.call}
    /\ \/ mig.stage = "record" /\ UNCHANGED config
       \/ mig.stage = "clear" /\ config' = [config EXCEPT ![mig.call] = "none"]
       \/ mig.stage = "put" /\ lastConfig[mig.call] = mig.as /\ UNCHANGED config
       \/ spent'.fail > 0 /\ UNCHANGED config

\* No config is in hand.
Idles ==
    /\ Keeps /\ mig.configs = {} /\ mig'.configs = {} /\ ~Busy'
    /\ mig'.stage = "evict" =>
         \/ mig.stage = "evict" /\ mig'.items \subseteq mig.items
         \/ \A i \in mig'.items : Owned(i[1])
    /\ UNCHANGED config

Closes ==
    /\ mig'.objects = {} /\ mig'.extra = {} /\ mig'.configs = {}
    /\ mig'.stage \in {"done", "wait"}
    /\ UNCHANGED config

RoundMoves == Opens \/ TakesUp \/ Looks \/ Writes \/ TurnsTo \/ Idles \/ Closes

\* The gate only ever learns what has just been written, or forgets.
GateFollows ==
    \A t \in Topic : \/ lastConfig'[t] \in {"none", lastConfig[t]}
                     \/ mig.stage = "record" /\ t = mig.call
                     \/ \E th \in Announcer : job[th].sent = t /\ t # None

Rounds == Migrate \/ CollectFails \/ SettleFails \/ PublishAwayFails \/ EvictFails

LEMMA RoundBegins ==
  ASSUME Typed, AwaitReady \/ NextRound \/ Collect \/ CollectFails
  PROVE  RoundMoves
<1>1. CASE AwaitReady \/ NextRound
  <2>1. mig' = [mig EXCEPT !.stage = "collect"] /\ ~Busy /\ UNCHANGED config
    BY <1>1 DEF AwaitReady, NextRound, Mig, Busy
  <2>2. mig.configs = {}
    BY <2>1, RoundFields DEF Target
  <2>3. Idles
    BY <2>1, <2>2, RoundFields DEF Idles, Keeps, Busy, Round
  <2>4. QED
    BY <2>3 DEF RoundMoves
<1>2. CASE Collect \/ CollectFails
  <2>1. /\ \E window \in {{}, Window(reported \ done)} : \E items \in {{}, old} : StartRound(window, items)
        /\ UNCHANGED config
    BY <1>2 DEF Collect, CollectFails
  <2>2. PICK window \in {{}, Window(reported \ done)} : \E items \in {{}, old} : StartRound(window, items)
    BY <2>1
  <2>3. PICK items \in {{}, old} : StartRound(window, items)
    BY <2>2
  <2>4. window \in SUBSET Topic /\ items \in SUBSET OldItems
    BY DEF Window, Typed, TypeOK
  <2>5. /\ mig'.stage = "objects" /\ mig'.configs = {} /\ mig'.extra = {}
        /\ mig'.window = window /\ mig'.objects = {t[1] : t \in window}
    BY <2>3, <2>4, StartRoundTyped
  <2>6. Opens
    BY <2>1, <2>5 DEF Opens
  <2>7. QED
    BY <2>6 DEF RoundMoves
<1>3. QED
  BY <1>1, <1>2

LEMMA NextObjectMoves == ASSUME Typed, NextObject PROVE RoundMoves
<1>1. PICK o \in mig.objects :
        \/ o \in Client /\ Settles(o, IF Known(o) THEN "live" ELSE "rebuilt", TRUE)
        \/ o \notin Client /\ ~OnConsole(o) /\ Settles(o, "none", TRUE)
        \/ o \in Device \ details /\ OnConsole(o) /\ Mig([mig EXCEPT !.objects = @ \ {o}])
        \/ o \notin Device \ details /\ OnConsole(o) /\ Settles(o, "live", FALSE)
  BY DEF NextObject, FirstOf
<1>2. mig.stage = "objects" /\ UNCHANGED config /\ mig.configs = {}
  BY RoundFields DEF NextObject, Target, Busy
<1>3. CASE Mig([mig EXCEPT !.objects = @ \ {o}])
  <2>1. Idles
    BY <1>2, <1>3, RoundFields DEF Idles, Keeps, Mig, Busy, Round
  <2>2. QED
    BY <2>1 DEF RoundMoves
<1>4. ASSUME NEW as \in {"live", "rebuilt", "none"}, NEW extra \in BOOLEAN, as = "rebuilt" => o \in Client,
             as = "none" => o \notin Client /\ ~OnConsole(o), Settles(o, as, extra)
      PROVE  RoundMoves
  <2>1. /\ mig'.objects = mig.objects \ {o} /\ mig'.stage = "settle"
        /\ mig'.cur = o /\ mig'.as = as /\ mig'.window = mig.window
        /\ mig'.configs = {t \in mig.window : t[1] = o}
        /\ mig'.extra = IF extra THEN mig.extra \cup {o} ELSE mig.extra
    BY <1>4, SettlesMoves
  <2>2. TakesUp
    BY <1>2, <1>4, <2>1 DEF TakesUp
  <2>3. QED
    BY <2>2 DEF RoundMoves
<1>5. QED
  BY <1>1, <1>3, <1>4

LEMMA WritingMoves ==
  ASSUME Typed, Check \/ Repoint \/ Repointed \/ Retract \/ SettleFails
  PROVE  RoundMoves
<1>1. CASE Check
  <2>1. Looks
    BY <1>1, CheckMoves DEF Looks, Keeps, KeepsTarget, Busy, Check
  <2>2. QED
    BY <2>1 DEF RoundMoves
<1>2. ASSUME NEW moved \in BOOLEAN, mig.stage \in {"put", "record", "clear"}, Mig(Settled(moved))
      PROVE  /\ Keeps /\ KeepsTarget /\ Busy
             /\ mig'.stage = "settle" /\ mig'.configs = mig.configs \ {mig.call}
  BY <1>2, SettledMoves DEF Keeps, KeepsTarget, Busy
<1>3. CASE Repoint
  <2>1. CASE lastConfig[mig.call] = mig.as
    <3>1. Mig(Settled(TRUE)) /\ mig.stage = "put" /\ UNCHANGED config
      BY <1>3, <2>1 DEF Repoint
    <3>2. TurnsTo
      BY <1>2, <2>1, <3>1 DEF TurnsTo
    <3>3. QED
      BY <3>2 DEF RoundMoves
  <2>2. CASE lastConfig[mig.call] # mig.as
    <3>1. /\ mig' = [mig EXCEPT !.stage = "record"] /\ mig.stage = "put"
          /\ config' = [config EXCEPT ![mig.call] = mig.as]
      BY <1>3, <2>2 DEF Repoint, Mig
    <3>2. Writes
      BY <3>1, RoundFields DEF Writes, Keeps, KeepsTarget, Busy, Round
    <3>3. QED
      BY <3>2 DEF RoundMoves
  <2>3. QED
    BY <2>1, <2>2
<1>4. CASE Repointed \/ Retract \/ SettleFails
  <2>1. \E moved \in BOOLEAN : Mig(Settled(moved))
    BY <1>4 DEF Repointed, Retract, SettleFails
  <2>2. /\ mig.stage \in {"put", "record", "clear"}
        /\ \/ mig.stage = "record" /\ UNCHANGED config
           \/ mig.stage = "clear" /\ config' = [config EXCEPT ![mig.call] = "none"]
           \/ spent'.fail > 0 /\ UNCHANGED config
    BY <1>4, EventTyped DEF Repointed, Retract, SettleFails, Typed
  <2>3. TurnsTo
    BY <1>2, <2>1, <2>2 DEF TurnsTo
  <2>4. QED
    BY <2>3 DEF RoundMoves
<1>5. QED
  BY <1>1, <1>3, <1>4

LEMMA ClosingMoves ==
  ASSUME Typed, SettleDone \/ PublishAway \/ PublishAwayFails \/ AwayDone
                \/ StartEvict \/ Evict \/ EvictFails \/ RoundEnd
  PROVE  RoundMoves
<1>1. mig \in Round /\ Target
  BY RoundFields
<1>2. CASE SettleDone
  <2>1. mig.configs = {} /\ UNCHANGED config
        /\ (\/ mig' = [mig EXCEPT !.stage = "away", !.away = AwayItems(mig.cur)]
            \/ mig' = [mig EXCEPT !.stage = "objects", !.cur = None])
    BY <1>2 DEF SettleDone, Mig
  <2>2. Idles
    BY <1>1, <2>1 DEF Idles, Keeps, Busy, Round
  <2>3. QED
    BY <2>2 DEF RoundMoves
<1>3. CASE PublishAway \/ PublishAwayFails \/ AwayDone
  <2>1. /\ mig.stage = "away" /\ UNCHANGED config
        /\ \/ mig' = [mig EXCEPT !.away = Tail(@)]
           \/ mig' = [mig EXCEPT !.away = <<>>]
           \/ mig' = [mig EXCEPT !.stage = "objects", !.cur = None]
    BY <1>3 DEF PublishAway, PublishAwayFails, AwayDone, Mig
  <2>2. mig.configs = {}
    BY <1>1, <2>1 DEF Target, Busy
  <2>3. Idles
    BY <1>1, <2>1, <2>2 DEF Idles, Keeps, Busy, Round
  <2>4. QED
    BY <2>3 DEF RoundMoves
<1>4. CASE StartEvict \/ Evict \/ EvictFails
  <2>1. mig.configs = {} /\ UNCHANGED config
    BY <1>1, <1>4 DEF StartEvict, Evict, EvictFails, Target, Busy
  <2>2. \/ mig.stage = "evict" /\ mig'.items \subseteq mig.items
        \/ \A i \in mig'.items : Owned(i[1])
    <3>1. CASE StartEvict
      <4>1. mig'.items = {i \in mig.items : Owned(i[1])}
        BY <1>1, <3>1 DEF StartEvict, Mig, Round
      <4>2. QED
        BY <4>1
    <3>2. CASE Evict \/ EvictFails
      BY <3>2, EvictMoves DEF Evict, EvictFails
    <3>3. QED
      BY <1>4, <3>1, <3>2
  <2>3. Idles
    BY <1>4, <2>1, <2>2, EvictMoves DEF Idles, Keeps, Busy
  <2>4. QED
    BY <2>3 DEF RoundMoves
<1>5. CASE RoundEnd
  <2>1. \/ mig' = [IdleRound EXCEPT !.stage = "done"]
        \/ mig' = [IdleRound EXCEPT !.stage = "wait"]
    BY <1>5 DEF RoundEnd, Mig
  <2>2. Closes
    BY <1>5, <2>1 DEF Closes, RoundEnd, IdleRound
  <2>3. QED
    BY <2>2 DEF RoundMoves
<1>6. QED
  BY <1>2, <1>3, <1>4, <1>5

LEMMA RoundsMove ==
  ASSUME Typed, Rounds
  PROVE  RoundMoves /\ UNCHANGED <<pollVars, job>>
<1>1. RoundMoves
  BY RoundBegins, NextObjectMoves, WritingMoves, ClosingMoves DEF Rounds, Migrate
<1>2. UNCHANGED <<pollVars, job>>
  <2>1. CASE AwaitReady \/ NextRound \/ Collect \/ CollectFails \/ NextObject \/ Check
    BY <2>1 DEF AwaitReady, NextRound, Collect, CollectFails, NextObject, Check
  <2>2. CASE Repoint \/ Repointed \/ Retract \/ SettleFails \/ SettleDone
    BY <2>2 DEF Repoint, Repointed, Retract, SettleFails, SettleDone
  <2>3. CASE PublishAway \/ PublishAwayFails \/ AwayDone \/ StartEvict \/ Evict \/ EvictFails \/ RoundEnd
    BY <2>3 DEF PublishAway, PublishAwayFails, AwayDone, StartEvict, Evict, EvictFails, RoundEnd
  <2>4. QED
    BY <2>1, <2>2, <2>3 DEF Rounds, Migrate
<1>3. QED
  BY <1>1, <1>2

-----------------------------------------------------------------------------
(* What a step of the loops does.                                          *)

\* What they have read only grows, and answers are reported after what they
\* say is known; what they publish comes from what they have read.
LoopMoves ==
    /\ UNCHANGED mig
    /\ reported \subseteq reported' /\ catalogue \subseteq catalogue'
    /\ details' \in {details, listed \cap Device}
    /\ \/ seen' = listed \cap Device
       \/ seen' = seen /\ ("device" \in reported' => "device" \in reported)
    /\ \/ listed \cap Wlan \subseteq catalogue'
       \/ /\ "wlan" \in reported' => "wlan" \in reported \/ job["static"].stage # "idle"
          /\ job'["static"].stage # "idle" => job["static"].stage # "idle"
    /\ \A c \in Client : tracked[c] # "unknown" => tracked'[c] # "unknown"
    /\ \A t \in Topic : config'[t] \in {config[t], "live"}

\* What is sent and not recorded has just been sent, or was before.
SentFollows ==
    \A th \in Announcer : \/ job'[th].sent \in {None, job[th].sent}
                          \/ config'[job'[th].sent] = "live"

Loops ==
    \/ StaticPoll \/ StaticPollFails \/ DevicePoll \/ ClientPoll \/ HealthPoll \/ Move
    \/ \E th \in Announcer : Announce(th) \/ PutFails(th)

LEMMA PollsMove ==
  ASSUME Typed, StaticPoll \/ StaticPollFails \/ DevicePoll \/ ClientPoll \/ HealthPoll \/ Move
  PROVE  LoopMoves /\ SentFollows /\ GateFollows
<1>0. "static" \in Announcer /\ job \in [Announcer -> Job]
  BY DEF Announcer, Typed, TypeOK
<1>1. LoopMoves
  <2>1. CASE StaticPoll
    BY <2>1 DEF StaticPoll, LoopMoves, migVars
  <2>2. CASE StaticPollFails \/ Move
    BY <2>2 DEF StaticPollFails, Move, LoopMoves, migVars, pollVars
  <2>3. CASE DevicePoll
    BY <2>3 DEF DevicePoll, LoopMoves, migVars
  <2>4. CASE ClientPoll \/ HealthPoll
    <3>1. job'["static"] = job["static"]
      BY <1>0, <2>4 DEF ClientPoll, HealthPoll, Step
    <3>2. QED
      BY <2>4, <3>1 DEF ClientPoll, HealthPoll, LoopMoves, migVars, pollVars
  <2>5. QED
    BY <2>1, <2>2, <2>3, <2>4
<1>2. SentFollows
  <2>1. \A th \in Announcer : job'[th] = job[th] \/ job'[th].sent = None
    BY <1>0 DEF StaticPoll, StaticPollFails, DevicePoll, ClientPoll, HealthPoll, Move, Step, IdleJob
  <2>2. QED
    BY <2>1 DEF SentFollows
<1>3. GateFollows
  BY DEF StaticPoll, StaticPollFails, DevicePoll, ClientPoll, HealthPoll, Move, GateFollows
<1>4. QED
  BY <1>1, <1>2, <1>3

LEMMA AnnounceMoves ==
  ASSUME Typed, NEW th \in Announcer, Announce(th) \/ PutFails(th)
  PROVE  LoopMoves /\ SentFollows /\ GateFollows
<1>0. "static" \in Announcer /\ job \in [Announcer -> Job] /\ job[th] \in Job
  BY DEF Announcer, Typed, TypeOK
<1>1. CASE Pick(th)
  <2>1. \E o \in job[th].list :
          /\ tracked' = IF o \in Client THEN [tracked EXCEPT ![o] = "home"] ELSE tracked
          /\ job' = [job EXCEPT ![th] = [job[th] EXCEPT !.stage = "put", !.list = @ \ {o}, !.cur = o,
                                          !.todo = IF o \in latched THEN {} ELSE Rendered(o)]]
    BY <1>1 DEF Pick, FirstOf, Step
  <2>2. /\ job[th].stage = "pick" /\ \A a \in Announcer : job'[a].sent = job[a].sent
        /\ \A a \in Announcer : job'[a].stage # "idle" => job[a].stage # "idle"
    BY <1>0, <1>1, <2>1 DEF Pick, Job
  <2>3. \A c \in Client : tracked[c] # "unknown" => tracked'[c] # "unknown"
    BY <2>1 DEF Typed, TypeOK
  <2>4. LoopMoves
    BY <1>0, <1>1, <2>2, <2>3 DEF Pick, LoopMoves, migVars
  <2>5. SentFollows /\ GateFollows
    BY <1>1, <2>2 DEF Pick, SentFollows, GateFollows
  <2>6. QED
    BY <2>4, <2>5
<1>2. CASE Put(th)
  <2>1. PICK t \in job[th].todo :
          IF lastConfig[t] = "live"
          THEN UNCHANGED config /\ job' = [job EXCEPT ![th] = [job[th] EXCEPT !.todo = @ \ {t}]]
          ELSE /\ config' = [config EXCEPT ![t] = "live"]
               /\ job' = [job EXCEPT ![th] = [job[th] EXCEPT !.sent = t]]
    BY <1>2 DEF Put, Step
  <2>2. t \in Topic
    BY <1>0 DEF Job
  <2>3. /\ \A u \in Topic : config'[u] \in {config[u], "live"}
        /\ \A a \in Announcer : job'[a].stage = job[a].stage
        /\ \A a \in Announcer : job'[a].sent = job[a].sent \/ config'[job'[a].sent] = "live"
    BY <1>0, <2>1, <2>2 DEF Job, Typed, TypeOK
  <2>4. LoopMoves
    BY <1>0, <1>2, <2>3 DEF Put, LoopMoves, migVars, pollVars
  <2>5. SentFollows /\ GateFollows
    BY <1>2, <2>3 DEF Put, SentFollows, GateFollows
  <2>6. QED
    BY <2>4, <2>5
<1>3. CASE Record(th)
  <2>1. /\ job' = [job EXCEPT ![th] = [job[th] EXCEPT !.sent = None, !.todo = @ \ {job[th].sent}]]
        /\ job[th].sent # None /\ job[th].sent \in Topic
        /\ lastConfig' = [lastConfig EXCEPT ![job[th].sent] = "live"]
    BY <1>0, <1>3 DEF Record, Step, Job
  <2>2. /\ \A a \in Announcer : job'[a].stage = job[a].stage
        /\ \A a \in Announcer : job'[a].sent = job[a].sent \/ job'[a].sent = None
    BY <1>0, <2>1 DEF Job
  <2>3. LoopMoves
    BY <1>0, <1>3, <2>2 DEF Record, LoopMoves, migVars, pollVars
  <2>4. SentFollows
    BY <2>2 DEF SentFollows
  <2>5. GateFollows
    <3>1. \A u \in Topic : u # job[th].sent => lastConfig'[u] = lastConfig[u]
      BY <2>1 DEF Typed, TypeOK
    <3>2. QED
      BY <2>1, <3>1 DEF GateFollows
  <2>6. QED
    BY <2>3, <2>4, <2>5
<1>4. CASE PutDone(th) \/ PutFails(th)
  <2>1. /\ job[th].stage = "put"
        /\ \/ job' = [job EXCEPT ![th] = [job[th] EXCEPT !.stage = "pick", !.cur = None]]
           \/ job' = [job EXCEPT ![th] = [job[th] EXCEPT !.stage = "pick", !.cur = None, !.todo = {}]]
           \/ job' = [job EXCEPT ![th] = IdleJob]
    BY <1>4 DEF PutDone, PutFails, Step
  <2>2. /\ \A a \in Announcer : job'[a].stage # "idle" => job[a].stage # "idle"
        /\ \A a \in Announcer : job'[a].sent = job[a].sent \/ job'[a].sent = None
    <3>1. PICK j : /\ job' = [job EXCEPT ![th] = j] /\ j.sent \in {None, job[th].sent}
      <4>1. [job[th] EXCEPT !.stage = "pick", !.cur = None].sent = job[th].sent
        BY <1>0 DEF Job
      <4>2. [job[th] EXCEPT !.stage = "pick", !.cur = None, !.todo = {}].sent = job[th].sent
        BY <1>0 DEF Job
      <4>3. IdleJob.sent = None
        BY DEF IdleJob
      <4>4. QED
        BY <2>1, <4>1, <4>2, <4>3
    <3>2. \A a \in Announcer : a # th => job'[a] = job[a]
      BY <1>0, <3>1
    <3>3. job'[th].sent \in {None, job[th].sent}
      BY <1>0, <3>1
    <3>4. QED
      BY <2>1, <3>2, <3>3
  <2>3. LoopMoves
    BY <1>0, <1>4, <2>2 DEF PutDone, PutFails, LoopMoves, migVars, pollVars
  <2>4. SentFollows /\ GateFollows
    BY <1>4, <2>2 DEF PutDone, PutFails, SentFollows, GateFollows
  <2>5. QED
    BY <2>3, <2>4
<1>5. CASE PollDone(th)
  <2>1. /\ job' = [job EXCEPT ![th] = IdleJob] /\ job[th].stage = "pick"
        /\ reported \subseteq reported'
        /\ \A k \in reported' \ reported : (k = "wlan" /\ th = "static") \/ k \in {"client", "site"}
    BY <1>5 DEF PollDone, Step
  <2>2. /\ \A a \in Announcer : job'[a].stage # "idle" => job[a].stage # "idle"
        /\ \A a \in Announcer : job'[a].sent = job[a].sent \/ job'[a].sent = None
    BY <1>0, <2>1 DEF Job, IdleJob
  <2>3. \A c \in Client : tracked[c] # "unknown" => tracked'[c] # "unknown"
    BY <1>5 DEF PollDone, Typed, TypeOK
  <2>4. LoopMoves
    BY <1>0, <1>5, <2>1, <2>2, <2>3 DEF PollDone, LoopMoves, migVars
  <2>5. SentFollows /\ GateFollows
    BY <1>5, <2>2 DEF PollDone, SentFollows, GateFollows
  <2>6. QED
    BY <2>4, <2>5
<1>6. QED
  BY <1>1, <1>2, <1>3, <1>4, <1>5 DEF Announce

LEMMA LoopsMove == ASSUME Typed, Loops PROVE LoopMoves /\ SentFollows /\ GateFollows
  BY PollsMove, AnnounceMoves DEF Loops

LEMMA RoundsGate == ASSUME Typed, Rounds PROVE GateFollows
<1>1. CASE Repointed \/ Retract
  <2>1. \A t \in Topic : t # mig.call => lastConfig'[t] = lastConfig[t]
    BY <1>1 DEF Repointed, Retract, Typed, TypeOK
  <2>2. CASE Repointed
    BY <2>1, <2>2 DEF Repointed, GateFollows
  <2>3. CASE Retract
    BY <2>1, <2>3 DEF Retract, GateFollows, Typed, TypeOK
  <2>4. QED
    BY <1>1, <2>2, <2>3
<1>2. CASE AwaitReady \/ NextRound \/ Collect \/ CollectFails \/ NextObject \/ Check
  BY <1>2 DEF AwaitReady, NextRound, Collect, CollectFails, NextObject, Check, GateFollows
<1>3. CASE Repoint \/ SettleFails \/ SettleDone
  BY <1>3 DEF Repoint, SettleFails, SettleDone, GateFollows
<1>4. CASE PublishAway \/ PublishAwayFails \/ AwayDone \/ StartEvict \/ Evict \/ EvictFails \/ RoundEnd
  BY <1>4 DEF PublishAway, PublishAwayFails, AwayDone, StartEvict, Evict, EvictFails, RoundEnd, GateFollows
<1>5. QED
  BY <1>1, <1>2, <1>3, <1>4 DEF Rounds, Migrate

\* A step is the loops', the re-point's, or a death of the process.
LEMMA StepMoves ==
  ASSUME Typed, Next
  PROVE  \/ Loops /\ LoopMoves /\ SentFollows /\ GateFollows
         \/ Rounds /\ RoundMoves /\ GateFollows /\ UNCHANGED <<pollVars, job>>
         \/ Crash
<1>1. Loops \/ Rounds \/ Crash
  BY DEF Next, Loops, Rounds, Fails
<1>2. QED
  BY <1>1, LoopsMove, RoundsMove, RoundsGate

-----------------------------------------------------------------------------
(* Nothing live is retracted.                                              *)

\* A source that has answered has said all the console has of its class.
Heard ==
    /\ seen \cup details \subseteq listed
    /\ "device" \in reported => seen = listed \cap Device
    /\ "wlan" \in reported \/ job["static"].stage # "idle" => listed \cap Wlan \subseteq catalogue

\* A round is about the classes whose source has answered.
Answered == \A o \in mig.objects : ClassOf(o) \in reported

\* What is being emptied is gone from the console, or is an entity the
\* configuration no longer produces.
GoneForGood ==
    /\ Busy /\ mig.as = "none" => ~StillThere(mig.cur)
    /\ mig.stage = "clear" => ~(StillThere(mig.call[1]) /\ mig.call \in Rendered(mig.call[1]))

LEMMA HeardStep == ASSUME Typed, Heard, Next PROVE Heard'
<1>1. CASE LoopMoves
  BY <1>1 DEF LoopMoves, Heard
<1>2. CASE UNCHANGED <<pollVars, job>>
  BY <1>2 DEF Heard, pollVars
<1>3. CASE Crash
  <2>1. job'["static"].stage = "idle"
    BY <1>3 DEF Crash, Announcer, IdleJob
  <2>2. QED
    BY <1>3, <2>1 DEF Crash, Heard, ReadyAtStart
<1>4. QED
  BY <1>1, <1>2, <1>3, StepMoves

\* What is known stays known until the process dies.
LEMMA KnowledgeGrows ==
  ASSUME Typed, Heard, LoopMoves \/ UNCHANGED <<pollVars, job>>
  PROVE  /\ reported \subseteq reported'
         /\ \A o \in Client : Known(o) => Known(o)'
         /\ \A o : OnConsole(o) => OnConsole(o)'
<1>1. CASE UNCHANGED <<pollVars, job>>
  BY <1>1 DEF pollVars, Known, OnConsole
<1>2. CASE LoopMoves
  <2>1. details \subseteq details' /\ seen \subseteq seen'
    BY <1>2 DEF LoopMoves, Heard, Typed, TypeOK
  <2>2. QED
    BY <1>2, <2>1 DEF LoopMoves, Known, OnConsole
<1>3. QED
  BY <1>1, <1>2

LEMMA AnsweredStep == ASSUME Typed, Heard, Answered, Next PROVE Answered'
<1>1. CASE LoopMoves
  BY <1>1 DEF LoopMoves, Answered
<1>2. CASE RoundMoves /\ UNCHANGED <<pollVars, job>>
  <2>1. reported' = reported
    BY <1>2 DEF pollVars
  <2>2. CASE Opens
    <3>1. \A t \in Window(reported \ done) : ClassOf(t[1]) \in reported
      BY DEF Window
    <3>2. QED
      BY <2>1, <2>2, <3>1 DEF Opens, Answered
  <2>3. CASE mig'.objects \subseteq mig.objects
    BY <2>1, <2>3 DEF Answered
  <2>4. QED
    BY <1>2, <2>2, <2>3 DEF RoundMoves, TakesUp, Looks, Writes, TurnsTo, Idles, Closes, Keeps
<1>3. CASE Crash
  BY <1>3, IdleRoundTyped DEF Crash, Answered
<1>4. QED
  BY <1>1, <1>2, <1>3, StepMoves

\* An object of an answered class that no loop has is not on the console.
LEMMA UnheardIsGone ==
  ASSUME Typed, Heard, NEW o \in Object, ClassOf(o) \in reported, o \notin Client, ~OnConsole(o)
  PROVE  ~StillThere(o)
<1>1. CASE o \in Device
  <2>1. "device" \in reported /\ o \notin seen /\ o \notin Health /\ o \notin Wlan
    BY <1>1, MigrationAssumption DEF ClassOf, OnConsole
  <2>2. QED
    BY <1>1, <2>1 DEF Heard, StillThere
<1>2. CASE o \in Wlan
  <2>1. "wlan" \in reported /\ o \notin catalogue /\ o \notin Health /\ o \notin Device
    BY <1>2, MigrationAssumption DEF ClassOf, OnConsole
  <2>2. QED
    BY <1>2, <2>1 DEF Heard, StillThere
<1>3. CASE o \in Health
  BY <1>3, MigrationAssumption DEF OnConsole
<1>4. QED
  BY <1>1, <1>2, <1>3 DEF Object

LEMMA GoneForGoodStep == ASSUME Typed, Heard, Answered, GoneForGood, Next PROVE GoneForGood'
<1>1. CASE LoopMoves
  BY <1>1 DEF LoopMoves, GoneForGood, Busy
<1>2. CASE Crash
  BY <1>2, IdleRoundTyped DEF Crash, GoneForGood, Busy
<1>3. CASE Opens \/ Idles \/ Closes
  BY <1>3 DEF Opens, Idles, Closes, GoneForGood, Busy
<1>4. CASE TakesUp
  <2>1. PICK o \in mig.objects :
          /\ mig'.stage = "settle" /\ mig'.cur = o
          /\ mig'.as = "none" => o \notin Client /\ ~OnConsole(o)
    BY <1>4 DEF TakesUp
  <2>2. o \in Object
    BY RoundFields DEF Round
  <2>3. mig'.as = "none" => ~StillThere(o)
    BY <2>1, <2>2, UnheardIsGone DEF Answered
  <2>4. QED
    BY <2>1, <2>3 DEF GoneForGood
<1>5. CASE Looks
  <2>1. PICK t \in mig.configs :
          \/ mig'.stage = "settle"
          \/ /\ mig'.call = t
             /\ mig'.stage = IF mig.as # "none" /\ t \in Rendered(mig.cur) THEN "put" ELSE "clear"
    BY <1>5 DEF Looks
  <2>2. t[1] = mig.cur
    BY RoundFields DEF Target
  <2>3. QED
    BY <1>5, <2>1, <2>2 DEF Looks, KeepsTarget, GoneForGood
<1>6. CASE Writes \/ TurnsTo
  BY <1>6 DEF Writes, TurnsTo, KeepsTarget, GoneForGood
<1>7. QED
  BY <1>1, <1>2, <1>3, <1>4, <1>5, <1>6, StepMoves DEF RoundMoves

\* Only Retract empties a config.
LEMMA OnlyRetractEmpties ==
  ASSUME Typed, [Next]_vars, NEW t \in Topic, config[t] # "none", config'[t] = "none"
  PROVE  mig.stage = "clear" /\ t = mig.call
<1>1. config' # config /\ ~UNCHANGED vars
  BY DEF vars
<1>2. ~LoopMoves
  BY DEF LoopMoves
<1>3. ~Crash
  BY <1>1 DEF Crash
<1>4. RoundMoves
  BY <1>1, <1>2, <1>3, StepMoves
<1>5. CASE Writes
  <2>1. mig.as # "none"
    BY <1>5, RoundFields DEF Writes, Target
  <2>2. QED
    BY <1>5, <2>1 DEF Writes, Typed, TypeOK
<1>6. CASE TurnsTo
  BY <1>1, <1>6 DEF TurnsTo, Typed, TypeOK
<1>7. QED
  BY <1>1, <1>4, <1>5, <1>6 DEF RoundMoves, Opens, TakesUp, Looks, Idles, Closes

Safe == Heard /\ Answered /\ GoneForGood

LEMMA SafeStep == ASSUME Typed, Safe, [Next]_vars PROVE Safe'
<1>1. CASE Next
  BY <1>1, HeardStep, AnsweredStep, GoneForGoodStep DEF Safe
<1>2. CASE UNCHANGED vars
  BY <1>2 DEF vars, pollVars, migVars, Safe, Heard, Answered, GoneForGood, Busy
<1>3. QED
  BY <1>1, <1>2

LEMMA InitSafe == Init => Safe
  BY IdleRoundTyped DEF Init, Safe, Heard, Answered, GoneForGood, Busy, ReadyAtStart, IdleJob, Announcer

LEMMA AlwaysSafe == Spec => []Safe
  BY InitSafe, SafeStep, AlwaysTyped, PTL DEF Spec

\* The re-point retracts no entity of an object the console still has and
\* the configuration still produces: the class is taken up only after its
\* source has answered, an answer is reported only after what it says is
\* known, and a death of the process forgets both together.
THEOREM KeepsTheLiving == Spec => NothingLiveRetracted
<1> DEFINE Kind == \A t \in Topic : config[t] # "none" /\ config'[t] = "none"
                     => ~(StillThere(t[1]) /\ t \in Rendered(t[1]))
<1>1. Typed /\ Safe /\ [Next]_vars => [Kind]_vars
  BY OnlyRetractEmpties DEF Safe, GoneForGood
<1>2. QED
  BY <1>1, AlwaysTyped, AlwaysSafe, PTL DEF Spec, NothingLiveRetracted

-----------------------------------------------------------------------------
(* Evicted when settled.                                                   *)

\* What this process has published is not in the 1.x shape.
NeverOld ==
    /\ \A t \in Topic : lastConfig[t] # "none" => config[t] # "old"
    /\ \A th \in Announcer : job[th].sent # None => config[job[th].sent] # "old"
    /\ mig.stage = "record" => config[mig.call] # "old"

\* The 1.x configs of an object still to be settled are in the window.
InWindow == \A o \in mig.objects : \A t \in TopicsOf(o) : config[t] = "old" => t \in mig.window

\* Those of an object the round has taken for its own without a loop having
\* it are settled, but for the ones it has in hand.
Settling ==
    spent.fail = 0 =>
        \A o \in mig.extra : \A t \in TopicsOf(o) : config[t] = "old" => t \in mig.configs

\* What is left to evict is owned.
Licensed == mig.stage = "evict" => \A i \in mig.items : Owned(i[1])

\* No config returns to the 1.x shape.
LEMMA NeverBack ==
  ASSUME Typed, Next, NEW t \in Topic, config'[t] = "old"
  PROVE  config[t] = "old"
<1>1. CASE LoopMoves
  BY <1>1 DEF LoopMoves
<1>2. CASE Crash
  BY <1>2 DEF Crash
<1>3. CASE Writes
  <2>1. mig.as # "old"
    BY RoundFields DEF Round
  <2>2. QED
    BY <1>3, <2>1 DEF Writes, Typed, TypeOK
<1>4. CASE TurnsTo
  BY <1>4 DEF TurnsTo, Typed, TypeOK
<1>5. CASE Opens \/ TakesUp \/ Looks \/ Idles \/ Closes
  BY <1>5 DEF Opens, TakesUp, Looks, Idles, Closes
<1>6. QED
  BY <1>1, <1>2, <1>3, <1>4, <1>5, StepMoves DEF RoundMoves

LEMMA SentTyped ==
  ASSUME Typed, NEW th \in Announcer, job[th].sent # None
  PROVE  job[th].sent \in Topic
  BY DEF Typed, TypeOK, Job

LEMMA NeverOldStep == ASSUME Typed, NeverOld, Next PROVE NeverOld'
<1>1. CASE Crash
  <2>1. /\ \A t \in Topic : lastConfig'[t] = "none"
        /\ \A th \in Announcer : job'[th].sent = None
        /\ mig'.stage = "await"
    BY <1>1, IdleRoundTyped DEF Crash, IdleJob
  <2>2. QED
    BY <2>1 DEF NeverOld
<1>2. ASSUME ~Crash PROVE NeverOld'
  <2>0. GateFollows /\ ((LoopMoves /\ SentFollows) \/ (RoundMoves /\ UNCHANGED <<pollVars, job>>))
    BY <1>2, StepMoves
  <2>1. \A t \in Topic : config[t] # "old" => config'[t] # "old"
    BY NeverBack
  <2>2. mig.stage = "record" => mig.call \in Topic
    BY RoundFields DEF Target
  <2>3. \A t \in Topic : lastConfig'[t] # "none" => config[t] # "old"
    BY <2>0, SentTyped DEF GateFollows, NeverOld
  <2>4. ASSUME NEW th \in Announcer, job'[th].sent # None PROVE config'[job'[th].sent] # "old"
    <3>1. CASE job'[th].sent = job[th].sent
      BY <2>1, <2>4, <3>1, SentTyped DEF NeverOld
    <3>2. CASE config'[job'[th].sent] = "live"
      BY <3>2
    <3>3. QED
      BY <2>0, <2>4, <3>1, <3>2 DEF SentFollows
  <2>5. mig'.stage = "record" => config'[mig'.call] # "old"
    <3>1. CASE LoopMoves
      BY <2>1, <2>2, <3>1 DEF LoopMoves, NeverOld
    <3>2. CASE Writes
      <4>1. mig.call \in Topic /\ mig.as # "old"
        BY <3>2, RoundFields DEF Writes, Target, Round
      <4>2. QED
        BY <3>2, <4>1 DEF Writes, Typed, TypeOK
    <3>3. CASE Opens \/ TakesUp \/ Looks \/ TurnsTo \/ Idles \/ Closes
      BY <3>3 DEF Opens, TakesUp, Looks, TurnsTo, Idles, Closes, Busy
    <3>4. QED
      BY <2>0, <3>1, <3>2, <3>3 DEF RoundMoves
  <2>6. QED
    BY <2>1, <2>3, <2>4, <2>5 DEF NeverOld
<1>3. QED
  BY <1>1, <1>2

LEMMA TopicsAreTopics == \A o : TopicsOf(o) \subseteq Topic /\ \A t \in TopicsOf(o) : t[1] = o
  BY DEF TopicsOf

LEMMA InWindowStep == ASSUME Typed, InWindow, Next PROVE InWindow'
<1>1. \A t \in Topic : config'[t] = "old" => config[t] = "old"
  BY NeverBack
<1>2. CASE LoopMoves
  BY <1>1, <1>2, TopicsAreTopics DEF LoopMoves, InWindow
<1>3. CASE Crash
  BY <1>3, IdleRoundTyped DEF Crash, InWindow
<1>4. CASE Opens
  <2>1. ASSUME NEW o \in mig'.objects, NEW t \in TopicsOf(o), config'[t] = "old"
        PROVE  t \in mig'.window
    <3>1. mig'.window = Window(reported \ done)
      BY <1>4, <2>1 DEF Opens
    <3>2. PICK u \in Window(reported \ done) : o = u[1]
      BY <1>4, <2>1, <3>1 DEF Opens
    <3>3. t \in Topic /\ t[1] = o /\ config[t] = "old"
      BY <1>1, <2>1, TopicsAreTopics
    <3>4. QED
      BY <3>1, <3>2, <3>3 DEF Window
  <2>2. QED
    BY <2>1 DEF InWindow
<1>5. CASE mig'.objects \subseteq mig.objects /\ mig'.window = mig.window
  BY <1>1, <1>5, TopicsAreTopics DEF InWindow
<1>6. CASE Closes
  BY <1>6 DEF Closes, InWindow
<1>7. QED
  BY <1>2, <1>3, <1>4, <1>5, <1>6, StepMoves DEF RoundMoves, TakesUp, Looks, Writes, TurnsTo, Idles, Keeps

LEMMA FailGrows ==
  ASSUME Typed, Next
  PROVE  spent.fail \in Nat /\ spent'.fail \in Nat /\ spent'.fail >= spent.fail
<1>1. spent.fail \in Nat /\ spent'.fail \in Nat
  BY TypedStep DEF Typed, TypeOK
<1>2. (\E kind \in {"move", "crash", "fail"} : Event(kind)) \/ UNCHANGED spent
  <2>1. ASSUME NEW th \in Announcer, Announce(th) PROVE UNCHANGED spent
    BY <2>1 DEF Announce, Pick, Put, Record, PutDone, PollDone, envVars
  <2>2. CASE Migrate
    BY <2>2 DEF Migrate, AwaitReady, NextRound, Collect, NextObject, Check, Repoint, Repointed, Retract,
                SettleDone, PublishAway, AwayDone, StartEvict, Evict, RoundEnd, envVars
  <2>3. CASE Fails
    BY <2>3 DEF Fails, StaticPollFails, CollectFails, SettleFails, PublishAwayFails, EvictFails, PutFails
  <2>4. CASE StaticPoll \/ DevicePoll \/ ClientPoll \/ HealthPoll \/ Move \/ Crash
    BY <2>4 DEF StaticPoll, DevicePoll, ClientPoll, HealthPoll, Move, Crash, envVars
  <2>5. QED
    BY <2>1, <2>2, <2>3, <2>4 DEF Next
<1>3. QED
  BY <1>1, <1>2, EventTyped DEF Typed

LEMMA SettlingStep == ASSUME Typed, NeverOld, InWindow, Settling, Next PROVE Settling'
<1> SUFFICES ASSUME spent'.fail = 0
             PROVE  \A o \in mig'.extra : \A t \in TopicsOf(o) : config'[t] = "old" => t \in mig'.configs
  BY DEF Settling
<1>1. spent.fail = 0
  BY FailGrows
<1>2. \A o \in mig.extra : \A t \in TopicsOf(o) : config[t] = "old" => t \in mig.configs
  BY <1>1 DEF Settling
<1>3. \A t \in Topic : config'[t] = "old" => config[t] = "old"
  BY NeverBack
<1>4. CASE LoopMoves
  BY <1>2, <1>3, <1>4, TopicsAreTopics DEF LoopMoves
<1>5. CASE Crash
  BY <1>5, IdleRoundTyped DEF Crash
<1>6. CASE Opens \/ Closes
  BY <1>6 DEF Opens, Closes
<1>7. CASE TakesUp
  <2>1. PICK o \in mig.objects :
          /\ mig.configs = {} /\ mig'.configs = {t \in mig.window : t[1] = o}
          /\ mig'.extra \subseteq mig.extra \cup {o}
    BY <1>7 DEF TakesUp
  <2>2. \A t \in TopicsOf(o) : config'[t] = "old" => t \in mig'.configs
    BY <1>3, <2>1, TopicsAreTopics DEF InWindow
  <2>3. \A p \in mig.extra : \A t \in TopicsOf(p) : config'[t] # "old"
    BY <1>2, <1>3, <2>1, TopicsAreTopics
  <2>4. QED
    BY <2>1, <2>2, <2>3
<1>8. ASSUME NEW u \in mig.configs, mig'.extra = mig.extra, mig'.configs \in {mig.configs, mig.configs \ {u}},
             mig'.configs # mig.configs => config'[u] # "old"
      PROVE  \A o \in mig'.extra : \A t \in TopicsOf(o) : config'[t] = "old" => t \in mig'.configs
  BY <1>2, <1>3, <1>8, TopicsAreTopics
<1>9. CASE Looks
  <2>1. PICK u \in mig.configs :
          \/ WasPublished(u) /\ mig'.configs = mig.configs \ {u}
          \/ mig'.configs = mig.configs
    BY <1>9 DEF Looks
  <2>2. WasPublished(u) => config'[u] # "old"
    BY <1>3, RoundFields DEF NeverOld, WasPublished
  <2>3. QED
    BY <1>8, <1>9, <2>1, <2>2 DEF Looks, Keeps
<1>10. CASE Writes
  <2>1. mig.call \in mig.configs /\ mig'.configs = mig.configs /\ mig'.extra = mig.extra
    BY <1>10, RoundFields DEF Writes, Keeps, Target
  <2>2. QED
    BY <1>8, <2>1
<1>11. CASE TurnsTo
  <2>1. mig.stage \in {"put", "record", "clear"} /\ mig'.extra = mig.extra /\ mig'.configs = mig.configs \ {mig.call}
    BY <1>11 DEF TurnsTo, Keeps
  <2>2. mig.call \in mig.configs /\ mig.call \in Topic /\ (mig.stage = "put" => mig.as # "none")
    BY <2>1, RoundFields DEF Target
  <2>3. config'[mig.call] # "old"
    BY <1>3, <1>11, <2>2 DEF TurnsTo, NeverOld, Typed, TypeOK
  <2>4. QED
    BY <1>8, <2>1, <2>2, <2>3
<1>12. CASE Idles
  BY <1>2, <1>3, <1>12, TopicsAreTopics DEF Idles, Keeps
<1>13. QED
  BY <1>4, <1>5, <1>6, <1>7, <1>9, <1>10, <1>11, <1>12, StepMoves DEF RoundMoves

LEMMA OwnedGrows ==
  ASSUME Typed, Heard, LoopMoves \/ UNCHANGED <<pollVars, job>>, mig'.extra = mig.extra,
         NEW o, Owned(o)
  PROVE  Owned(o)'
  BY KnowledgeGrows DEF Owned

LEMMA LicensedStep == ASSUME Typed, Heard, Licensed, Next PROVE Licensed'
<1>1. CASE LoopMoves
  BY <1>1, OwnedGrows DEF LoopMoves, Licensed
<1>2. CASE Crash
  BY <1>2, IdleRoundTyped DEF Crash, Licensed
<1>3. CASE Idles /\ UNCHANGED <<pollVars, job>>
  BY <1>3, OwnedGrows DEF Idles, Keeps, Licensed
<1>4. CASE Opens \/ TakesUp \/ Looks \/ Writes \/ TurnsTo \/ Closes
  BY <1>4 DEF Opens, TakesUp, Looks, Writes, TurnsTo, Closes, Licensed
<1>5. QED
  BY <1>1, <1>2, <1>3, <1>4, StepMoves DEF RoundMoves

\* Only Evict empties a 1.x item, and one its round has left to evict.
LEMMA OnlyEvictEmpties ==
  ASSUME Typed, [Next]_vars, NEW i \in old \ old'
  PROVE  mig.stage = "evict" /\ i \in mig.items
<1>1. ~UNCHANGED old
  OBVIOUS
<1>2. ASSUME NEW th \in Announcer, Announce(th) PROVE FALSE
  BY <1>1, <1>2 DEF Announce, Pick, Put, Record, PutDone, PollDone
<1>3. ~Fails
  BY <1>1 DEF Fails, StaticPollFails, CollectFails, SettleFails, PublishAwayFails, EvictFails, PutFails
<1>4. ~(StaticPoll \/ DevicePoll \/ ClientPoll \/ HealthPoll \/ Move \/ Crash \/ UNCHANGED vars)
  BY <1>1 DEF StaticPoll, DevicePoll, ClientPoll, HealthPoll, Move, Crash, vars
<1>5. Evict
  BY <1>1, <1>2, <1>3, <1>4
     DEF Next, Migrate, AwaitReady, NextRound, Collect, NextObject, Check, Repoint, Repointed, Retract,
         SettleDone, PublishAway, AwayDone, StartEvict, RoundEnd
<1>6. QED
  BY <1>5 DEF Evict

Evictable == NeverOld /\ InWindow /\ Settling /\ Licensed

LEMMA EvictableStep == ASSUME Typed, Safe, Evictable, [Next]_vars PROVE Evictable'
<1>1. CASE Next
  BY <1>1, NeverOldStep, InWindowStep, SettlingStep, LicensedStep DEF Safe, Evictable
<1>2. CASE UNCHANGED vars
  BY <1>2 DEF vars, envVars, pollVars, migVars, Evictable, NeverOld, InWindow, Settling, Licensed,
              Owned, Known, OnConsole
<1>3. QED
  BY <1>1, <1>2

LEMMA InitEvictable == Init => Evictable
  BY IdleRoundTyped DEF Init, Evictable, NeverOld, InWindow, Settling, Licensed, IdleJob

LEMMA AlwaysEvictable == Spec => []Evictable
  BY InitEvictable, EvictableStep, AlwaysTyped, AlwaysSafe, PTL DEF Spec

\* A 1.x item goes only if its object was polled in this run or no config in
\* the 1.x shape reads it any more: whatever the order the sources answer
\* in, however many rounds there are and wherever the process dies.
THEOREM StaleNeverWronglyDeleted == Spec => EvictedWhenSettled
<1> DEFINE Kind == \A i \in old \ old' : spent.fail = 0 =>
                     \/ i[1] \in Health \/ (i[1] \in Client /\ Known(i[1]))
                     \/ (i[1] \in Device \cup Wlan /\ OnConsole(i[1]))
                     \/ \A t \in TopicsOf(i[1]) : config[t] # "old"
<1>1. ASSUME Typed, Evictable, [Next]_vars PROVE Kind
  <2>1. SUFFICES ASSUME NEW i \in old \ old', spent.fail = 0, i[1] \in mig.extra
                 PROVE  \A t \in TopicsOf(i[1]) : config[t] # "old"
    BY <1>1, OnlyEvictEmpties DEF Evictable, Licensed, Owned
  <2>2. mig.configs = {}
    BY <1>1, OnlyEvictEmpties, RoundFields DEF Target, Busy
  <2>3. QED
    BY <1>1, <2>1, <2>2 DEF Evictable, Settling
<1>2. Typed /\ Evictable /\ [Next]_vars => [Kind]_vars
  BY <1>1
<1>3. QED
  BY <1>2, AlwaysTyped, AlwaysEvictable, PTL DEF Spec, EvictedWhenSettled

=============================================================================
