--------------------------- MODULE DiscoveryProofs ---------------------------
(***************************************************************************)
(* For every set of devices, keys and variants, every bound and every     *)
(* setting of the environment's switches: Discovery is type-correct, its  *)
(* evidence of ownership is honest, and it implements ConfigOwnership.    *)
(***************************************************************************)
EXTENDS Discovery, TLAPS

\* What a goroutine holds in its hands is honest too: what it has yet to
\* retract is a topic of ours, and so is what it will put on record.
Honest(th) ==
    LET j == job[th] IN
    /\ th \in Announcer /\ j.stage # "open" => \A x \in j.list : x[2] # NoConfig
    /\ j.stage = "put" =>
          /\ th \in Announcer
          /\ j.cur # Nobody
          /\ j.cur[2] # NoConfig
          /\ Topics(j.cur[1], j.cur[2]) \ j.todo \subseteq published
    /\ j.stage = "drop" => j.todo \subseteq published
    /\ j.call # NoCall =>
          /\ j.stage \in {"put", "drop"}
          /\ j.call.payload = NoConfig <=> j.stage = "drop"
          /\ j.call.payload = NoConfig => j.call.topic \in published
          /\ j.call.payload # NoConfig /\ j.call.at = "record" => j.call.topic \in accepted
          /\ j.call.at = "forget" => j.call.payload = NoConfig

JobHonest == \A th \in Thread : Honest(th)

IInv == TypeOK /\ EvidenceHonest /\ JobHonest

-----------------------------------------------------------------------------
(* Lemmas about the operators the actions are built from.                  *)

\* The topics of a device are topics.
LEMMA TopicsType ==
    ASSUME NEW d \in Device, NEW v \in Payload
    PROVE  v # NoConfig => Topics(d, v) \subseteq Topic
BY VariantAssumption DEF Topics, Topic, Payload

\* A fetched list pairs devices with variants, never with NoConfig.
LEMMA SnapshotType == TypeOK => Snapshot \subseteq Device \X Variant
BY DEF TypeOK, Snapshot, Payload

LEMMA IdleJobType == IdleJob \in Job
BY DEF IdleJob, Job, Nobody, NoCall

\* A goroutine's step leaves the others' jobs alone.
LEMMA StepType ==
    ASSUME job \in [Thread -> Job], NEW th \in Thread, NEW j \in Job, Step(th, j)
    PROVE  /\ job' \in [Thread -> Job]
           /\ job'[th] = j
           /\ \A x \in Thread \ {th} : job'[x] = job[x]
BY DEF Step

LEMMA SpendType ==
    ASSUME TypeOK, NEW b \in Bound, NEW m, Spend(b, m)
    PROVE  spent' \in [Bound -> Nat]
BY DEF TypeOK, Spend

\* NoCall is not a call.
LEMMA CallType ==
    ASSUME NEW th \in Thread, TypeOK,
           job[th].call.at \in {"send", "record", "forget"}
    PROVE  job[th].call \in Call
BY DEF TypeOK, Job, Call, NoCall

\* The sets a job is judged by only grow, so a goroutine that does not move
\* stays honest.
LEMMA HonestStays ==
    ASSUME NEW x \in Thread, Honest(x), job'[x] = job[x],
           published \subseteq published', accepted \subseteq accepted'
    PROVE  Honest(x)'
BY DEF Honest, Topics

LEMMA OthersStayHonest ==
    ASSUME JobHonest, NEW th \in Thread, Honest(th)',
           \A x \in Thread \ {th} : job'[x] = job[x],
           published \subseteq published', accepted \subseteq accepted'
    PROVE  JobHonest'
<1> SUFFICES ASSUME NEW x \in Thread PROVE Honest(x)'
  BY DEF JobHonest
<1>1. CASE x = th  BY <1>1
<1>2. CASE x # th  BY <1>2, HonestStays DEF JobHonest
<1> QED BY <1>1, <1>2

\* A step that moves one goroutine and nothing else.
LEMMA QuietStep ==
    ASSUME IInv, NEW th \in Thread, NEW j \in Job, Step(th, j), Honest(th)',
           UNCHANGED <<envVars, pubVars, coordVars>>
    PROVE  IInv'
<1>0. TypeOK /\ EvidenceHonest /\ JobHonest  BY DEF IInv
<1>1. TypeOK'
  BY <1>0, StepType DEF TypeOK, envVars, pubVars, coordVars
<1>2. EvidenceHonest'
  BY <1>0 DEF EvidenceHonest, pubVars, coordVars
<1>3. JobHonest'
  BY <1>0, StepType, OthersStayHonest DEF TypeOK, pubVars
<1> QED BY <1>1, <1>2, <1>3 DEF IInv

\* A call in flight: where its goroutine stands and what it may assume.
LEMMA InFlight ==
    ASSUME IInv, NEW th \in Thread,
           job[th].call.at \in {"send", "record", "forget"}
    PROVE  /\ job[th] \in Job
           /\ job[th].call \in Call
           /\ job[th].call # NoCall
           /\ job[th].stage \in {"put", "drop"}
           /\ job[th].call.payload = NoConfig <=> job[th].stage = "drop"
           /\ job[th].call.payload = NoConfig => job[th].call.topic \in published
           /\ job[th].call.payload # NoConfig /\ job[th].call.at = "record"
                => job[th].call.topic \in accepted
           /\ job[th].call.at = "forget" => job[th].call.payload = NoConfig
<1>1. TypeOK /\ Honest(th)  BY DEF IInv, JobHonest
<1>2. job[th] \in Job  BY <1>1 DEF TypeOK
<1>3. job[th].call \in Call  BY <1>1, CallType
<1>4. job[th].call # NoCall  BY DEF NoCall
<1> QED BY <1>1, <1>2, <1>3, <1>4 DEF Honest

-----------------------------------------------------------------------------
(* Each action preserves the invariant.                                    *)

LEMMA ClaimStep == ASSUME IInv, NEW th \in Thread, Claim(th) PROVE IInv'
<1>0. TypeOK /\ EvidenceHonest /\ JobHonest /\ Honest(th)  BY DEF IInv, JobHonest
<1> DEFINE v == job[th].cur[2]
           skip(t) == [job[th] EXCEPT !.todo = @ \ {t}]
           send(t) == [job[th] EXCEPT !.call = [at |-> "send", topic |-> t, payload |-> v]]
<1>1. job[th] \in Job /\ job[th].stage = "put" /\ job[th].call = NoCall
  BY <1>0 DEF TypeOK, Claim
<1>2. v \in Payload /\ v # NoConfig
  BY <1>0, <1>1 DEF Honest, Job
<1>3. PICK t \in job[th].todo :
         /\ configs' = configs \cup {t}
         /\ IF lastConfig[t] = v THEN Step(th, skip(t)) ELSE Step(th, send(t))
  BY DEF Claim
<1>4. t \in Topic  BY <1>1 DEF Job
<1>5. skip(t) \in Job /\ send(t) \in Job
  BY <1>1, <1>2, <1>4 DEF Job, Call
<1>6. UNCHANGED <<envVars, lastConfig, published, accepted, coordVars>>
  BY DEF Claim
<1>7. TypeOK'
  BY <1>0, <1>3, <1>4, <1>5, <1>6, StepType DEF TypeOK, envVars, coordVars
<1>8. EvidenceHonest'
  BY <1>0, <1>6 DEF EvidenceHonest, coordVars
<1>9. Honest(th)'
  <2>1. CASE lastConfig[t] = v
    <3>1. job'[th] = skip(t)  BY <1>0, <1>3, <1>5, <2>1, StepType DEF TypeOK
    <3>2. t \in published  BY <1>0, <1>2, <1>4, <2>1 DEF EvidenceHonest
    <3> QED BY <1>0, <1>1, <1>6, <3>1, <3>2 DEF Honest, Job, Topics
  <2>2. CASE lastConfig[t] # v
    <3>1. job'[th] = send(t)  BY <1>0, <1>3, <1>5, <2>2, StepType DEF TypeOK
    <3> QED BY <1>0, <1>1, <1>2, <1>6, <3>1 DEF Honest, Job, Topics, NoCall
  <2> QED BY <2>1, <2>2
<1> QED
  BY <1>0, <1>3, <1>5, <1>6, <1>7, <1>8, <1>9, StepType, OthersStayHonest DEF IInv, TypeOK

LEMMA ClearStep == ASSUME IInv, NEW th \in Thread, Clear(th) PROVE IInv'
<1> DEFINE send(t) == [job[th] EXCEPT
               !.call = [at |-> "send", topic |-> t, payload |-> NoConfig]]
<1>1. job[th] \in Job /\ Honest(th)  BY DEF IInv, JobHonest, TypeOK
<1>2. PICK t \in job[th].todo : Step(th, send(t))  BY DEF Clear
<1>3. t \in Topic  BY <1>1 DEF Job
<1>4. send(t) \in Job  BY <1>1, <1>3 DEF Job, Call, Payload
<1>5. job'[th] = send(t)  BY <1>2, <1>4, StepType DEF IInv, TypeOK
<1>6. t \in published /\ job[th].stage = "drop"  BY <1>1 DEF Clear, Honest
<1>7. UNCHANGED <<envVars, pubVars, coordVars>>  BY DEF Clear
<1>8. Honest(th)'
  BY <1>1, <1>5, <1>6, <1>7 DEF Honest, Job, pubVars
<1> QED BY <1>2, <1>4, <1>7, <1>8, QuietStep

\* What the broker stores is a config, and accepted only grows.
LEMMA StoreType ==
    ASSUME TypeOK, NEW t \in Topic, NEW p \in Payload, Store(t, p)
    PROVE  /\ retained' \in [Topic -> Payload]
           /\ accepted' \subseteq Topic
           /\ accepted \subseteq accepted'
BY DEF TypeOK, Store

LEMMA SendStep == ASSUME IInv, NEW th \in Thread, Send(th) PROVE IInv'
<1> DEFINE c == job[th].call
           j == [job[th] EXCEPT !.call.at = "record"]
<1>0. TypeOK /\ EvidenceHonest /\ JobHonest /\ Honest(th)  BY DEF IInv, JobHonest
<1>1. c.at = "send" /\ Store(c.topic, c.payload) /\ Step(th, j)  BY DEF Send
<1>2. /\ job[th] \in Job /\ c \in Call /\ job[th].stage \in {"put", "drop"}
      /\ c.payload = NoConfig <=> job[th].stage = "drop"
      /\ c.payload = NoConfig => c.topic \in published
  BY <1>1, InFlight
<1>3. c.topic \in Topic /\ c.payload \in Payload  BY <1>2 DEF Call
<1>4. j \in Job  BY <1>2 DEF Job, Call
<1>5. job' \in [Thread -> Job] /\ job'[th] = j /\ \A x \in Thread \ {th} : job'[x] = job[x]
  BY <1>0, <1>1, <1>4, StepType DEF TypeOK
<1>6. UNCHANGED <<site, link, spent, lastConfig, configs, published, coordVars>>
  BY DEF Send
<1>7. retained' \in [Topic -> Payload] /\ accepted' \subseteq Topic /\ accepted \subseteq accepted'
  BY <1>0, <1>1, <1>3, StoreType
<1>8. TypeOK'  BY <1>0, <1>5, <1>6, <1>7 DEF TypeOK, coordVars
<1>9. EvidenceHonest'  BY <1>0, <1>6, <1>7 DEF EvidenceHonest, coordVars
<1>10. c.payload # NoConfig => c.topic \in accepted'  BY <1>1 DEF Store
<1>11. /\ j.stage = job[th].stage /\ j.list = job[th].list /\ j.cur = job[th].cur
       /\ j.todo = job[th].todo /\ j.call.at = "record"
       /\ j.call.topic = c.topic /\ j.call.payload = c.payload
  BY <1>2 DEF Job, Call
<1>12. Honest(th)'
  BY <1>0, <1>2, <1>5, <1>6, <1>10, <1>11 DEF Honest, Topics
<1> QED BY <1>0, <1>5, <1>6, <1>7, <1>8, <1>9, <1>12, OthersStayHonest DEF IInv

\* A goroutine that met an error goes on with less to do.
LEMMA AfterErrorType ==
    ASSUME IInv, NEW th \in Thread, job[th].call.at = "send", published' = published,
           NEW j, j = AfterError(th), job'[th] = j
    PROVE  j \in Job /\ Honest(th)'
<1>0. TypeOK /\ Honest(th)  BY DEF IInv, JobHonest
<1>1. job[th] \in Job /\ job[th].stage \in {"put", "drop"}  BY InFlight
<1>2. CASE th = "static"
  <2>1. j = [[job[th] EXCEPT !.call = NoCall]
               EXCEPT !.stage = "pick", !.cur = Nobody, !.todo = {}]
    BY <1>2 DEF AfterError
  <2>2. j \in Job  BY <1>1, <2>1 DEF Job
  <2>3. /\ j.stage = "pick" /\ j.list = job[th].list /\ j.call = NoCall
    BY <1>1, <2>1 DEF Job
  <2> QED
  BY <1>0, <1>1, <1>2, <2>2, <2>3 DEF Honest, Job, Announcer
<1>3. CASE th = "rediscover"
  BY <1>3, IdleJobType DEF AfterError, Honest, IdleJob
<1>4. CASE th \notin Announcer
  <2>1. j = [[job[th] EXCEPT !.call = NoCall]
               EXCEPT !.todo = @ \ {job[th].call.topic}]
    BY <1>4 DEF AfterError, Announcer
  <2>2. j \in Job  BY <1>1, <2>1 DEF Job
  <2>3. /\ j.stage = job[th].stage /\ j.list = job[th].list /\ j.call = NoCall
        /\ j.todo \subseteq job[th].todo
    BY <1>1, <2>1 DEF Job
  <2> QED BY <1>0, <1>1, <1>4, <2>2, <2>3 DEF Honest
<1> QED BY <1>2, <1>3, <1>4 DEF Announcer

LEMMA SendFailsStep == ASSUME IInv, NEW th \in Thread, SendFails(th) PROVE IInv'
<1> DEFINE c == job[th].call
           j == AfterError(th)
<1>0. TypeOK /\ EvidenceHonest /\ JobHonest  BY DEF IInv
<1>1. c.at = "send" /\ Step(th, j)
      /\ UNCHANGED <<site, link, lastConfig, configs, published, coordVars>>
  BY DEF SendFails
<1>2. job'[th] = j  BY <1>0, <1>1 DEF TypeOK, Step
<1>3. j \in Job /\ Honest(th)'  BY <1>1, <1>2, AfterErrorType
<1>4. job' \in [Thread -> Job] /\ \A x \in Thread \ {th} : job'[x] = job[x]
  BY <1>0, <1>1, <1>3, StepType DEF TypeOK
<1>5. c.topic \in Topic /\ c.payload \in Payload
  BY <1>1, InFlight DEF Call
<1>6. \/ UNCHANGED <<retained, accepted>>
      \/ Store(c.topic, c.payload)
  BY DEF SendFails
<1>7. retained' \in [Topic -> Payload] /\ accepted' \subseteq Topic /\ accepted \subseteq accepted'
  BY <1>0, <1>5, <1>6, StoreType DEF TypeOK
<1>8. spent' \in [Bound -> Nat]
  BY <1>0, SpendType DEF SendFails, TypeOK, Bound
<1>9. TypeOK'  BY <1>0, <1>1, <1>4, <1>7, <1>8 DEF TypeOK, coordVars
<1>10. EvidenceHonest'  BY <1>0, <1>1, <1>7 DEF EvidenceHonest, coordVars
<1> QED BY <1>0, <1>1, <1>3, <1>4, <1>7, <1>9, <1>10, OthersStayHonest DEF IInv

LEMMA RecordPutStep == ASSUME IInv, NEW th \in Thread, RecordPut(th) PROVE IInv'
<1> DEFINE c == job[th].call
           j == [job[th] EXCEPT !.call = NoCall, !.todo = @ \ {c.topic}]
<1>0. TypeOK /\ EvidenceHonest /\ JobHonest /\ Honest(th)  BY DEF IInv, JobHonest
<1>1. /\ c.at = "record" /\ c.payload # NoConfig
      /\ lastConfig' = [lastConfig EXCEPT ![c.topic] = c.payload]
      /\ published' = published \cup {c.topic}
      /\ Step(th, j)
      /\ UNCHANGED <<envVars, configs, accepted, coordVars>>
  BY DEF RecordPut
<1>2. /\ job[th] \in Job /\ c \in Call /\ job[th].stage = "put" /\ c.topic \in accepted
  BY <1>1, InFlight
<1>3. c.topic \in Topic /\ c.payload \in Payload  BY <1>2 DEF Call
<1>4. j \in Job  BY <1>2 DEF Job
<1>5. job' \in [Thread -> Job] /\ job'[th] = j /\ \A x \in Thread \ {th} : job'[x] = job[x]
  BY <1>0, <1>1, <1>4, StepType DEF TypeOK
<1>6. TypeOK'
  <2>1. lastConfig' \in [Topic -> Payload] /\ published' \subseteq Topic
    BY <1>0, <1>1, <1>3 DEF TypeOK
  <2> QED BY <1>0, <1>1, <1>5, <2>1 DEF TypeOK, envVars, coordVars
<1>7. EvidenceHonest'
  BY <1>0, <1>1, <1>2, <1>3 DEF EvidenceHonest, TypeOK, coordVars
<1>8. Honest(th)'
  <2>1. /\ j.stage = "put" /\ j.list = job[th].list /\ j.cur = job[th].cur
        /\ j.todo = job[th].todo \ {c.topic} /\ j.call = NoCall
    BY <1>2 DEF Job
  <2> QED BY <1>0, <1>1, <1>2, <1>5, <2>1 DEF Honest, Topics
<1> QED BY <1>0, <1>1, <1>5, <1>6, <1>7, <1>8, OthersStayHonest DEF IInv

LEMMA RecordClearStep == ASSUME IInv, NEW th \in Thread, RecordClear(th) PROVE IInv'
<1> DEFINE c == job[th].call
           j == [job[th] EXCEPT !.call.at = "forget"]
<1>0. TypeOK /\ EvidenceHonest /\ JobHonest /\ Honest(th)  BY DEF IInv, JobHonest
<1>1. /\ c.at = "record" /\ c.payload = NoConfig
      /\ configs' = configs \ {c.topic}
      /\ Step(th, j)
      /\ UNCHANGED <<envVars, lastConfig, published, accepted, coordVars>>
  BY DEF RecordClear
<1>2. /\ job[th] \in Job /\ c \in Call /\ job[th].stage = "drop" /\ c.topic \in published
  BY <1>1, InFlight
<1>3. j \in Job  BY <1>2 DEF Job, Call
<1>4. job' \in [Thread -> Job] /\ job'[th] = j /\ \A x \in Thread \ {th} : job'[x] = job[x]
  BY <1>0, <1>1, <1>3, StepType DEF TypeOK
<1>5. TypeOK'  BY <1>0, <1>1, <1>4 DEF TypeOK, envVars, coordVars
<1>6. EvidenceHonest'  BY <1>0, <1>1 DEF EvidenceHonest, coordVars
<1>7. Honest(th)'
  <2>1. /\ j.stage = "drop" /\ j.list = job[th].list /\ j.todo = job[th].todo
        /\ j.call.at = "forget" /\ j.call.topic = c.topic /\ j.call.payload = NoConfig
    BY <1>1, <1>2 DEF Job, Call
  <2> QED BY <1>0, <1>1, <1>2, <1>4, <2>1 DEF Honest
<1> QED BY <1>0, <1>1, <1>4, <1>5, <1>6, <1>7, OthersStayHonest DEF IInv

LEMMA ForgetStep == ASSUME IInv, NEW th \in Thread, Forget(th) PROVE IInv'
<1> DEFINE c == job[th].call
           j == [job[th] EXCEPT !.call = NoCall, !.todo = @ \ {c.topic}]
<1>0. TypeOK /\ EvidenceHonest /\ JobHonest /\ Honest(th)  BY DEF IInv, JobHonest
<1>1. /\ c.at = "forget"
      /\ lastConfig' = [lastConfig EXCEPT ![c.topic] = NoConfig]
      /\ Step(th, j)
      /\ UNCHANGED <<envVars, configs, published, accepted, coordVars>>
  BY DEF Forget
<1>2. job[th] \in Job /\ c \in Call /\ job[th].stage = "drop"
  BY <1>1, InFlight
<1>3. c.topic \in Topic  BY <1>2 DEF Call
<1>4. j \in Job  BY <1>2 DEF Job
<1>5. job' \in [Thread -> Job] /\ job'[th] = j /\ \A x \in Thread \ {th} : job'[x] = job[x]
  BY <1>0, <1>1, <1>4, StepType DEF TypeOK
<1>6. lastConfig' \in [Topic -> Payload]  BY <1>0, <1>1 DEF TypeOK, Payload
<1>7. TypeOK'  BY <1>0, <1>1, <1>5, <1>6 DEF TypeOK, envVars, coordVars
<1>8. EvidenceHonest'
  BY <1>0, <1>1 DEF EvidenceHonest, TypeOK, coordVars
<1>9. Honest(th)'
  <2>1. /\ j.stage = job[th].stage /\ j.list = job[th].list /\ j.cur = job[th].cur
        /\ j.todo = job[th].todo \ {c.topic} /\ j.call = NoCall
    BY <1>2 DEF Job
  <2> QED BY <1>0, <1>1, <1>2, <1>5, <2>1 DEF Honest, Topics
<1> QED BY <1>0, <1>1, <1>5, <1>7, <1>8, <1>9, OthersStayHonest DEF IInv

LEMMA NextDeviceStep == ASSUME IInv, NEW th \in Thread, NextDevice(th) PROVE IInv'
<1> DEFINE j(x) == [job[th] EXCEPT !.stage = "put", !.list = @ \ {x},
                                   !.cur = x, !.todo = Topics(x[1], x[2])]
<1>0. TypeOK /\ Honest(th) /\ job[th] \in Job  BY DEF IInv, JobHonest, TypeOK
<1>1. th \in Announcer /\ job[th].stage \in {"pick", "drop"}
      /\ UNCHANGED <<envVars, pubVars, coordVars>>
  BY DEF NextDevice
<1>2. CASE job[th].list = {}
  <2>1. Step(th, IdleJob)  BY <1>2 DEF NextDevice
  <2>2. job'[th] = IdleJob  BY <1>0, <2>1 DEF Step, TypeOK
  <2>3. Honest(th)'  BY <2>2 DEF Honest, IdleJob
  <2> QED BY <1>1, <2>1, <2>3, IdleJobType, QuietStep
<1>3. CASE job[th].list # {}
  <2>1. PICK x \in job[th].list : Step(th, j(x))  BY <1>3 DEF NextDevice
  <2>2. x \in Device \X Payload /\ x[2] # NoConfig  BY <1>0, <1>1 DEF Honest, Job
  <2>3. Topics(x[1], x[2]) \subseteq Topic  BY <2>2, TopicsType
  <2>4. j(x) \in Job  BY <1>0, <2>2, <2>3 DEF Job
  <2>5. job'[th] = j(x)  BY <1>0, <2>1 DEF Step, TypeOK
  <2>6. job[th].call = NoCall
    BY <1>0, <1>1 DEF NextDevice, Honest
  <2>7. Honest(th)'
    <3>1. /\ j(x).stage = "put" /\ j(x).list \subseteq job[th].list /\ j(x).cur = x
          /\ j(x).todo = Topics(x[1], x[2]) /\ j(x).call = NoCall
      BY <1>0, <2>6 DEF Job
    <3>2. x # Nobody  BY <2>2 DEF Nobody
    <3> QED BY <1>0, <1>1, <2>2, <2>5, <3>1, <3>2 DEF Honest, Topics
  <2> QED BY <1>1, <2>1, <2>4, <2>7, QuietStep
<1> QED BY <1>2, <1>3

\* A step of one goroutine that leaves the broker and the gate alone.
LEMMA BookStep ==
    ASSUME IInv, NEW th \in Thread, NEW j \in Job, Step(th, j), Honest(th)',
           UNCHANGED <<envVars, configs, published, accepted>>,
           lastConfig' \in [Topic -> Payload],
           \A t \in Topic : lastConfig'[t] \in {lastConfig[t], NoConfig},
           details' \in [Device -> Payload], announced' \in [Device -> SUBSET Topic],
           \A d \in Device : announced'[d] \subseteq published,
           seen' \subseteq Device, ready' \in BOOLEAN,
           rediscover' \in BOOLEAN, nudgeStatic' \in BOOLEAN
    PROVE  IInv'
<1>0. TypeOK /\ EvidenceHonest /\ JobHonest  BY DEF IInv
<1>1. job' \in [Thread -> Job] /\ \A x \in Thread \ {th} : job'[x] = job[x]
  BY <1>0, StepType DEF TypeOK
<1>2. TypeOK'  BY <1>0, <1>1 DEF TypeOK, envVars
<1>3. EvidenceHonest'  BY <1>0 DEF EvidenceHonest
<1>4. JobHonest'  BY <1>0, <1>1, OthersStayHonest
<1> QED BY <1>2, <1>3, <1>4 DEF IInv

LEMMA AnnounceActStep == ASSUME IInv, NEW th \in Thread, Announce(th) PROVE IInv'
<1> DEFINE d == job[th].cur[1]
           now == Topics(d, job[th].cur[2])
           j == [job[th] EXCEPT !.stage = "drop", !.todo = Stale(d, now)]
<1>0. TypeOK /\ EvidenceHonest /\ Honest(th) /\ job[th] \in Job
  BY DEF IInv, JobHonest, TypeOK
<1>1. /\ th \in Announcer /\ job[th].stage = "put" /\ job[th].call = NoCall
      /\ job[th].todo = {}
      /\ announced' = [announced EXCEPT ![d] = now] /\ Step(th, j)
      /\ UNCHANGED <<envVars, pubVars, details, seen, ready, rediscover, nudgeStatic>>
  BY DEF Announce
<1>2. job[th].cur \in Device \X Payload /\ now \subseteq published
  BY <1>0, <1>1 DEF Honest, Job
<1>3. d \in Device /\ now \subseteq Topic
  BY <1>0, <1>2 DEF TypeOK
<1>4. Stale(d, now) \subseteq published /\ Stale(d, now) \subseteq Topic
  BY <1>0, <1>3 DEF Stale, EvidenceHonest, TypeOK
<1>5. j \in Job  BY <1>0, <1>4 DEF Job
<1>6. job'[th] = j  BY <1>0, <1>1 DEF Step, TypeOK
<1>7. Honest(th)'
  <2>1. j.stage = "drop" /\ j.list = job[th].list /\ j.todo = Stale(d, now) /\ j.call = NoCall
    BY <1>0, <1>1 DEF Job
  <2> QED BY <1>0, <1>1, <1>4, <1>6, <2>1 DEF Honest, pubVars
<1>8. announced' \in [Device -> SUBSET Topic] /\ \A x \in Device : announced'[x] \subseteq published
  BY <1>0, <1>1, <1>2, <1>3 DEF TypeOK, EvidenceHonest
<1>9. /\ UNCHANGED <<envVars, configs, published, accepted, lastConfig>>
      /\ details' \in [Device -> Payload] /\ seen' \subseteq Device /\ ready' \in BOOLEAN
      /\ rediscover' \in BOOLEAN /\ nudgeStatic' \in BOOLEAN /\ lastConfig' \in [Topic -> Payload]
  BY <1>0, <1>1 DEF TypeOK, pubVars
<1> QED BY <1>1, <1>5, <1>7, <1>8, <1>9, BookStep

LEMMA StaticFetchStep == ASSUME IInv, NEW nudged \in BOOLEAN, StaticFetch(nudged) PROVE IInv'
<1> DEFINE j == [IdleJob EXCEPT !.stage = "swap", !.list = Snapshot]
<1>0. TypeOK /\ EvidenceHonest  BY DEF IInv
<1>1. Snapshot \subseteq Device \X Variant  BY <1>0, SnapshotType
<1>2. /\ j.stage = "swap" /\ j.list = Snapshot /\ j.call = NoCall /\ j.todo = {}
      /\ j.cur = Nobody
  BY DEF IdleJob
<1>3. j \in Job  BY <1>1 DEF IdleJob, Job, Payload
<1>4. Step("static", j) /\ nudgeStatic' \in BOOLEAN
      /\ UNCHANGED <<envVars, pubVars, details, announced, seen, ready, rediscover>>
  BY <1>0 DEF StaticFetch, TypeOK
<1>5. job'["static"] = j  BY <1>0, <1>4 DEF Step, TypeOK, Thread
<1>6. Honest("static")'
  BY <1>1, <1>2, <1>5, VariantAssumption DEF Honest
<1>7. "static" \in Thread  BY DEF Thread
<1> QED BY <1>0, <1>3, <1>4, <1>6, <1>7, BookStep DEF TypeOK, EvidenceHonest, pubVars

LEMMA StaticSwapStep == ASSUME IInv, StaticSwap PROVE IInv'
<1> DEFINE j == [job["static"] EXCEPT !.stage = "pick"]
<1>0. TypeOK /\ EvidenceHonest /\ "static" \in Thread  BY DEF IInv, Thread
<1>1. Honest("static") /\ job["static"] \in Job  BY <1>0 DEF IInv, JobHonest, TypeOK
<1>2. /\ job["static"].stage = "swap" /\ Step("static", j)
      /\ UNCHANGED <<envVars, pubVars, announced, seen, ready, rediscover, nudgeStatic>>
  BY DEF StaticSwap
<1>3. details' \in [Device -> Payload]
  <2>1. job["static"].list \subseteq Device \X Payload  BY <1>1 DEF Job
  <2>2. ASSUME NEW d \in Device
        PROVE (IF \E x \in job["static"].list : x[1] = d
               THEN (CHOOSE x \in job["static"].list : x[1] = d)[2] ELSE NoConfig) \in Payload
    BY <2>1 DEF Payload
  <2> QED BY <2>2 DEF StaticSwap
<1>4. j \in Job  BY <1>1 DEF Job
<1>5. job'["static"] = j  BY <1>0, <1>2 DEF Step, TypeOK
<1>6. Honest("static")'
  <2>1. j.stage = "pick" /\ j.list = job["static"].list /\ j.call = NoCall
    BY <1>1, <1>2 DEF Job, Honest
  <2> QED BY <1>1, <1>2, <1>5, <2>1 DEF Honest
<1> QED BY <1>0, <1>2, <1>3, <1>4, <1>6, BookStep DEF TypeOK, EvidenceHonest, pubVars

LEMMA TakeBirthStep == ASSUME IInv, TakeBirth PROVE IInv'
<1> DEFINE l == {<<d, NoConfig>> : d \in {x \in Device : announced[x] # {}}}
           j == [IdleJob EXCEPT !.stage = "open", !.list = l]
<1>0. TypeOK /\ EvidenceHonest /\ "rediscover" \in Thread  BY DEF IInv, Thread
<1>1. /\ Step("rediscover", j) /\ rediscover' = FALSE
      /\ UNCHANGED <<envVars, pubVars, details, announced, seen, ready, nudgeStatic>>
  BY DEF TakeBirth
<1>2. l \subseteq Device \X Payload  BY DEF Payload
<1>3. j \in Job /\ j.stage = "open" /\ j.call = NoCall
  BY <1>2 DEF IdleJob, Job
<1>4. job'["rediscover"] = j  BY <1>0, <1>1 DEF Step, TypeOK
<1>5. Honest("rediscover")'  BY <1>3, <1>4 DEF Honest
<1> QED BY <1>0, <1>1, <1>3, <1>5, BookStep DEF TypeOK, EvidenceHonest, pubVars

LEMMA OpenDeviceStep == ASSUME IInv, OpenDevice PROVE IInv'
<1> DEFINE j(x) == [job["rediscover"] EXCEPT !.list = @ \ {x}, !.todo = announced[x[1]]]
<1>0. TypeOK /\ "rediscover" \in Thread  BY DEF IInv, Thread
<1>1. Honest("rediscover") /\ job["rediscover"] \in Job /\ job["rediscover"].stage = "open"
      /\ UNCHANGED <<envVars, pubVars, coordVars>>
  BY <1>0 DEF IInv, JobHonest, TypeOK, OpenDevice
<1>2. PICK x \in job["rediscover"].list : Step("rediscover", j(x))  BY DEF OpenDevice
<1>3. x \in Device \X Payload  BY <1>1 DEF Job
<1>4. j(x) \in Job  BY <1>0, <1>1, <1>3 DEF Job, TypeOK
<1>5. job'["rediscover"] = j(x)  BY <1>0, <1>2 DEF Step, TypeOK
<1>6. j(x).stage = "open" /\ j(x).call = job["rediscover"].call  BY <1>1 DEF Job
<1>7. Honest("rediscover")'  BY <1>1, <1>5, <1>6 DEF Honest
<1> QED BY <1>0, <1>1, <1>2, <1>4, <1>7, QuietStep

LEMMA OpenTopicStep == ASSUME IInv, OpenTopic PROVE IInv'
<1> DEFINE j(t) == [job["rediscover"] EXCEPT !.todo = @ \ {t}]
<1>0. TypeOK /\ EvidenceHonest /\ "rediscover" \in Thread  BY DEF IInv, Thread
<1>1. Honest("rediscover") /\ job["rediscover"] \in Job /\ job["rediscover"].stage = "open"
      /\ UNCHANGED <<envVars, configs, published, accepted, coordVars>>
  BY <1>0 DEF IInv, JobHonest, TypeOK, OpenTopic
<1>2. PICK t \in job["rediscover"].todo :
         lastConfig' = [lastConfig EXCEPT ![t] = NoConfig] /\ Step("rediscover", j(t))
  BY DEF OpenTopic
<1>3. t \in Topic  BY <1>1 DEF Job
<1>4. lastConfig' \in [Topic -> Payload]
      /\ \A x \in Topic : lastConfig'[x] \in {lastConfig[x], NoConfig}
  BY <1>0, <1>2, <1>3 DEF TypeOK, Payload
<1>5. j(t) \in Job  BY <1>1 DEF Job
<1>6. job'["rediscover"] = j(t)  BY <1>0, <1>2 DEF Step, TypeOK
<1>7. j(t).stage = "open" /\ j(t).call = job["rediscover"].call  BY <1>1 DEF Job
<1>8. Honest("rediscover")'  BY <1>1, <1>6, <1>7 DEF Honest
<1> QED
  BY <1>0, <1>1, <1>2, <1>4, <1>5, <1>8, BookStep DEF TypeOK, EvidenceHonest, coordVars

LEMMA AnnounceAllStep == ASSUME IInv, AnnounceAll PROVE IInv'
<1> DEFINE l == {<<d, details[d]>> : d \in {x \in Device : details[x] # NoConfig}}
           j == [IdleJob EXCEPT !.stage = "pick", !.list = l]
<1>0. TypeOK /\ "rediscover" \in Thread  BY DEF IInv, Thread
<1>1. Step("rediscover", j) /\ UNCHANGED <<envVars, pubVars, coordVars>>
  BY DEF AnnounceAll
<1>2. l \subseteq Device \X Payload /\ \A x \in l : x[2] # NoConfig
  BY <1>0 DEF TypeOK
<1>3. j \in Job /\ j.stage = "pick" /\ j.list = l /\ j.call = NoCall
  BY <1>2 DEF IdleJob, Job
<1>4. job'["rediscover"] = j  BY <1>0, <1>1 DEF Step, TypeOK
<1>5. Honest("rediscover")'  BY <1>2, <1>3, <1>4 DEF Honest
<1> QED BY <1>0, <1>1, <1>3, <1>5, QuietStep

LEMMA DevicesPollStep == ASSUME IInv, DevicesPoll PROVE IInv'
<1> DEFINE present == {d \in Device : site[d] # NoConfig}
           l == {<<d, NoConfig>> : d \in seen \ present}
           j == [IdleJob EXCEPT !.stage = "pick", !.list = l]
<1>0. TypeOK /\ EvidenceHonest /\ "devices" \in Thread  BY DEF IInv, Thread
<1>1. /\ Step("devices", j) /\ seen' = present
      /\ UNCHANGED <<envVars, pubVars, details, announced, ready, rediscover, nudgeStatic>>
  BY DEF DevicesPoll
<1>2. l \subseteq Device \X Payload  BY <1>0 DEF TypeOK, Payload
<1>3. j \in Job /\ j.stage = "pick" /\ j.call = NoCall
  BY <1>2 DEF IdleJob, Job
<1>4. job'["devices"] = j  BY <1>0, <1>1 DEF Step, TypeOK
<1>5. Honest("devices")'  BY <1>3, <1>4 DEF Honest, Announcer
<1> QED BY <1>0, <1>1, <1>3, <1>5, BookStep DEF TypeOK, EvidenceHonest, pubVars

LEMMA ForgetDiscoveryStep == ASSUME IInv, ForgetDiscovery PROVE IInv'
<1> DEFINE j(x) == [job["devices"] EXCEPT
              !.stage = "drop", !.list = @ \ {x}, !.cur = x, !.todo = announced[x[1]]]
<1>0. TypeOK /\ EvidenceHonest /\ "devices" \in Thread  BY DEF IInv, Thread
<1>1. Honest("devices") /\ job["devices"] \in Job /\ job["devices"].stage = "pick"
      /\ UNCHANGED <<envVars, pubVars, details, seen, ready, rediscover, nudgeStatic>>
  BY <1>0 DEF IInv, JobHonest, TypeOK, ForgetDiscovery
<1>2. PICK x \in job["devices"].list :
         announced' = [announced EXCEPT ![x[1]] = {}] /\ Step("devices", j(x))
  BY DEF ForgetDiscovery
<1>3. x \in Device \X Payload  BY <1>1 DEF Job
<1>4. announced[x[1]] \subseteq Topic /\ announced[x[1]] \subseteq published
  BY <1>0, <1>3 DEF TypeOK, EvidenceHonest
<1>5. j(x) \in Job  BY <1>1, <1>3, <1>4 DEF Job
<1>6. job'["devices"] = j(x)  BY <1>0, <1>2 DEF Step, TypeOK
<1>7. Honest("devices")'
  <2>1. j(x).stage = "drop" /\ j(x).call = NoCall /\ j(x).todo = announced[x[1]]
    BY <1>1 DEF Job, Honest
  <2> QED BY <1>1, <1>4, <1>6, <2>1 DEF Honest, Announcer, pubVars
<1>8. announced' \in [Device -> SUBSET Topic] /\ \A d \in Device : announced'[d] \subseteq published
  BY <1>0, <1>2, <1>3 DEF TypeOK, EvidenceHonest
<1> QED BY <1>0, <1>1, <1>2, <1>5, <1>7, <1>8, BookStep DEF TypeOK, pubVars

LEMMA DropDetailsStep == ASSUME IInv, DropDetails PROVE IInv'
<1> DEFINE j == [job["devices"] EXCEPT !.stage = "pick", !.cur = Nobody]
<1>0. TypeOK /\ EvidenceHonest /\ "devices" \in Thread  BY DEF IInv, Thread
<1>1. Honest("devices") /\ job["devices"] \in Job  BY <1>0 DEF IInv, JobHonest, TypeOK
<1>2. /\ Step("devices", j) /\ job["devices"].call = NoCall
      /\ details' = [details EXCEPT ![job["devices"].cur[1]] = NoConfig]
      /\ UNCHANGED <<envVars, pubVars, announced, seen, ready, rediscover, nudgeStatic>>
  BY DEF DropDetails
<1>3. details' \in [Device -> Payload]
  BY <1>0, <1>2 DEF TypeOK, Payload
<1>4. j \in Job /\ j.stage = "pick" /\ j.call = NoCall
  BY <1>1, <1>2 DEF Job
<1>5. job'["devices"] = j  BY <1>0, <1>2 DEF Step, TypeOK
<1>6. Honest("devices")'  BY <1>4, <1>5 DEF Honest, Announcer
<1> QED BY <1>0, <1>2, <1>3, <1>4, <1>6, BookStep DEF TypeOK, EvidenceHonest, pubVars

LEMMA DevicesDoneStep == ASSUME IInv, DevicesDone PROVE IInv'
<1>0. TypeOK /\ EvidenceHonest /\ "devices" \in Thread  BY DEF IInv, Thread
<1>1. /\ Step("devices", IdleJob) /\ ready' = (ready \/ seen # {})
      /\ UNCHANGED <<envVars, pubVars, details, announced, seen, rediscover, nudgeStatic>>
  BY DEF DevicesDone
<1>2. job'["devices"] = IdleJob  BY <1>0, <1>1 DEF Step, TypeOK
<1>3. Honest("devices")'  BY <1>2 DEF Honest, IdleJob
<1>4. ready' \in BOOLEAN  BY <1>1
<1> QED BY <1>0, <1>1, <1>3, <1>4, IdleJobType, BookStep DEF TypeOK, EvidenceHonest, pubVars

LEMMA SweepStep ==
    ASSUME IInv, SweepCollect \/ SweepGivesUp \/ SweepJudge \/ SweepDone PROVE IInv'
<1>0. TypeOK /\ EvidenceHonest /\ "sweep" \in Thread /\ job["sweep"] \in Job
      /\ Honest("sweep") /\ UNCHANGED <<envVars, pubVars, coordVars>>
  BY DEF IInv, JobHonest, Thread, TypeOK, SweepCollect, SweepGivesUp, SweepJudge, SweepDone
<1>1. CASE SweepCollect
  <2> DEFINE window == {t \in Topic : retained[t] # NoConfig}
             j == [IdleJob EXCEPT !.stage = "judge", !.todo = window]
  <2>1. Step("sweep", j)  BY <1>1 DEF SweepCollect
  <2>2. j \in Job /\ j.stage = "judge" /\ j.call = NoCall  BY DEF IdleJob, Job
  <2>3. Honest("sweep")'  BY <1>0, <2>1, <2>2 DEF Step, TypeOK, Honest, Announcer
  <2> QED BY <1>0, <2>1, <2>2, <2>3, QuietStep
<1>2. CASE SweepGivesUp \/ SweepDone
  <2> DEFINE j == [IdleJob EXCEPT !.stage = "done"]
  <2>1. Step("sweep", j)  BY <1>2 DEF SweepGivesUp, SweepDone
  <2>2. j \in Job /\ j.stage = "done" /\ j.call = NoCall  BY DEF IdleJob, Job
  <2>3. Honest("sweep")'  BY <1>0, <2>1, <2>2 DEF Step, TypeOK, Honest, Announcer
  <2> QED BY <1>0, <2>1, <2>2, <2>3, QuietStep
<1>3. CASE SweepJudge
  <2> DEFINE j == [job["sweep"] EXCEPT !.stage = "drop", !.todo = Orphans(@)]
  <2>1. Step("sweep", j) /\ job["sweep"].stage = "judge"  BY <1>3 DEF SweepJudge
  <2>2. Orphans(job["sweep"].todo) \subseteq published  BY DEF Orphans
  <2>3. j \in Job /\ j.stage = "drop" /\ j.call = NoCall /\ j.todo \subseteq published
    BY <1>0, <2>1, <2>2 DEF Job, Honest, TypeOK
  <2>4. job'["sweep"] = j  BY <1>0, <2>1 DEF Step, TypeOK
  <2>5. Honest("sweep")'  BY <1>0, <2>3, <2>4 DEF Honest, Announcer, pubVars
  <2> QED BY <1>0, <2>1, <2>3, <2>5, QuietStep
<1> QED BY <1>1, <1>2, <1>3

\* The environment moves no goroutine and drops no evidence.
LEMMA EnvironmentStep ==
    ASSUME IInv, SiteChange \/ Birth \/ Disconnect \/ OnConnect PROVE IInv'
<1>0. TypeOK /\ EvidenceHonest /\ JobHonest  BY DEF IInv
<1>1. UNCHANGED <<job, configs, published, accepted, details, announced, seen, ready>>
  BY DEF SiteChange, Birth, Disconnect, OnConnect, pubVars, coordVars
<1>2. lastConfig' \in [Topic -> Payload]
      /\ \A t \in Topic : lastConfig'[t] \in {lastConfig[t], NoConfig}
  BY <1>0 DEF SiteChange, Birth, Disconnect, OnConnect, OpenGate, pubVars, TypeOK, Payload
<1>3. site' \in [Device -> Payload]
  BY <1>0 DEF SiteChange, Birth, Disconnect, OnConnect, TypeOK
<1>4. retained' \in [Topic -> Payload]
  BY <1>0 DEF SiteChange, Birth, Disconnect, OnConnect, TypeOK, Payload
<1>5. link' \in BOOLEAN /\ rediscover' \in BOOLEAN /\ nudgeStatic' \in BOOLEAN
  BY <1>0 DEF SiteChange, Birth, Disconnect, OnConnect, TypeOK, coordVars
<1>6. spent' \in [Bound -> Nat]
  BY <1>0, SpendType DEF SiteChange, Birth, Disconnect, OnConnect, TypeOK, Bound
<1>7. TypeOK'  BY <1>0, <1>1, <1>2, <1>3, <1>4, <1>5, <1>6 DEF TypeOK
<1>8. EvidenceHonest'  BY <1>0, <1>1, <1>2 DEF EvidenceHonest
<1>9. JobHonest'  BY <1>0, <1>1, HonestStays DEF JobHonest
<1> QED BY <1>7, <1>8, <1>9 DEF IInv

-----------------------------------------------------------------------------
(* The theorems.                                                           *)

LEMMA InitIInv == Init => IInv
<1> SUFFICES ASSUME Init PROVE IInv  OBVIOUS
<1>1. TypeOK  BY IdleJobType, VariantAssumption DEF Init, TypeOK, Payload
<1>2. EvidenceHonest  BY DEF Init, EvidenceHonest
<1>3. JobHonest  BY DEF Init, JobHonest, Honest, IdleJob
<1> QED BY <1>1, <1>2, <1>3 DEF IInv

LEMMA NextIInv == IInv /\ [Next]_vars => IInv'
<1> SUFFICES ASSUME IInv, [Next]_vars PROVE IInv'  OBVIOUS
<1>1. ASSUME NEW th \in Thread, PublishStep(th) PROVE IInv'
  BY <1>1, ClaimStep, ClearStep, SendStep, SendFailsStep, RecordPutStep,
     RecordClearStep, ForgetStep DEF PublishStep
<1>2. ASSUME NEW th \in Thread, AnnounceStep(th) PROVE IInv'
  BY <1>2, NextDeviceStep, AnnounceActStep DEF AnnounceStep
<1>3. ASSUME NEW nudged \in BOOLEAN, StaticFetch(nudged) PROVE IInv'
  BY <1>3, StaticFetchStep
<1>4. CASE StaticSwap  BY <1>4, StaticSwapStep
<1>5. CASE TakeBirth \/ OpenDevice \/ OpenTopic
  BY <1>5, TakeBirthStep, OpenDeviceStep, OpenTopicStep
<1>6. CASE AnnounceAll  BY <1>6, AnnounceAllStep
<1>7. CASE DevicesPoll  BY <1>7, DevicesPollStep
<1>8. CASE ForgetDiscovery  BY <1>8, ForgetDiscoveryStep
<1>9. CASE DropDetails  BY <1>9, DropDetailsStep
<1>10. CASE DevicesDone  BY <1>10, DevicesDoneStep
<1>11. CASE SweepCollect \/ SweepGivesUp \/ SweepJudge \/ SweepDone
  BY <1>11, SweepStep
<1>12. CASE SiteChange \/ Birth \/ Disconnect \/ OnConnect
  BY <1>12, EnvironmentStep
<1>13. CASE UNCHANGED vars
  BY <1>13 DEF IInv, TypeOK, EvidenceHonest, JobHonest, Honest, vars, envVars,
               pubVars, coordVars
<1> QED BY <1>1, <1>2, <1>3, <1>4, <1>5, <1>6, <1>7, <1>8, <1>9, <1>10, <1>11,
           <1>12, <1>13 DEF Next

\* Type correctness: whatever the goroutines do, every variable keeps its
\* type, and no call is made on behalf of nobody.
THEOREM TypeCorrect == Spec => []TypeOK
<1>1. IInv => TypeOK  BY DEF IInv
<1> QED BY InitIInv, NextIInv, <1>1, PTL DEF Spec

\* The evidence of ownership is honest, on any number of devices and under
\* any number of failures: the published set, the records of what each
\* device announced and the gate's memory name only topics on which the
\* broker accepted a config of this process (publish.go:86-104).
THEOREM Honesty == Spec => []EvidenceHonest
<1>1. IInv => EvidenceHonest  BY DEF IInv
<1> QED BY InitIInv, NextIInv, <1>1, PTL DEF Spec

\* A retraction in flight, whichever goroutine issued it and whatever it
\* read before it waited, is of a topic this process published.
THEOREM CallsHonest == Spec => []JobHonest
<1>1. IInv => JobHonest  BY DEF IInv
<1> QED BY InitIInv, NextIInv, <1>1, PTL DEF Spec

\* What the broker stores is a step of the abstract specification, provided
\* an empty payload goes to a topic this process owns.
LEMMA StoreRefines ==
    ASSUME NEW t \in Topic, NEW p \in Payload, Store(t, p),
           p = NoConfig => t \in accepted
    PROVE  Ownership!Next
<1>1. CASE p # NoConfig
  <2>1. Ownership!Put(t, p)  BY <1>1 DEF Store, Ownership!Put
  <2> QED BY <2>1 DEF Ownership!Next
<1>2. CASE p = NoConfig
  <2>1. Ownership!Retract(t)  BY <1>2 DEF Store, Ownership!Retract
  <2> QED BY <2>1 DEF Ownership!Next
<1> QED BY <1>1, <1>2

LEMMA SendRefines ==
    ASSUME IInv, NEW th \in Thread, Send(th) \/ SendFails(th)
    PROVE  [Ownership!Next]_(Ownership!vars)
<1> DEFINE c == job[th].call
<1>1. c.at = "send"  BY DEF Send, SendFails
<1>2. c.topic \in Topic /\ c.payload \in Payload
      /\ (c.payload = NoConfig => c.topic \in published)
  BY <1>1, InFlight DEF Call
<1>3. published \subseteq accepted  BY DEF IInv, EvidenceHonest
<1>4. CASE Store(c.topic, c.payload)  BY <1>2, <1>3, <1>4, StoreRefines
<1>5. CASE UNCHANGED <<retained, accepted>>  BY <1>5 DEF Ownership!vars
<1> QED BY <1>4, <1>5 DEF Send, SendFails

LEMMA NextRefines == IInv /\ [Next]_vars => [Ownership!Next]_(Ownership!vars)
<1> SUFFICES ASSUME IInv, [Next]_vars PROVE [Ownership!Next]_(Ownership!vars)
  OBVIOUS
<1>1. ASSUME NEW th \in Thread, Send(th) \/ SendFails(th)
      PROVE  [Ownership!Next]_(Ownership!vars)
  BY <1>1, SendRefines
<1>2. CASE Disconnect
  <2>1. CASE UNCHANGED retained
    BY <1>2, <2>1 DEF Disconnect, pubVars, Ownership!vars
  <2>2. CASE retained' = [t \in Topic |-> NoConfig]
    <3>1. Ownership!Vanish  BY <1>2, <2>2 DEF Disconnect, pubVars, Ownership!Vanish
    <3> QED BY <3>1 DEF Ownership!Next
  <2> QED BY <1>2, <2>1, <2>2 DEF Disconnect
<1>3. ASSUME NEW th \in Thread,
             Claim(th) \/ Clear(th) \/ RecordPut(th) \/ RecordClear(th) \/ Forget(th)
               \/ AnnounceStep(th)
      PROVE  UNCHANGED <<retained, accepted>>
  BY <1>3 DEF Claim, Clear, RecordPut, RecordClear, Forget, AnnounceStep, NextDevice,
              Announce, envVars, pubVars
<1>4. ASSUME NEW nudged \in BOOLEAN, StaticFetch(nudged)
      PROVE  UNCHANGED <<retained, accepted>>
  BY <1>4 DEF StaticFetch, envVars, pubVars
<1>5. CASE StaticSwap \/ TakeBirth \/ OpenDevice \/ OpenTopic \/ AnnounceAll \/ DevicesPoll
             \/ ForgetDiscovery \/ DropDetails \/ DevicesDone
  <2>1. UNCHANGED <<retained, accepted>>
    BY <1>5 DEF StaticSwap, TakeBirth, OpenDevice, OpenTopic, AnnounceAll, DevicesPoll, ForgetDiscovery,
                DropDetails, DevicesDone, envVars, pubVars
  <2> QED BY <2>1 DEF Ownership!vars
<1>6. CASE SweepCollect \/ SweepGivesUp \/ SweepJudge \/ SweepDone
             \/ SiteChange \/ Birth \/ OnConnect \/ UNCHANGED vars
  <2>1. UNCHANGED <<retained, accepted>>
    BY <1>6 DEF SweepCollect, SweepGivesUp, SweepJudge, SweepDone, SiteChange, Birth,
                OnConnect, vars, envVars, pubVars
  <2> QED BY <2>1 DEF Ownership!vars
<1> QED
  BY <1>1, <1>2, <1>3, <1>4, <1>5, <1>6 DEF Next, PublishStep, Ownership!vars

\* The device half of the discovery plane implements ConfigOwnership: no
\* interleaving of its four goroutines with reconnects, lost
\* acknowledgements and a changing site empties a config topic another
\* writer owns (hass/cleanup.go:181-189).
THEOREM Implements == Spec => ImplementsOwnership
<1>1. Init => Ownership!Init
  BY VariantAssumption DEF Init, Ownership!Init, Payload
<1> QED
  BY InitIInv, NextIInv, NextRefines, <1>1, PTL DEF Spec, ImplementsOwnership, Ownership!Spec
-----------------------------------------------------------------------------
(* No config of ours is lost track of.                                     *)

\* A goroutine works on the topics of the device it has in hand, and has
\* the one in flight still on its list; a record names its device's topics.
Own(th) ==
    LET j == job[th] IN
    /\ j.stage = "put" => j.todo \subseteq Topics(j.cur[1], j.cur[2])
    /\ j.stage = "put" /\ j.call # NoCall => j.call.topic \in j.todo
    /\ j.stage = "drop" /\ th # "sweep" => j.cur # Nobody /\ \A t \in j.todo : t[1] = j.cur[1]

Books ==
    /\ \A d \in Device : \A t \in announced[d] : t[1] = d
    /\ \A th \in Thread : Own(th)

\* The goroutine will see to topic t: it announces a device that has it, or
\* it has yet to send the message that clears it.
Minds(th, t) ==
    LET j == job[th] IN
    \/ j.stage = "put" /\ t \in Topics(j.cur[1], j.cur[2])
    \/ j.stage = "drop" /\ t \in j.todo /\ ~(j.call.at \in {"record", "forget"} /\ j.call.topic = t)

Steady == spent["fail"] = 0 /\ spent["drop"] = 0
Ours(t) == t \in accepted /\ retained[t] # NoConfig
Accounted ==
    /\ Steady => link
    /\ Steady => \A t \in Topic : Ours(t) =>
                    t \in announced[t[1]] \/ \E th \in Thread : Minds(th, t)

Tracked == IInv /\ Books /\ Accounted

LEMMA Stepped ==
    ASSUME TypeOK, NEW th \in Thread, NEW j, Step(th, j)
    PROVE  job'[th] = j /\ \A x \in Thread \ {th} : job'[x] = job[x]
BY DEF TypeOK, Step

LEMMA NotMinding ==
    ASSUME NEW th \in Thread, NEW t,
           job[th].stage \notin {"put", "drop"} \/ (job[th].stage = "drop" /\ job[th].todo = {})
    PROVE  ~Minds(th, t)
BY DEF Minds

LEMMA OwnOutside ==
    ASSUME NEW th \in Thread, job[th].stage \notin {"put", "drop"} PROVE Own(th)
BY DEF Own

LEMMA OthersOwn ==
    ASSUME Books, NEW th \in Thread, \A x \in Thread \ {th} : job'[x] = job[x], Own(th)',
           \A d \in Device : \A t \in announced'[d] : t \in announced[d] \/ t[1] = d
    PROVE  Books'
<1>1. \A x \in Thread \ {th} : Own(x)'
  BY DEF Books, Own, Topics
<1>2. \A x \in Thread : Own(x)'
  BY <1>1
<1>3. QED
  BY <1>2 DEF Books

\* The step of one goroutine: what it takes from the records or from its
\* own care goes back into one of them, unless it is off the broker.
LEMMA StepAccounted ==
    ASSUME Accounted, NEW th \in Thread, \A x \in Thread \ {th} : job'[x] = job[x],
           Steady' => Steady /\ link' = link,
           Steady' => \A t \in Topic : Ours(t)' =>
               /\ Ours(t) \/ Minds(th, t)'
               /\ t \in announced[t[1]] \/ Minds(th, t) => t \in announced'[t[1]] \/ Minds(th, t)'
    PROVE  Accounted'
<1>1. Steady' => link'
  BY DEF Accounted
<1>2. ASSUME Steady', NEW t \in Topic, Ours(t)'
      PROVE  t \in announced'[t[1]] \/ \E x \in Thread : Minds(x, t)'
  <2>1. CASE Minds(th, t)'
    BY <2>1
  <2>2. CASE ~Minds(th, t)'
    <3>1. Ours(t) /\ Steady
      BY <1>2, <2>2
    <3>2. t \in announced[t[1]] \/ \E x \in Thread : Minds(x, t)
      BY <3>1 DEF Accounted
    <3>3. CASE t \in announced[t[1]] \/ Minds(th, t)
      BY <3>3, <1>2, <2>2
    <3>4. ASSUME NEW x \in Thread \ {th}, Minds(x, t) PROVE Minds(x, t)'
      BY <3>4 DEF Minds, Topics
    <3>5. QED
      BY <3>2, <3>3, <3>4
  <2>3. QED
    BY <2>1, <2>2
<1>3. QED
  BY <1>1, <1>2 DEF Accounted

\* A step that changes neither the broker nor the records.
LEMMA QuietTracked ==
    ASSUME Tracked, NEW th \in Thread, \A x \in Thread \ {th} : job'[x] = job[x],
           UNCHANGED <<retained, spent, link, accepted, announced>>, Own(th)',
           \A t \in Topic : Minds(th, t) => Minds(th, t)'
    PROVE  Books' /\ Accounted'
<1>1. Books'
  BY OthersOwn DEF Tracked
<1>2. Steady' = Steady /\ \A t \in Topic : Ours(t)' = Ours(t)
  BY DEF Steady, Ours
<1>3. Accounted'
  BY <1>2, StepAccounted DEF Tracked
<1>4. QED
  BY <1>1, <1>3

\* A goroutine that had nothing in hand takes up nothing.
LEMMA IdleTracked ==
    ASSUME Tracked, NEW th \in Thread, NEW j, Step(th, j),
           UNCHANGED <<retained, spent, link, accepted, announced>>,
           job[th].stage \notin {"put", "drop"} \/ (job[th].stage = "drop" /\ job[th].todo = {}),
           j.stage \notin {"put", "drop"}
    PROVE  Books' /\ Accounted'
<1>1. job'[th] = j /\ \A x \in Thread \ {th} : job'[x] = job[x]
  BY Stepped DEF Tracked, IInv
<1>2. Own(th)'
  BY <1>1 DEF Own
<1>3. QED
  BY <1>1, <1>2, NotMinding, QuietTracked

LEMMA ClaimTracked == ASSUME Tracked, NEW th \in Thread, Claim(th) PROVE Books' /\ Accounted'
<1> DEFINE v == job[th].cur[2]
           skip(t) == [job[th] EXCEPT !.todo = @ \ {t}]
           send(t) == [job[th] EXCEPT !.call = [at |-> "send", topic |-> t, payload |-> v]]
<1>1. TypeOK /\ job[th] \in Job /\ job[th].stage = "put" /\ job[th].call = NoCall /\ Own(th)
  BY DEF Tracked, IInv, TypeOK, Claim, Books
<1>2. PICK t \in job[th].todo : Step(th, skip(t)) \/ Step(th, send(t))
  BY DEF Claim
<1>3. \A x \in Thread \ {th} : job'[x] = job[x]
  BY <1>1, <1>2, Stepped
<1>4. /\ job'[th].stage = "put" /\ job'[th].cur = job[th].cur /\ job'[th].todo \subseteq job[th].todo
      /\ job'[th].call # NoCall => job'[th].call.topic \in job'[th].todo
  <2>1. CASE Step(th, skip(t))
    <3>1. job'[th] = skip(t)
      BY <1>1, <2>1, Stepped
    <3>2. QED
      BY <1>1, <3>1 DEF Job
  <2>2. CASE Step(th, send(t))
    <3>1. job'[th] = send(t)
      BY <1>1, <2>2, Stepped
    <3>2. QED
      BY <1>1, <1>2, <3>1 DEF Job
  <2>3. QED
    BY <1>2, <2>1, <2>2
<1>5. Own(th)'
  BY <1>1, <1>4 DEF Own, Topics
<1>6. \A u \in Topic : Minds(th, u) => Minds(th, u)'
  BY <1>1, <1>4 DEF Minds, Topics
<1>7. UNCHANGED <<retained, spent, link, accepted, announced>>
  BY DEF Claim, envVars, coordVars
<1>8. QED
  BY <1>3, <1>5, <1>6, <1>7, QuietTracked

LEMMA ClearTracked == ASSUME Tracked, NEW th \in Thread, Clear(th) PROVE Books' /\ Accounted'
<1> DEFINE send(t) == [job[th] EXCEPT !.call = [at |-> "send", topic |-> t, payload |-> NoConfig]]
<1>1. TypeOK /\ job[th] \in Job /\ job[th].stage = "drop" /\ Own(th)
  BY DEF Tracked, IInv, TypeOK, Clear, Books
<1>2. PICK t \in job[th].todo : Step(th, send(t))
  BY DEF Clear
<1>3. job'[th] = send(t) /\ \A x \in Thread \ {th} : job'[x] = job[x]
  BY <1>1, <1>2, Stepped
<1>4. /\ job'[th].stage = "drop" /\ job'[th].cur = job[th].cur /\ job'[th].todo = job[th].todo
      /\ job'[th].call.at = "send"
  BY <1>1, <1>3 DEF Job
<1>5. Own(th)'
  BY <1>1, <1>4 DEF Own
<1>6. \A u \in Topic : Minds(th, u) => Minds(th, u)'
  BY <1>1, <1>4 DEF Minds
<1>7. UNCHANGED <<retained, spent, link, accepted, announced>>
  BY DEF Clear, envVars, pubVars, coordVars
<1>8. QED
  BY <1>3, <1>5, <1>6, <1>7, QuietTracked

\* What is put on the broker is the goroutine's to record; what it clears
\* is off the broker, and no longer its care.
LEMMA SendTracked == ASSUME Tracked, NEW th \in Thread, Send(th) PROVE Books' /\ Accounted'
<1> DEFINE c == job[th].call
           j == [job[th] EXCEPT !.call.at = "record"]
<1>1. TypeOK /\ Own(th) /\ IInv /\ c.at = "send" /\ Store(c.topic, c.payload) /\ Step(th, j)
      /\ UNCHANGED <<site, link, spent, lastConfig, configs, published, coordVars>>
  BY DEF Tracked, IInv, Books, Send
<1>2. /\ job[th] \in Job /\ c \in Call /\ c # NoCall /\ job[th].stage \in {"put", "drop"}
      /\ c.payload = NoConfig <=> job[th].stage = "drop"
  BY <1>1, InFlight
<1>3. c.topic \in Topic /\ c.payload \in Payload
  BY <1>2 DEF Call
<1>4. job'[th] = j /\ \A x \in Thread \ {th} : job'[x] = job[x]
  BY <1>1, Stepped
<1>5. /\ job'[th].stage = job[th].stage /\ job'[th].cur = job[th].cur /\ job'[th].todo = job[th].todo
      /\ job'[th].call.topic = c.topic /\ job'[th].call.at = "record"
  BY <1>2, <1>4 DEF Job, Call
<1>6. Own(th)'
  BY <1>1, <1>2, <1>5 DEF Own, Topics
<1>7. Books'
  BY <1>1, <1>4, <1>6, OthersOwn DEF Tracked, coordVars
<1>8. Steady' = Steady /\ link' = link /\ announced' = announced
  BY <1>1 DEF Steady, coordVars
<1>9. ASSUME NEW t \in Topic, Ours(t)'
      PROVE  /\ Ours(t) \/ Minds(th, t)'
             /\ t \in announced[t[1]] \/ Minds(th, t) => t \in announced'[t[1]] \/ Minds(th, t)'
  <2>1. CASE t # c.topic
    <3>1. Ours(t)
      BY <1>1, <1>3, <1>9, <2>1 DEF Ours, Store, TypeOK
    <3>2. Minds(th, t) => Minds(th, t)'
      BY <1>5, <2>1 DEF Minds, Topics
    <3>3. QED
      BY <3>1, <3>2, <1>8
  <2>2. CASE t = c.topic /\ job[th].stage = "put"
    BY <1>1, <1>2, <1>5, <2>2 DEF Minds, Own, Topics
  <2>3. CASE t = c.topic /\ job[th].stage = "drop"
    BY <1>1, <1>2, <1>3, <1>9, <2>3 DEF Ours, Store, TypeOK
  <2>4. QED
    BY <1>2, <2>1, <2>2, <2>3
<1>10. Accounted'
  BY <1>4, <1>8, <1>9, StepAccounted DEF Tracked
<1>11. QED
  BY <1>7, <1>10


\* A failure takes a goroutine's care away, which is why nothing is said of
\* behaviours with one; without a connection there has been a drop.
LEMMA SendFailsTracked == ASSUME Tracked, NEW th \in Thread, SendFails(th) PROVE Books' /\ Accounted'
<1> DEFINE j == AfterError(th)
<1>1. TypeOK /\ IInv /\ Own(th) /\ job[th].call.at = "send" /\ Step(th, j) /\ announced' = announced
  BY DEF Tracked, IInv, Books, SendFails, coordVars
<1>2. job'[th] = j /\ \A x \in Thread \ {th} : job'[x] = job[x]
  BY <1>1, Stepped
<1>3. job[th] \in Job /\ job[th].stage \in {"put", "drop"} /\ job[th].call.payload = NoConfig <=> job[th].stage = "drop"
  BY <1>1, InFlight
<1>4. Own(th)'
  <2>1. CASE th = "static"
    <3>1. j = [[job[th] EXCEPT !.call = NoCall] EXCEPT !.stage = "pick", !.cur = Nobody, !.todo = {}]
      BY <2>1 DEF AfterError
    <3>2. j.stage = "pick"
      BY <1>3, <3>1 DEF Job
    <3>3. QED
      BY <1>2, <3>2 DEF Own
  <2>2. CASE th = "rediscover"
    BY <1>2, <2>2 DEF AfterError, IdleJob, Own
  <2>3. CASE th \notin Announcer
    <3>1. /\ j.stage = job[th].stage /\ j.cur = job[th].cur /\ j.todo \subseteq job[th].todo
          /\ j.call = NoCall
      BY <1>3, <2>3 DEF AfterError, Announcer, Job
    <3>2. QED
      BY <1>1, <1>2, <3>1 DEF Own, Topics
  <2>4. QED
    BY <2>1, <2>2, <2>3 DEF Announcer
<1>5. Books'
  BY <1>1, <1>2, <1>4, OthersOwn DEF Tracked
<1>6. ~Steady'
  <2>1. CASE ~link /\ UNCHANGED spent
    BY <2>1 DEF Tracked, Accounted, Steady
  <2>2. CASE Spend("fail", MaxFail)
    <3>1. spent["fail"] \in Nat /\ spent'["fail"] = spent["fail"] + 1
      BY <1>1, <2>2 DEF Spend, TypeOK, Bound
    <3>2. QED
      BY <3>1 DEF Steady
  <2>3. QED
    BY <2>1, <2>2 DEF SendFails
<1>7. Accounted'
  BY <1>6 DEF Accounted
<1>8. QED
  BY <1>5, <1>7

LEMMA RecordPutTracked == ASSUME Tracked, NEW th \in Thread, RecordPut(th) PROVE Books' /\ Accounted'
<1> DEFINE c == job[th].call
           j == [job[th] EXCEPT !.call = NoCall, !.todo = @ \ {c.topic}]
<1>1. TypeOK /\ IInv /\ Own(th) /\ c.at = "record" /\ c.payload # NoConfig /\ Step(th, j)
  BY DEF Tracked, IInv, Books, RecordPut
<1>2. job[th] \in Job /\ job[th].stage = "put"
  BY <1>1, InFlight
<1>3. job'[th] = j /\ \A x \in Thread \ {th} : job'[x] = job[x]
  BY <1>1, Stepped
<1>4. /\ job'[th].stage = "put" /\ job'[th].cur = job[th].cur /\ job'[th].todo \subseteq job[th].todo
      /\ job'[th].call = NoCall
  BY <1>2, <1>3 DEF Job
<1>5. Own(th)' /\ \A t \in Topic : Minds(th, t) => Minds(th, t)'
  BY <1>1, <1>2, <1>4 DEF Own, Minds, Topics
<1>6. UNCHANGED <<retained, spent, link, accepted, announced>>
  BY DEF RecordPut, envVars, coordVars
<1>7. QED
  BY <1>3, <1>5, <1>6, QuietTracked

LEMMA RecordClearTracked == ASSUME Tracked, NEW th \in Thread, RecordClear(th) PROVE Books' /\ Accounted'
<1> DEFINE c == job[th].call
           j == [job[th] EXCEPT !.call.at = "forget"]
<1>1. TypeOK /\ IInv /\ Own(th) /\ c.at = "record" /\ c.payload = NoConfig /\ Step(th, j)
  BY DEF Tracked, IInv, Books, RecordClear
<1>2. job[th] \in Job /\ c \in Call /\ job[th].stage = "drop"
  BY <1>1, InFlight
<1>3. job'[th] = j /\ \A x \in Thread \ {th} : job'[x] = job[x]
  BY <1>1, Stepped
<1>4. /\ job'[th].stage = "drop" /\ job'[th].cur = job[th].cur /\ job'[th].todo = job[th].todo
      /\ job'[th].call.topic = c.topic
  BY <1>2, <1>3 DEF Job, Call
<1>5. Own(th)' /\ \A t \in Topic : Minds(th, t) => Minds(th, t)'
  BY <1>1, <1>2, <1>4 DEF Own, Minds
<1>6. UNCHANGED <<retained, spent, link, accepted, announced>>
  BY DEF RecordClear, envVars, coordVars
<1>7. QED
  BY <1>3, <1>5, <1>6, QuietTracked

LEMMA ForgetTracked == ASSUME Tracked, NEW th \in Thread, Forget(th) PROVE Books' /\ Accounted'
<1> DEFINE c == job[th].call
           j == [job[th] EXCEPT !.call = NoCall, !.todo = @ \ {c.topic}]
<1>1. TypeOK /\ IInv /\ Own(th) /\ c.at = "forget" /\ Step(th, j)
  BY DEF Tracked, IInv, Books, Forget
<1>2. job[th] \in Job /\ job[th].stage = "drop"
  BY <1>1, InFlight
<1>3. job'[th] = j /\ \A x \in Thread \ {th} : job'[x] = job[x]
  BY <1>1, Stepped
<1>4. /\ job'[th].stage = "drop" /\ job'[th].cur = job[th].cur
      /\ job'[th].todo = job[th].todo \ {c.topic} /\ job'[th].call = NoCall
  BY <1>2, <1>3 DEF Job
<1>5. Own(th)' /\ \A t \in Topic : Minds(th, t) => Minds(th, t)'
  BY <1>1, <1>2, <1>4 DEF Own, Minds, NoCall
<1>6. UNCHANGED <<retained, spent, link, accepted, announced>>
  BY DEF Forget, envVars, coordVars
<1>7. QED
  BY <1>3, <1>5, <1>6, QuietTracked

LEMMA NextDeviceTracked == ASSUME Tracked, NEW th \in Thread, NextDevice(th) PROVE Books' /\ Accounted'
<1> DEFINE j(x) == [job[th] EXCEPT !.stage = "put", !.list = @ \ {x},
                                   !.cur = x, !.todo = Topics(x[1], x[2])]
<1>1. TypeOK /\ job[th] \in Job /\ UNCHANGED <<retained, spent, link, accepted, announced>>
      /\ Honest(th)
  BY DEF Tracked, IInv, TypeOK, JobHonest, NextDevice, envVars, pubVars, coordVars
<1>2. job[th].stage \notin {"put", "drop"} \/ (job[th].stage = "drop" /\ job[th].todo = {})
  BY DEF NextDevice
<1>3. job[th].call = NoCall
  BY <1>1 DEF NextDevice, Honest
<1>4. CASE job[th].list = {}
  <2>1. Step(th, IdleJob)
    BY <1>4 DEF NextDevice
  <2>2. IdleJob.stage \notin {"put", "drop"}
    BY DEF IdleJob
  <2>3. QED
    BY <1>1, <1>2, <2>1, <2>2, IdleTracked
<1>5. CASE job[th].list # {}
  <2>1. PICK x \in job[th].list : Step(th, j(x))
    BY <1>5 DEF NextDevice
  <2>2. job'[th] = j(x) /\ \A y \in Thread \ {th} : job'[y] = job[y]
    BY <1>1, <2>1, Stepped
  <2>3. /\ job'[th].stage = "put" /\ job'[th].cur = x /\ job'[th].todo = Topics(x[1], x[2])
        /\ job'[th].call = NoCall
    BY <1>1, <1>3, <2>2 DEF Job
  <2>4. Own(th)'
    BY <2>3 DEF Own, Topics
  <2>5. QED
    BY <1>1, <1>2, <2>2, <2>4, NotMinding, QuietTracked
<1>6. QED
  BY <1>4, <1>5

\* The new record holds what was sent; what the old one held besides is
\* this goroutine's to clear.
LEMMA AnnounceTracked == ASSUME Tracked, NEW th \in Thread, Announce(th) PROVE Books' /\ Accounted'
<1> DEFINE d == job[th].cur[1]
           now == Topics(d, job[th].cur[2])
           j == [job[th] EXCEPT !.stage = "drop", !.todo = Stale(d, now)]
<1>1. /\ TypeOK /\ Books /\ job[th] \in Job /\ Honest(th)
      /\ job[th].stage = "put" /\ job[th].call = NoCall
      /\ announced' = [announced EXCEPT ![d] = now] /\ Step(th, j)
      /\ UNCHANGED <<retained, spent, link, accepted>>
  BY DEF Tracked, IInv, TypeOK, JobHonest, Announce, envVars, pubVars
<1>2. job[th].cur # Nobody /\ d \in Device
  BY <1>1 DEF Honest, Job
<1>3. job'[th] = j /\ \A x \in Thread \ {th} : job'[x] = job[x]
  BY <1>1, Stepped
<1>4. /\ job'[th].stage = "drop" /\ job'[th].cur = job[th].cur
      /\ job'[th].todo = announced[d] \ now /\ job'[th].call = NoCall
  BY <1>1, <1>3 DEF Job, Stale
<1>5. announced'[d] = now /\ \A x \in Device \ {d} : announced'[x] = announced[x]
  BY <1>1, <1>2 DEF TypeOK
<1>6. Own(th)'
  BY <1>1, <1>2, <1>4 DEF Own, Books
<1>7. \A x \in Device : \A t \in announced'[x] : t \in announced[x] \/ t[1] = x
  BY <1>5 DEF Topics
<1>8. Books'
  BY <1>1, <1>3, <1>6, <1>7, OthersOwn
<1>9. Steady' = Steady /\ link' = link
  BY <1>1 DEF Steady
<1>10. ASSUME NEW t \in Topic, t \in announced[t[1]] \/ Minds(th, t)
       PROVE  t \in announced'[t[1]] \/ Minds(th, t)'
  <2>1. t[1] \in Device
    BY DEF Topic
  <2>2. CASE t[1] # d
    <3>1. ~Minds(th, t)
      BY <1>1, <2>2 DEF Minds, Topics
    <3>2. QED
      BY <1>5, <1>10, <2>1, <2>2, <3>1
  <2>3. CASE t[1] = d
    <3>1. t \in now \/ t \in announced[d]
      BY <1>1, <1>10, <2>3 DEF Minds
    <3>2. CASE t \in now
      BY <1>5, <2>3, <3>2
    <3>3. CASE t \in announced[d] \ now
      BY <1>4, <3>3 DEF Minds, NoCall
    <3>4. QED
      BY <3>1, <3>2, <3>3
  <2>4. QED
    BY <2>2, <2>3
<1>11. \A t \in Topic : Ours(t)' = Ours(t)
  BY <1>1 DEF Ours
<1>12. Accounted'
  BY <1>3, <1>9, <1>10, <1>11, StepAccounted DEF Tracked
<1>13. QED
  BY <1>8, <1>12

\* The record of a device that is gone becomes the loop's list to clear.
LEMMA ForgetDiscoveryTracked == ASSUME Tracked, ForgetDiscovery PROVE Books' /\ Accounted'
<1> DEFINE th == "devices"
           j(x) == [job[th] EXCEPT !.stage = "drop", !.list = @ \ {x}, !.cur = x, !.todo = announced[x[1]]]
<1>1. TypeOK /\ Books /\ th \in Thread /\ job[th] \in Job /\ job[th].stage = "pick" /\ Honest(th)
      /\ UNCHANGED <<retained, spent, link, accepted>>
  BY DEF Tracked, IInv, TypeOK, JobHonest, Thread, ForgetDiscovery, envVars, pubVars
<1>2. PICK x \in job[th].list :
        announced' = [announced EXCEPT ![x[1]] = {}] /\ Step(th, j(x))
  BY DEF ForgetDiscovery
<1>3. x[1] \in Device /\ x # Nobody
  BY <1>1 DEF Job, Nobody
<1>4. job[th].call = NoCall
  BY <1>1 DEF Honest
<1>5. job'[th] = j(x) /\ \A y \in Thread \ {th} : job'[y] = job[y]
  BY <1>1, <1>2, Stepped
<1>6. /\ job'[th].stage = "drop" /\ job'[th].cur = x /\ job'[th].todo = announced[x[1]]
      /\ job'[th].call = NoCall
  BY <1>1, <1>4, <1>5 DEF Job
<1>7. announced'[x[1]] = {} /\ \A y \in Device \ {x[1]} : announced'[y] = announced[y]
  BY <1>1, <1>2, <1>3 DEF TypeOK
<1>8. Own(th)'
  BY <1>1, <1>3, <1>6 DEF Own, Books
<1>9. Books'
  BY <1>1, <1>5, <1>7, <1>8, OthersOwn
<1>10. ASSUME NEW t \in Topic, t \in announced[t[1]] \/ Minds(th, t)
       PROVE  t \in announced'[t[1]] \/ Minds(th, t)'
  <2>1. ~Minds(th, t) /\ t[1] \in Device
    BY <1>1 DEF Minds, Topic
  <2>2. CASE t[1] = x[1]
    BY <1>6, <1>10, <2>1, <2>2 DEF Minds, NoCall
  <2>3. CASE t[1] # x[1]
    BY <1>7, <1>10, <2>1, <2>3
  <2>4. QED
    BY <2>2, <2>3
<1>11. Steady' = Steady /\ link' = link /\ \A t \in Topic : Ours(t)' = Ours(t)
  BY <1>1 DEF Steady, Ours
<1>12. Accounted'
  BY <1>1, <1>5, <1>10, <1>11, StepAccounted DEF Tracked
<1>13. QED
  BY <1>9, <1>12


\* The steps of a goroutine that neither announces nor clears.
LEMMA BetweenTracked ==
    ASSUME Tracked, \/ \E nudged \in BOOLEAN : StaticFetch(nudged)
                    \/ StaticSwap \/ TakeBirth \/ OpenDevice \/ OpenTopic \/ AnnounceAll
                    \/ DevicesPoll \/ DropDetails \/ DevicesDone
                    \/ SweepCollect \/ SweepGivesUp \/ SweepDone
    PROVE  Books' /\ Accounted'
<1>0. TypeOK /\ UNCHANGED <<retained, spent, link, accepted, announced>>
  BY DEF Tracked, IInv, StaticFetch, StaticSwap, TakeBirth, OpenDevice, OpenTopic, AnnounceAll, DevicesPoll,
         DropDetails, DevicesDone, SweepCollect, SweepGivesUp, SweepDone, envVars, pubVars, coordVars
<1>1. PICK th, j :
        /\ th \in Thread /\ Step(th, j)
        /\ job[th].stage \notin {"put", "drop"} \/ (job[th].stage = "drop" /\ job[th].todo = {})
        /\ j.stage \notin {"put", "drop"}
  <2>0. \A x \in Thread : job[x] \in Job
    BY <1>0 DEF TypeOK
  <2>1. CASE \E nudged \in BOOLEAN : StaticFetch(nudged)
    <3>1. PICK l : Step("static", [IdleJob EXCEPT !.stage = "swap", !.list = l])
      BY <2>1 DEF StaticFetch
    <3>2. [IdleJob EXCEPT !.stage = "swap", !.list = l].stage = "swap"
      BY DEF IdleJob
    <3>3. QED
      BY <2>1, <3>1, <3>2 DEF StaticFetch, Thread
  <2>2. CASE StaticSwap
    <3>1. [job["static"] EXCEPT !.stage = "pick"].stage = "pick"
      BY <2>0 DEF Thread, Job
    <3>2. QED
      BY <2>2, <3>1 DEF StaticSwap, Thread
  <2>3. CASE TakeBirth
    <3>1. PICK l : Step("rediscover", [IdleJob EXCEPT !.stage = "open", !.list = l])
      BY <2>3 DEF TakeBirth
    <3>2. [IdleJob EXCEPT !.stage = "open", !.list = l].stage = "open"
      BY DEF IdleJob
    <3>3. QED
      BY <2>3, <3>1, <3>2 DEF TakeBirth, Thread
  <2>4. CASE OpenDevice
    <3>1. PICK x \in job["rediscover"].list :
            Step("rediscover", [job["rediscover"] EXCEPT !.list = @ \ {x}, !.todo = announced[x[1]]])
      BY <2>4 DEF OpenDevice
    <3>2. [job["rediscover"] EXCEPT !.list = @ \ {x}, !.todo = announced[x[1]]].stage = "open"
      BY <2>0, <2>4 DEF Thread, Job, OpenDevice
    <3>3. QED
      BY <2>4, <3>1, <3>2 DEF OpenDevice, Thread
  <2>5. CASE OpenTopic
    <3>1. PICK t \in job["rediscover"].todo :
            Step("rediscover", [job["rediscover"] EXCEPT !.todo = @ \ {t}])
      BY <2>5 DEF OpenTopic
    <3>2. [job["rediscover"] EXCEPT !.todo = @ \ {t}].stage = "open"
      BY <2>0, <2>5 DEF Thread, Job, OpenTopic
    <3>3. QED
      BY <2>5, <3>1, <3>2 DEF OpenTopic, Thread
  <2>6. CASE AnnounceAll
    <3>1. PICK l : Step("rediscover", [IdleJob EXCEPT !.stage = "pick", !.list = l])
      BY <2>6 DEF AnnounceAll
    <3>2. [IdleJob EXCEPT !.stage = "pick", !.list = l].stage = "pick"
      BY DEF IdleJob
    <3>3. QED
      BY <2>6, <3>1, <3>2 DEF AnnounceAll, Thread
  <2>7. CASE DevicesPoll
    <3>1. PICK l : Step("devices", [IdleJob EXCEPT !.stage = "pick", !.list = l])
      BY <2>7 DEF DevicesPoll
    <3>2. [IdleJob EXCEPT !.stage = "pick", !.list = l].stage = "pick"
      BY DEF IdleJob
    <3>3. QED
      BY <2>7, <3>1, <3>2 DEF DevicesPoll, Thread
  <2>8. CASE DropDetails
    <3>1. [job["devices"] EXCEPT !.stage = "pick", !.cur = Nobody].stage = "pick"
      BY <2>0 DEF Thread, Job
    <3>2. QED
      BY <2>8, <3>1 DEF DropDetails, Thread
  <2>9. CASE DevicesDone
    BY <2>9 DEF DevicesDone, Thread, IdleJob
  <2>10. CASE SweepCollect
    <3>1. PICK l : Step("sweep", [IdleJob EXCEPT !.stage = "judge", !.todo = l])
      BY <2>10 DEF SweepCollect
    <3>2. [IdleJob EXCEPT !.stage = "judge", !.todo = l].stage = "judge"
      BY DEF IdleJob
    <3>3. QED
      BY <2>10, <3>1, <3>2 DEF SweepCollect, Thread
  <2>11. CASE SweepGivesUp
    BY <2>11 DEF SweepGivesUp, Thread, IdleJob
  <2>12. CASE SweepDone
    BY <2>12 DEF SweepDone, Thread, IdleJob
  <2>13. QED
    BY <2>1, <2>2, <2>3, <2>4, <2>5, <2>6, <2>7, <2>8, <2>9, <2>10, <2>11, <2>12
<1>2. QED
  BY <1>0, <1>1, IdleTracked

LEMMA SweepJudgeTracked == ASSUME Tracked, SweepJudge PROVE Books' /\ Accounted'
<1> DEFINE th == "sweep"
           j == [job[th] EXCEPT !.stage = "drop", !.todo = Orphans(@)]
<1>1. TypeOK /\ th \in Thread /\ job[th].stage = "judge" /\ Step(th, j)
      /\ UNCHANGED <<retained, spent, link, accepted, announced>>
  BY DEF Tracked, IInv, Thread, SweepJudge, envVars, pubVars, coordVars
<1>2. job'[th] = j /\ job[th] \in Job /\ \A y \in Thread \ {th} : job'[y] = job[y]
  BY <1>1, Stepped DEF TypeOK
<1>3. job'[th].stage = "drop"
  BY <1>2 DEF Job
<1>4. Own(th)'
  BY <1>3 DEF Own
<1>5. QED
  BY <1>1, <1>2, <1>4, NotMinding, QuietTracked

\* The environment empties the broker or stops the count; a site change or
\* a birth concerns no config.
LEMMA EnvironmentTracked ==
    ASSUME Tracked, SiteChange \/ Birth \/ Disconnect \/ OnConnect \/ UNCHANGED vars
    PROVE  Books' /\ Accounted'
<1>1. TypeOK /\ Books /\ Accounted /\ UNCHANGED <<job, announced, accepted>>
  BY DEF Tracked, IInv, SiteChange, Birth, Disconnect, OnConnect, vars, pubVars, coordVars
<1>2. Books'
  BY <1>1 DEF Books, Own, Topics
<1>3. \A t \in Topic, th \in Thread : Minds(th, t)' = Minds(th, t)
  BY <1>1 DEF Minds, Topics
<1>4. CASE SiteChange \/ Birth
  <2>1. retained' = retained /\ link' = link
    BY <1>4 DEF SiteChange, Birth
  <2>2. PICK b \in {"site", "change", "birth"} : spent' = [spent EXCEPT ![b] = @ + 1]
    BY <1>4 DEF SiteChange, Birth, Spend
  <2>3. spent'["fail"] = spent["fail"] /\ spent'["drop"] = spent["drop"]
    BY <1>1, <2>2 DEF TypeOK, Bound
  <2>4. QED
    BY <1>1, <1>2, <1>3, <2>1, <2>3 DEF Accounted, Steady, Ours
<1>5. CASE Disconnect
  <2>1. spent["drop"] \in Nat /\ spent'["drop"] = spent["drop"] + 1
    BY <1>1, <1>5 DEF Disconnect, Spend, TypeOK, Bound
  <2>2. ~Steady'
    BY <2>1 DEF Steady
  <2>3. QED
    BY <1>2, <2>2 DEF Accounted
<1>6. CASE OnConnect \/ UNCHANGED vars
  <2>1. retained' = retained /\ spent' = spent /\ (link => link')
    BY <1>6 DEF OnConnect, vars, envVars
  <2>2. QED
    BY <1>1, <1>2, <1>3, <2>1 DEF Accounted, Steady, Ours
<1>7. QED
  BY <1>4, <1>5, <1>6

LEMMA InitTracked == Init => Tracked
<1> SUFFICES ASSUME Init PROVE Books /\ Accounted
  BY InitIInv DEF Tracked
<1>1. \A th \in Thread : job[th] = IdleJob
  BY DEF Init
<1>2. Books
  BY <1>1 DEF Init, Books, Own, IdleJob
<1>3. Accounted
  BY DEF Init, Accounted, Ours
<1>4. QED
  BY <1>2, <1>3

LEMMA NextTracked == Tracked /\ [Next]_vars => Tracked'
<1> SUFFICES ASSUME Tracked, [Next]_vars PROVE Books' /\ Accounted'
  BY NextIInv DEF Tracked
<1>1. CASE \E th \in Thread : PublishStep(th) \/ AnnounceStep(th)
  BY <1>1, ClaimTracked, ClearTracked, SendTracked, SendFailsTracked, RecordPutTracked, RecordClearTracked,
     ForgetTracked, NextDeviceTracked, AnnounceTracked DEF PublishStep, AnnounceStep
<1>2. CASE \/ \E nudged \in BOOLEAN : StaticFetch(nudged)
           \/ StaticSwap \/ TakeBirth \/ OpenDevice \/ OpenTopic \/ AnnounceAll
           \/ DevicesPoll \/ DropDetails \/ DevicesDone
           \/ SweepCollect \/ SweepGivesUp \/ SweepDone
  BY <1>2, BetweenTracked
<1>3. CASE ForgetDiscovery
  BY <1>3, ForgetDiscoveryTracked
<1>4. CASE SweepJudge
  BY <1>4, SweepJudgeTracked
<1>5. CASE SiteChange \/ Birth \/ Disconnect \/ OnConnect \/ UNCHANGED vars
  BY <1>5, EnvironmentTracked
<1>6. QED
  BY <1>1, <1>2, <1>3, <1>4, <1>5 DEF Next

\* While no publish fails and no connection is lost, no config of ours is
\* lost track of: what this process put on the broker is on the record of its
\* device, or a goroutine has the device in hand or the topic on its list,
\* whoever announces, retracts and sweeps at the same time
\* (discovery.go:55-57).
THEOREM NothingLost == Spec => []EveryConfigTracked
<1>1. Tracked => EveryConfigTracked
  <2>1. SUFFICES ASSUME Tracked, Steady, NEW d \in Device, NEW k \in Key, Ours(<<d, k>>)
                 PROVE  <<d, k>> \in announced[d] \/ \E th \in Thread : Handles(th, d)
    BY DEF EveryConfigTracked, Steady, Ours
  <2>2. <<d, k>> \in Topic
    BY DEF Topic
  <2>3. CASE <<d, k>> \in announced[d]
    BY <2>3
  <2>4. CASE \E th \in Thread : Minds(th, <<d, k>>)
    <3>1. PICK th \in Thread : Minds(th, <<d, k>>)
      BY <2>4
    <3>2. Own(th) /\ Honest(th)
      BY <2>1 DEF Tracked, IInv, Books, JobHonest
    <3>3. CASE job[th].stage = "put"
      BY <3>1, <3>2, <3>3 DEF Minds, Honest, Topics, Handles
    <3>4. CASE job[th].stage = "drop"
      BY <3>1, <3>2, <3>4 DEF Minds, Own, Handles
    <3>5. QED
      BY <3>1, <3>3, <3>4 DEF Minds
  <2>5. QED
    BY <2>1, <2>2, <2>3, <2>4 DEF Tracked, Accounted
<1>2. QED
  BY <1>1, InitTracked, NextTracked, PTL DEF Spec


=============================================================================
