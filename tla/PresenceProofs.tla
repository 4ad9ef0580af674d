---------------------------- MODULE PresenceProofs ----------------------------
(***************************************************************************)
(* Theorems about Presence, for any clients, entities, AWAY_TIMEOUT and    *)
(* bounds, with and without connections lost in the middle of a client.    *)
(***************************************************************************)
EXTENDS Presence, TLAPS

\* Whose turn it is: a client has the turn exactly as long as it has items
\* left, and it is one the coordinator tracks.
Turn ==
    /\ job.cur # Nobody <=> job.items # <<>>
    /\ job.cur = Nobody => job.entities = {}
    /\ job.cur # Nobody => job.cur \in known
    /\ job.stage = "idle" => job.cur = Nobody /\ job.todo = {}
    /\ job.stage = "expire" => job.entities = {} /\ job.todo \subseteq known

Typed == TypeOK /\ Turn

-----------------------------------------------------------------------------
(* Type correctness. Turn is needed: the coordinator latches the client    *)
(* whose configs are out, which has to be one it tracks, and publishes the *)
(* head of its items, which has to be there.                               *)

LEMMA IdleTyped == IdleJob \in Job
  BY DEF IdleJob, Job

\* Whoever has the turn has an item to publish, and the rest is typed.
LEMMA ItemsTyped ==
  ASSUME TypeOK, job.items # <<>>
  PROVE  /\ Head(job.items) \in Item
         /\ Tail(job.items) \in {ItemOrder, <<"online", "ip">>, <<"ip">>, <<>>}
<1>1. job.items \in {ItemOrder, <<"online", "ip">>, <<"ip">>, <<>>}
  BY DEF TypeOK, Job
<1>2. CASE job.items = ItemOrder
  BY <1>2 DEF ItemOrder, Item
<1>3. CASE job.items = <<"online", "ip">>
  BY <1>3 DEF Item
<1>4. CASE job.items = <<"ip">>
  BY <1>4 DEF Item
<1>5. QED
  BY <1>1, <1>2, <1>3, <1>4

LEMMA ClockTyped == 0 \in 0..Timeout /\ \A n \in 0..Timeout : Longer(n) \in 0..Timeout
  BY TimeoutAssumption DEF Longer

LEMMA RenderedTyped == ASSUME NEW i, NEW atHome PROVE Rendered(i, atHome) \in Value
  BY DEF Rendered, Value

LEMMA SpendTyped ==
  ASSUME TypeOK, NEW b \in {"moves", "fail", "drop"}, NEW m, Spend(b, m)
  PROVE  /\ spent' \in [{"moves", "fail", "drop"} -> Nat]
         /\ spent'[b] = spent[b] + 1
         /\ \A x \in {"moves", "fail", "drop"} \ {b} : spent'[x] = spent[x]
  BY DEF TypeOK, Spend

LEMMA PublishFailsTyped ==
  ASSUME TypeOK, PublishFails
  PROVE  spent' \in [{"moves", "fail", "drop"} -> Nat]
  BY SpendTyped DEF TypeOK, PublishFails

LEMMA NextConfigTyped ==
  ASSUME Typed, job.entities # {}
  PROVE  NextConfig \in Client \X Entity /\ job.cur \in known
<1>1. (CHOOSE e \in job.entities : TRUE) \in job.entities
  OBVIOUS
<1>2. QED
  BY <1>1 DEF Typed, TypeOK, Turn, Job, NextConfig

LEMMA PollTyped == ASSUME Typed, Poll PROVE Typed'
<1>1. job' \in Job /\ job'.cur = Nobody /\ job'.items = <<>> /\ job'.entities = {} /\ job'.stage = "track"
  BY DEF Typed, TypeOK, Poll, Job, IdleJob
<1>2. gap' \in [Client -> 0..Timeout]
  BY ClockTyped DEF Typed, TypeOK, Poll
<1>3. QED
  BY <1>1, <1>2 DEF Typed, TypeOK, Turn, Poll, envVars, pubVars

LEMMA TrackPresentTyped == ASSUME Typed, TrackPresent PROVE Typed'
<1>1. PICK c \in job.todo :
        /\ known' = known \cup {c} /\ home' = home \cup {c} /\ unseen' = Seen(c)
        /\ listed' = [listed EXCEPT ![c] = "home"]
        /\ job' = [job EXCEPT !.todo = @ \ {c}, !.cur = c, !.items = ItemOrder,
                              !.entities = IF c \in latched THEN {} ELSE Entity]
  BY DEF TrackPresent
<1>2. c \in Client /\ c # Nobody
  BY ClientAssumption DEF Typed, TypeOK, Job
<1>3. job' \in Job /\ job'.stage = "track" /\ job'.cur = c /\ job'.items = ItemOrder
  BY <1>1, <1>2 DEF Typed, TypeOK, Job, TrackPresent
<1>4. unseen' \in [Client -> 0..Timeout]
  BY <1>1, ClockTyped DEF Seen, Typed, TypeOK
<1>5. QED
  <2>1. known' \subseteq Client /\ home' \subseteq known' /\ c \in known' /\ known \subseteq known'
    BY <1>1, <1>2 DEF Typed, TypeOK
  <2>2. listed' \in [Client -> {"absent", "home", "away"}]
    BY <1>1 DEF Typed, TypeOK
  <2>3. TypeOK'
    BY <1>3, <1>4, <2>1, <2>2 DEF Typed, TypeOK, TrackPresent, envVars, pubVars
  <2>4. QED
    BY <1>2, <1>3, <2>1, <2>3 DEF Typed, Turn, ItemOrder

LEMMA PublishConfigTyped == ASSUME Typed, PublishConfig PROVE Typed'
<1>1. NextConfig \in Client \X Entity /\ job.cur \in known
  BY NextConfigTyped DEF PublishConfig
<1>2. job' \in Job /\ job'.cur = job.cur /\ job'.items = job.items /\ job'.stage = job.stage
  BY DEF PublishConfig, Typed, TypeOK, Job
<1>3. QED
  BY <1>1, <1>2 DEF Typed, TypeOK, Turn, PublishConfig

LEMMA FailsTyped == ASSUME Typed, PublishConfigFails \/ PublishItemFails PROVE Typed'
<1>1. spent' \in [{"moves", "fail", "drop"} -> Nat]
  BY PublishFailsTyped DEF Typed, PublishConfigFails, PublishItemFails
<1>2. /\ job' \in Job /\ job'.stage = job.stage /\ job'.todo = job.todo
      /\ job'.cur = Nobody /\ job'.items = <<>> /\ job'.entities = {}
  BY DEF PublishConfigFails, PublishItemFails, PublishingItem, Typed, TypeOK, Job
<1>3. QED
  BY <1>1, <1>2 DEF Typed, TypeOK, Turn, PublishConfigFails, PublishItemFails, pubVars, coordVars

LEMMA PublishItemTyped == ASSUME Typed, PublishItem PROVE Typed'
<1>1. /\ job.cur \in Client /\ job.items # <<>> /\ Head(job.items) \in Item
      /\ Tail(job.items) \in {ItemOrder, <<"online", "ip">>, <<"ip">>, <<>>}
      /\ NextValue \in Value
  BY ItemsTyped, RenderedTyped DEF Typed, TypeOK, Turn, PublishItem, PublishingItem, NextValue
<1>2. /\ shown' \in [Client -> [Item -> Value]] /\ memory' \in [Client -> [Item -> Value]]
      /\ emptied' \subseteq Client \X Item
  <2>1. CASE Suppressed(job.cur, Head(job.items), NextValue) /\ UNCHANGED <<shown, memory, emptied>>
    BY <2>1 DEF Typed, TypeOK
  <2>2. CASE /\ shown' = [shown EXCEPT ![job.cur][Head(job.items)] = NextValue]
             /\ memory' = [memory EXCEPT ![job.cur][Head(job.items)] = NextValue]
             /\ emptied' = StillEmpty(job.cur, Head(job.items), NextValue)
    <3>1. shown' \in [Client -> [Item -> Value]] /\ memory' \in [Client -> [Item -> Value]]
      BY <1>1, <2>2 DEF Typed, TypeOK
    <3>2. emptied' \subseteq Client \X Item
      BY <1>1, <2>2 DEF Typed, TypeOK, StillEmpty
    <3>3. QED
      BY <3>1, <3>2
  <2>3. QED
    BY <2>1, <2>2 DEF PublishItem
<1>3. /\ job' \in Job /\ job'.stage = job.stage /\ job'.todo = job.todo
      /\ job'.entities = {} /\ job'.items = Tail(job.items)
      /\ job'.cur = IF Tail(job.items) = <<>> THEN Nobody ELSE job.cur
  BY <1>1 DEF PublishItem, PublishingItem, Typed, TypeOK, Job
<1>4. QED
  BY <1>1, <1>2, <1>3 DEF Typed, TypeOK, Turn, PublishItem, PublishingItem, coordVars

LEMMA ExpiryTyped == ASSUME Typed, ExpireAbsent \/ PublishAway \/ DropClients PROVE Typed'
<1>1. CASE ExpireAbsent
  BY <1>1 DEF Typed, TypeOK, Turn, Job, ExpireAbsent, Expired, envVars, pubVars
<1>2. CASE PublishAway
  <2>1. PICK c \in job.todo :
          /\ listed' = [listed EXCEPT ![c] = "away"]
          /\ job' = [job EXCEPT !.todo = @ \ {c}, !.cur = c, !.items = ItemOrder]
    BY <1>2 DEF PublishAway
  <2>2. QED
    <3>1. /\ job' \in Job /\ job'.stage = "expire" /\ job'.cur = c /\ job'.items = ItemOrder
          /\ job'.entities = {} /\ job'.todo \subseteq known /\ c \in known
      BY <1>2, <2>1 DEF Typed, TypeOK, Turn, Job, PublishAway
    <3>2. listed' \in [Client -> {"absent", "home", "away"}]
      BY <2>1 DEF Typed, TypeOK
    <3>3. known \subseteq Client /\ ItemOrder # <<>> /\ known' = known
      BY <1>2 DEF Typed, TypeOK, ItemOrder, PublishAway
    <3>4. Turn'
      BY <3>1, <3>3, ClientAssumption DEF Turn
    <3>5. QED
      BY <1>2, <3>1, <3>2, <3>4 DEF Typed, TypeOK, PublishAway, envVars, pubVars
<1>3. CASE DropClients
  BY <1>3, IdleTyped DEF Typed, TypeOK, Turn, IdleJob, DropClients, envVars, pubVars
<1>4. QED
  BY <1>1, <1>2, <1>3

LEMMA EnvironmentTyped ==
  ASSUME Typed, Move \/ Tick \/ Disconnect \/ Hook PROVE Typed'
<1>1. CASE Move
  BY <1>1, SpendTyped DEF Typed, TypeOK, Turn, Move, pubVars, coordVars
<1>2. CASE Tick
  BY <1>2, ClockTyped DEF Typed, TypeOK, Turn, Tick, envVars, pubVars
<1>3. CASE Disconnect
  <2>1. spent' \in [{"moves", "fail", "drop"} -> Nat]
    BY <1>3, SpendTyped DEF Typed, Disconnect
  <2>2. shown' \in [Client -> [Item -> Value]] /\ created' \subseteq Client \X Entity
    BY <1>3 DEF Typed, TypeOK, Disconnect, Value
  <2>3. QED
    BY <1>3, <2>1, <2>2 DEF Typed, TypeOK, Turn, Disconnect, pubVars, coordVars
<1>4. CASE Reconnect
  BY <1>4 DEF Typed, TypeOK, Turn, Reconnect, coordVars
<1>5. CASE Republish
  <2>1. shown' \in [Client -> [Item -> Value]]
    BY <1>5 DEF Typed, TypeOK, Republish, Replayed
  <2>2. QED
    BY <1>5, <2>1 DEF Typed, TypeOK, Turn, Republish, pubVars, coordVars
<1>6. CASE Relatch
  BY <1>6 DEF Typed, TypeOK, Turn, Relatch, Relatched, envVars, pubVars
<1>7. QED
  BY <1>1, <1>2, <1>3, <1>4, <1>5, <1>6 DEF Hook

LEMMA TypedStep == Typed /\ [Next]_vars => Typed'
<1> SUFFICES ASSUME Typed, [Next]_vars PROVE Typed'
  OBVIOUS
<1>1. CASE Loop
  BY <1>1, PollTyped, TrackPresentTyped, PublishConfigTyped, FailsTyped, PublishItemTyped, ExpiryTyped DEF Loop
<1>2. CASE Hook \/ Move \/ Tick \/ Disconnect
  BY <1>2, EnvironmentTyped
<1>3. CASE UNCHANGED vars
  BY <1>3 DEF vars, envVars, pubVars, coordVars, Typed, TypeOK, Turn
<1>4. QED
  BY <1>1, <1>2, <1>3 DEF Next

LEMMA AlwaysTyped == Spec => []Typed
<1>1. Init => Typed
  BY ClockTyped, IdleTyped DEF Init, Typed, TypeOK, Turn, IdleJob, Value
<1>2. QED
  BY <1>1, TypedStep, PTL DEF Spec

\* Presence is type correct: the latches, the presence and the turn only ever
\* name clients the coordinator tracks.
THEOREM TypeCorrect == Spec => []TypeOK
  BY AlwaysTyped, PTL DEF Typed

-----------------------------------------------------------------------------
(* What is shown. Only a publish, a replay and a broker that forgets touch *)
(* the items.                                                              *)

\* A publish writes one item, to the broker and to the plane's memory alike,
\* or none at all.
LEMMA PublishItemWrites ==
  ASSUME Typed, PublishItem
  PROVE  /\ job.cur \in Client /\ Head(job.items) \in Item /\ NextValue \in Value
         /\ \/ /\ Suppressed(job.cur, Head(job.items), NextValue)
               /\ UNCHANGED <<shown, memory, emptied>>
            \/ /\ link
               /\ \A c \in Client, i \in Item :
                    IF c = job.cur /\ i = Head(job.items)
                    THEN shown'[c][i] = NextValue /\ memory'[c][i] = NextValue
                    ELSE shown'[c][i] = shown[c][i] /\ memory'[c][i] = memory[c][i]
               /\ emptied' = StillEmpty(job.cur, Head(job.items), NextValue)
<1>1. job.cur \in Client /\ Head(job.items) \in Item /\ NextValue \in Value
  BY ItemsTyped, RenderedTyped DEF Typed, TypeOK, Turn, PublishItem, PublishingItem, NextValue, Job
<1>2. CASE /\ link
           /\ shown' = [shown EXCEPT ![job.cur][Head(job.items)] = NextValue]
           /\ memory' = [memory EXCEPT ![job.cur][Head(job.items)] = NextValue]
           /\ emptied' = StillEmpty(job.cur, Head(job.items), NextValue)
  BY <1>1, <1>2 DEF Typed, TypeOK
<1>3. QED
  BY <1>1, <1>2 DEF PublishItem

LEMMA Untouched ==
  ASSUME [Next]_vars
  PROVE  \/ PublishItem \/ Disconnect \/ Republish \/ Reconnect \/ Relatch
         \/ UNCHANGED <<shown, memory, emptied, link, hook>>
<1>1. CASE Loop
  BY <1>1 DEF Loop, Poll, TrackPresent, PublishConfig, PublishConfigFails, PublishItemFails, ExpireAbsent,
              PublishAway, DropClients, envVars, pubVars
<1>2. CASE Move \/ Tick
  BY <1>2 DEF Move, Tick, envVars, pubVars
<1>3. CASE UNCHANGED vars
  BY <1>3 DEF vars, envVars, pubVars
<1>4. QED
  BY <1>1, <1>2, <1>3 DEF Next, Hook

\* The replay writes what the plane remembers and nothing else.
LEMMA RepublishWrites ==
  ASSUME Typed, Republish, link
  PROVE  \A c \in Client, i \in Item :
           shown'[c][i] = IF memory[c][i] = NoValue THEN shown[c][i] ELSE memory[c][i]
  BY DEF Typed, TypeOK, Republish, Replayed

\* A broker that forgets has no value of any item.
LEMMA DisconnectForgets ==
  ASSUME Typed, Disconnect
  PROVE  /\ UNCHANGED <<memory, emptied, hook>> /\ ~link'
         /\ \A c \in Client, i \in Item : shown'[c][i] \in {NoValue, shown[c][i]}
  BY DEF Typed, TypeOK, Disconnect, pubVars

LEMMA ReplayStep == Typed /\ ReplayComplete /\ [Next]_vars => ReplayComplete'
<1> SUFFICES ASSUME Typed, ReplayComplete, [Next]_vars, link', hook' # "replay",
                    NEW c \in Client, NEW i \in Item, memory'[c][i] # NoValue
             PROVE  shown'[c][i] = memory'[c][i]
  BY DEF ReplayComplete
<1>1. CASE PublishItem
  <2>1. link /\ hook # "replay"
    BY <1>1 DEF PublishItem
  <2>2. QED
    BY <1>1, <2>1, PublishItemWrites DEF ReplayComplete
<1>2. CASE Disconnect
  BY <1>2, DisconnectForgets
<1>3. CASE Republish
  <2>1. link /\ UNCHANGED memory
    BY <1>3 DEF Republish, pubVars
  <2>2. QED
    BY <1>3, <2>1, RepublishWrites
<1>4. CASE Reconnect
  BY <1>4 DEF Reconnect
<1>5. CASE Relatch
  BY <1>5 DEF Relatch, ReplayComplete, envVars, pubVars
<1>6. CASE UNCHANGED <<shown, memory, emptied, link, hook>>
  BY <1>6 DEF ReplayComplete
<1>7. QED
  BY <1>1, <1>2, <1>3, <1>4, <1>5, <1>6, Untouched

\* Once the connect hook is through, the broker holds every value the daemon
\* last published, whatever it lost and whatever was published meanwhile
\* (publish.go:351-355).
THEOREM ReplayIsComplete == Spec => []ReplayComplete
<1>1. Init => ReplayComplete
  BY DEF Init, ReplayComplete
<1>2. QED
  BY <1>1, ReplayStep, AlwaysTyped, PTL DEF Spec

\* The broker shows of an item what was last published of it, or nothing.
ShownPublished ==
    \A c \in Client, i \in Item : shown[c][i] \in {NoValue, memory[c][i]}

LEMMA ShownPublishedStep == Typed /\ ShownPublished /\ [Next]_vars => ShownPublished'
<1> SUFFICES ASSUME Typed, ShownPublished, [Next]_vars, NEW c \in Client, NEW i \in Item
             PROVE  shown'[c][i] \in {NoValue, memory'[c][i]}
  BY DEF ShownPublished
<1>1. CASE PublishItem
  BY <1>1, PublishItemWrites DEF ShownPublished
<1>2. CASE Disconnect
  BY <1>2, DisconnectForgets DEF ShownPublished
<1>3. CASE Republish
  BY <1>3, RepublishWrites DEF ShownPublished, Republish, pubVars
<1>4. CASE Reconnect \/ Relatch
  BY <1>4 DEF ShownPublished, Reconnect, Relatch, envVars, pubVars
<1>5. CASE UNCHANGED <<shown, memory, emptied, link, hook>>
  BY <1>5 DEF ShownPublished
<1>6. QED
  BY <1>1, <1>2, <1>3, <1>4, <1>5, Untouched

-----------------------------------------------------------------------------
(* No client flaps.                                                        *)

\* No client was seen before the last poll that listed it, except for those
\* the poll in progress has not come to.
SeenWhenListed ==
    \A c \in Client : unseen[c] <= gap[c] \/ (job.stage = "track" /\ c \in job.todo)

\* Whoever is taken for away was missing for the whole AWAY_TIMEOUT.
AwayForLong ==
    /\ job.stage = "track" => job.todo \subseteq job.present
    /\ job.stage = "expire" =>
          \A c \in Client : c \in job.todo \/ c = job.cur => c \notin job.present /\ gap[c] = Timeout

Clocks == SeenWhenListed /\ AwayForLong

LEMMA PollClocks == ASSUME Typed, Clocks, Poll PROVE Clocks'
<1>1. job'.stage = "track" /\ job'.todo = here /\ job'.present = here
  BY DEF Poll, IdleJob
<1>2. \A c \in Client : gap'[c] = IF c \in here THEN 0 ELSE gap[c]
  BY DEF Poll
<1>3. QED
  BY <1>1, <1>2 DEF Clocks, SeenWhenListed, AwayForLong, Poll

LEMMA TrackPresentClocks == ASSUME Typed, Clocks, TrackPresent PROVE Clocks'
<1>1. PICK c \in job.todo :
        /\ unseen' = Seen(c)
        /\ job' = [job EXCEPT !.todo = @ \ {c}, !.cur = c, !.items = ItemOrder,
                              !.entities = IF c \in latched THEN {} ELSE Entity]
  BY DEF TrackPresent
<1>2. /\ job.stage = "track" /\ job'.stage = "track" /\ job'.todo = job.todo \ {c}
      /\ job'.present = job.present
  BY <1>1 DEF Typed, TypeOK, Job, TrackPresent
<1>3. \A d \in Client : unseen'[d] = IF d = c THEN 0 ELSE unseen[d]
  BY <1>1 DEF Seen, Typed, TypeOK
<1>4. \A d \in Client : gap'[d] = gap[d] /\ gap[d] >= 0
  BY TimeoutAssumption DEF TrackPresent, Typed, TypeOK
<1>5. QED
  BY <1>2, <1>3, <1>4 DEF Clocks, SeenWhenListed, AwayForLong

\* The turn of a client moves neither clock nor the rest of the poll.
LEMMA TurnClocks ==
  ASSUME Typed, Clocks, PublishConfig \/ PublishConfigFails \/ PublishItem \/ PublishItemFails PROVE Clocks'
<1>1. /\ job'.stage = job.stage /\ job'.todo = job.todo /\ job'.present = job.present
      /\ job'.cur \in {job.cur, Nobody}
  BY DEF Typed, TypeOK, Job, PublishConfig, PublishConfigFails, PublishItem, PublishItemFails
<1>2. UNCHANGED <<unseen, gap>>
  BY DEF PublishConfig, PublishConfigFails, PublishItem, PublishItemFails, coordVars
<1>3. QED
  BY <1>1, <1>2, ClientAssumption DEF Clocks, SeenWhenListed, AwayForLong

\* Who is taken for away was not in this poll, and was seen last a whole
\* AWAY_TIMEOUT ago.
LEMMA ExpireAbsentClocks == ASSUME Typed, Clocks, ExpireAbsent PROVE Clocks'
<1>1. /\ job'.stage = "expire" /\ job'.todo = Expired /\ job'.present = job.present /\ job'.cur = Nobody
      /\ job.stage = "track" /\ job.todo = {}
  BY DEF Typed, TypeOK, Job, ExpireAbsent
<1>2. UNCHANGED <<unseen, gap>>
  BY DEF ExpireAbsent
<1>3. \A c \in Client : unseen[c] <= gap[c]
  BY <1>1 DEF Clocks, SeenWhenListed
<1>4. ASSUME NEW c \in Expired PROVE c \notin job.present /\ gap[c] = Timeout
  <2>1. c \in Client /\ c \notin job.present /\ unseen[c] >= Timeout
    BY DEF Expired, Typed, TypeOK
  <2>2. unseen[c] \in 0..Timeout /\ gap[c] \in 0..Timeout
    BY <2>1 DEF Typed, TypeOK
  <2>3. QED
    BY <1>3, <2>1, <2>2, TimeoutAssumption
<1>5. QED
  BY <1>1, <1>2, <1>3, <1>4, ClientAssumption DEF Clocks, SeenWhenListed, AwayForLong

LEMMA ExpireClocks == ASSUME Typed, Clocks, PublishAway \/ DropClients PROVE Clocks'
<1>1. CASE PublishAway
  <2>1. PICK c \in job.todo : job' = [job EXCEPT !.todo = @ \ {c}, !.cur = c, !.items = ItemOrder]
    BY <1>1 DEF PublishAway
  <2>2. /\ job'.stage = "expire" /\ job.stage = "expire" /\ job'.todo = job.todo \ {c}
        /\ job'.present = job.present /\ job'.cur = c
    BY <1>1, <2>1 DEF Typed, TypeOK, Job, PublishAway
  <2>3. QED
    BY <1>1, <2>2 DEF Clocks, SeenWhenListed, AwayForLong, PublishAway
<1>2. CASE DropClients
  BY <1>2 DEF Clocks, SeenWhenListed, AwayForLong, DropClients, IdleJob
<1>3. QED
  BY <1>1, <1>2

LEMMA TickClocks == ASSUME Typed, Clocks, Tick PROVE Clocks'
<1>1. job.stage = "idle" /\ job' = job
  BY DEF Tick
<1>2. ASSUME NEW c \in Client PROVE unseen'[c] <= gap'[c]
  <2>1. unseen[c] <= gap[c] /\ unseen[c] \in 0..Timeout /\ gap[c] \in 0..Timeout
    BY <1>1 DEF Clocks, SeenWhenListed, Typed, TypeOK
  <2>2. /\ unseen'[c] = IF c \in known THEN Longer(unseen[c]) ELSE 0
        /\ gap'[c] = IF c \in known THEN Longer(gap[c]) ELSE 0
    BY DEF Tick
  <2>3. QED
    BY <2>1, <2>2, TimeoutAssumption DEF Longer
<1>3. QED
  BY <1>1, <1>2 DEF Clocks, SeenWhenListed, AwayForLong

LEMMA ClocksStep == Typed /\ Clocks /\ [Next]_vars => Clocks'
<1> SUFFICES ASSUME Typed, Clocks, [Next]_vars PROVE Clocks'
  OBVIOUS
<1>1. CASE Loop
  BY <1>1, PollClocks, TrackPresentClocks, TurnClocks, ExpireAbsentClocks, ExpireClocks DEF Loop
<1>2. CASE Tick
  BY <1>2, TickClocks
<1>3. CASE Hook \/ Move \/ Disconnect \/ UNCHANGED vars
  <2>1. UNCHANGED <<job, unseen, gap>>
    BY <1>3 DEF Hook, Reconnect, Republish, Relatch, Move, Disconnect, vars, coordVars
  <2>2. QED
    BY <2>1 DEF Clocks, SeenWhenListed, AwayForLong
<1>4. QED
  BY <1>1, <1>2, <1>3 DEF Next

LEMMA AlwaysClocks == Spec => [](Clocks /\ ShownPublished)
<1>1. Init => Clocks /\ ShownPublished
  BY DEF Init, Clocks, SeenWhenListed, AwayForLong, ShownPublished, IdleJob
<1>2. QED
  BY <1>1, ClocksStep, ShownPublishedStep, AlwaysTyped, PTL DEF Spec

LEMMA NoFlapStep ==
  ASSUME Typed, Clocks, ShownPublished, Next, NEW c \in Client,
         shown[c]["state"] = "home", shown'[c]["state"] = "away"
  PROVE  c \notin job.present /\ gap[c] = Timeout
<1> "state" \in Item
  BY DEF Item
<1>1. CASE PublishItem
  <2>1. c = job.cur /\ NextValue = "away"
    BY <1>1, PublishItemWrites
  <2>2. job.stage = "expire"
    BY <1>1, <2>1 DEF PublishItem, PublishingItem, NextValue, Rendered, Typed, TypeOK, Turn, Job
  <2>3. QED
    BY <2>1, <2>2 DEF Clocks, AwayForLong
<1>2. CASE Disconnect
  BY <1>2, DisconnectForgets DEF NoValue
<1>3. CASE Republish
  <2>1. memory[c]["state"] = "home"
    BY DEF ShownPublished, NoValue
  <2>2. QED
    BY <1>3, <2>1, RepublishWrites DEF Republish
<1>4. CASE Reconnect \/ Relatch
  BY <1>4 DEF Reconnect, Relatch, envVars
<1>5. CASE UNCHANGED <<shown, memory, emptied, link, hook>>
  BY <1>5
<1>6. QED
  BY <1>1, <1>2, <1>3, <1>4, <1>5, Untouched

\* A client is shown away only after no answered poll has listed it for a
\* whole AWAY_TIMEOUT, and never one the current poll lists, whatever fails
\* and whatever the connect hook replays meanwhile (client.go:18-23).
THEOREM NeverFlaps == Spec => NoFlap
<1>1. Typed /\ Clocks /\ ShownPublished /\ [Next]_vars =>
        [\A c \in Client :
           shown[c]["state"] = "home" /\ shown'[c]["state"] = "away"
              => c \notin job.present /\ gap[c] = Timeout]_vars
  BY NoFlapStep
<1>2. QED
  BY <1>1, AlwaysTyped, AlwaysClocks, PTL DEF Spec, NoFlap

-----------------------------------------------------------------------------
(* The items of a client agree.                                            *)

\* The items of the client whose turn it is that are still to be published.
Left == {i \in Item : \E n \in 1..Len(job.items) : job.items[n] = i}

\* What is remembered as emptied has no value.
EmptiedEmpty == \A c \in Client, i \in Item : <<c, i>> \in emptied => memory[c][i] = NoValue

\* Before anything has failed the plane and the broker agree...
Connected == link /\ hook = "idle" /\ \A c \in Client, i \in Item : shown[c][i] = memory[c][i]

\* ...the client whose turn it is shows its new presence as far as its items
\* are out...
TurnAgrees ==
    job.cur # Nobody =>
        /\ job.cur \in home <=> job.stage = "track"
        /\ \A i \in Item \ Left : shown[job.cur][i] = Rendered(i, job.cur \in home)

\* ...and every other shows one presence, save those that have just been
\* taken for away.
OthersAgree ==
    /\ job.stage = "expire" => job.todo \cap home = {}
    /\ \A c \in known \ {job.cur} :
          Shows(c, c \in home) \/ (job.stage = "expire" /\ c \in job.todo)

Agreement == EmptiedEmpty /\ (NoneFailed => Connected /\ TurnAgrees /\ OthersAgree)

\* A client whose turn begins has all its items left, one whose turn ends
\* none.
LEMMA LeftMoves ==
  ASSUME TypeOK
  PROVE  /\ job.items = ItemOrder => Left = Item
         /\ job.items = <<>> => Left = {}
         /\ job'.items = ItemOrder => Left' = Item
         /\ job'.items = <<>> => Left' = {}
         /\ job.items # <<>> /\ job'.items = Tail(job.items) => Left \subseteq Left' \cup {Head(job.items)}
<1>1. ASSUME NEW s, s \in {ItemOrder, <<"online", "ip">>, <<"ip">>, <<>>}
      PROVE  /\ s = ItemOrder => {i \in Item : \E n \in 1..Len(s) : s[n] = i} = Item
             /\ s = <<>> => {i \in Item : \E n \in 1..Len(s) : s[n] = i} = {}
  <2>1. CASE s = ItemOrder
    <3>1. Len(s) = 3 /\ s[1] = "state" /\ s[2] = "online" /\ s[3] = "ip" /\ s # <<>>
      BY <2>1 DEF ItemOrder
    <3>2. QED
      BY <3>1 DEF Item
  <2>2. CASE s # ItemOrder
    BY <2>2
  <2>3. QED
    BY <2>1, <2>2
<1>2. job.items \in {ItemOrder, <<"online", "ip">>, <<"ip">>, <<>>}
  BY DEF TypeOK, Job
<1>3. ASSUME job.items # <<>>, job'.items = Tail(job.items) PROVE Left \subseteq Left' \cup {Head(job.items)}
  <2>1. CASE job.items = ItemOrder
    BY <1>3, <2>1 DEF Left, Item, ItemOrder
  <2>2. CASE job.items = <<"online", "ip">>
    BY <1>3, <2>2 DEF Left, Item
  <2>3. CASE job.items = <<"ip">>
    BY <1>3, <2>3 DEF Left, Item
  <2>4. QED
    BY <1>2, <1>3, <2>1, <2>2, <2>3
<1>4. QED
  BY <1>1, <1>2, <1>3 DEF Left

\* A publish that has failed is never forgotten.
LEMMA FailuresStay ==
  ASSUME Typed, [Next]_vars, NoneFailed'
  PROVE  /\ NoneFailed
         /\ ~Disconnect
         /\ link => ~PublishConfigFails /\ ~PublishItemFails
<1>1. CASE Disconnect \/ (link /\ (PublishConfigFails \/ PublishItemFails))
  <2>1. \E b \in {"fail", "drop"}, m \in {MaxFail, MaxDrop} : Spend(b, m)
    BY <1>1 DEF Disconnect, PublishConfigFails, PublishItemFails, PublishFails
  <2>2. QED
    BY <2>1, SpendTyped DEF NoneFailed, Typed, TypeOK
<1>2. CASE Move
  <2>1. \A b \in {"moves", "fail", "drop"} \ {"moves"} : spent'[b] = spent[b]
    BY <1>2, SpendTyped DEF Move, Typed
  <2>2. QED
    BY <1>1, <1>2, <2>1 DEF NoneFailed
<1>3. CASE UNCHANGED spent
  BY <1>3, <1>1 DEF NoneFailed
<1>4. Disconnect \/ (link /\ (PublishConfigFails \/ PublishItemFails)) \/ Move \/ UNCHANGED spent
  BY DEF Next, Loop, Hook, Poll, TrackPresent, PublishConfig, PublishConfigFails, PublishItem, PublishItemFails,
         PublishFails, ExpireAbsent, PublishAway, DropClients, Reconnect, Republish, Relatch, Tick, vars, envVars
<1>5. QED
  BY <1>1, <1>2, <1>3, <1>4

\* What the plane suppresses the broker shows already, so either way the
\* item shows its new value.
LEMMA PublishItemShows ==
  ASSUME Typed, EmptiedEmpty, Connected, PublishItem
  PROVE  /\ shown'[job.cur][Head(job.items)] = NextValue
         /\ \A c \in Client, i \in Item : shown'[c][i] = memory'[c][i]
         /\ \A c \in Client, i \in Item :
              c # job.cur \/ i # Head(job.items) => shown'[c][i] = shown[c][i]
<1>1. CASE Suppressed(job.cur, Head(job.items), NextValue) /\ UNCHANGED <<shown, memory, emptied>>
  <2>1. memory[job.cur][Head(job.items)] = NextValue
    BY <1>1, PublishItemWrites DEF Suppressed, EmptiedEmpty
  <2>2. QED
    BY <1>1, <2>1, PublishItemWrites DEF Connected
<1>2. QED
  BY <1>1, PublishItemWrites DEF Connected

LEMMA EmptiedStep == Typed /\ EmptiedEmpty /\ [Next]_vars => EmptiedEmpty'
<1> SUFFICES ASSUME Typed, EmptiedEmpty, [Next]_vars, NEW c \in Client, NEW i \in Item, <<c, i>> \in emptied'
             PROVE  memory'[c][i] = NoValue
  BY DEF EmptiedEmpty
<1>1. CASE PublishItem
  <2>1. CASE UNCHANGED <<shown, memory, emptied>>
    BY <2>1 DEF EmptiedEmpty
  <2>2. CASE emptied' = StillEmpty(job.cur, Head(job.items), NextValue) /\ ~UNCHANGED <<shown, memory, emptied>>
    <3>1. CASE c = job.cur /\ i = Head(job.items)
      BY <1>1, <2>2, <3>1, PublishItemWrites DEF StillEmpty
    <3>2. CASE ~(c = job.cur /\ i = Head(job.items))
      BY <1>1, <2>2, <3>2, PublishItemWrites DEF StillEmpty, EmptiedEmpty
    <3>3. QED
      BY <3>1, <3>2
  <2>3. QED
    BY <1>1, <2>1, <2>2, PublishItemWrites
<1>2. CASE Disconnect \/ Republish \/ Reconnect \/ Relatch
  BY <1>2 DEF EmptiedEmpty, Disconnect, Republish, Reconnect, Relatch, pubVars
<1>3. CASE UNCHANGED <<shown, memory, emptied, link, hook>>
  BY <1>3 DEF EmptiedEmpty
<1>4. QED
  BY <1>1, <1>2, <1>3, Untouched

LEMMA PublishItemAgrees ==
  ASSUME Typed, EmptiedEmpty, Connected, TurnAgrees, OthersAgree, PublishItem
  PROVE  Connected' /\ TurnAgrees' /\ OthersAgree'
<1>1. /\ job'.stage = job.stage /\ job'.todo = job.todo /\ job'.items = Tail(job.items)
      /\ job'.cur = (IF Tail(job.items) = <<>> THEN Nobody ELSE job.cur)
      /\ job.cur # Nobody /\ job.items # <<>> /\ job.cur \in known /\ known \subseteq Client
      /\ UNCHANGED <<known, home, link, hook>>
  BY DEF Typed, TypeOK, Turn, Job, PublishItem, PublishingItem, coordVars
<1>2. NextValue = Rendered(Head(job.items), job.cur \in home)
  BY <1>1 DEF NextValue, TurnAgrees
<1>3. \A i \in Item \ Left' : shown'[job.cur][i] = Rendered(i, job.cur \in home)
  BY <1>1, <1>2, PublishItemShows, LeftMoves DEF TurnAgrees, Typed
<1>4. Connected'
  BY <1>1, PublishItemShows DEF Connected
<1>5. TurnAgrees'
  BY <1>1, <1>3 DEF TurnAgrees
<1>6. ASSUME NEW c \in known \ {job.cur} PROVE Shows(c, c \in home)' <=> Shows(c, c \in home)
  <2>1. \A i \in Item : shown'[c][i] = shown[c][i]
    BY <1>1, <1>6, PublishItemShows
  <2>2. QED
    BY <1>1, <2>1 DEF Shows, Item
<1>7. ASSUME Tail(job.items) = <<>>, NEW c \in known, c = job.cur PROVE Shows(c, c \in home)'
  <2>1. Left' = {}
    BY <1>1, <1>7, LeftMoves DEF Typed
  <2>2. \A i \in Item : shown'[c][i] = Rendered(i, c \in home)
    BY <1>3, <1>7, <2>1
  <2>3. QED
    BY <1>1, <2>2 DEF Item, Rendered, Shows
<1>8. OthersAgree'
  BY <1>1, <1>6, <1>7 DEF OthersAgree
<1>9. QED
  BY <1>4, <1>5, <1>8

\* Steps that show nothing new: the poll begins, a client gets its turn, the
\* absent are taken for away, the poll ends.
LEMMA PollAgrees ==
  ASSUME Typed, Connected, TurnAgrees, OthersAgree,
         Poll \/ TrackPresent \/ PublishConfig \/ ExpireAbsent \/ PublishAway \/ DropClients
  PROVE  Connected' /\ TurnAgrees' /\ OthersAgree'
<1>1. UNCHANGED <<shown, memory, link, hook>>
  BY DEF Poll, TrackPresent, PublishConfig, ExpireAbsent, PublishAway, DropClients, envVars, pubVars
<1>2. Connected' /\ (\A c, atHome : Shows(c, atHome)' <=> Shows(c, atHome)) /\ known \subseteq Client
  BY <1>1 DEF Connected, Shows, Typed, TypeOK
<1>3. CASE Poll
  <2>1. job'.stage = "track" /\ job'.cur = Nobody /\ job.stage = "idle" /\ UNCHANGED <<known, home>>
    BY <1>3 DEF Poll, IdleJob
  <2>2. QED
    BY <1>2, <2>1, ClientAssumption DEF TurnAgrees, OthersAgree, Typed, Turn, Shows
<1>4. CASE TrackPresent
  <2>1. PICK c \in job.todo :
          /\ known' = known \cup {c} /\ home' = home \cup {c}
          /\ job' = [job EXCEPT !.todo = @ \ {c}, !.cur = c, !.items = ItemOrder,
                                !.entities = IF c \in latched THEN {} ELSE Entity]
    BY <1>4 DEF TrackPresent
  <2>2. job'.stage = "track" /\ job.stage = "track" /\ job.cur = Nobody /\ job'.cur = c /\ job'.items = ItemOrder
    BY <1>4, <2>1 DEF Typed, TypeOK, Job, TrackPresent
  <2>3. TurnAgrees'
    BY <2>1, <2>2, LeftMoves DEF TurnAgrees, Typed
  <2>4. OthersAgree'
    BY <1>1, <1>2, <2>1, <2>2, ClientAssumption DEF OthersAgree, Shows
  <2>5. QED
    BY <1>2, <2>3, <2>4
<1>5. CASE PublishConfig
  <2>1. /\ job'.stage = job.stage /\ job'.cur = job.cur /\ job'.items = job.items /\ job'.todo = job.todo
        /\ UNCHANGED <<known, home>>
    BY <1>5 DEF Typed, TypeOK, Job, PublishConfig
  <2>2. QED
    BY <1>1, <1>2, <2>1 DEF TurnAgrees, OthersAgree, Left, Shows
<1>6. CASE ExpireAbsent
  <2>1. /\ job'.stage = "expire" /\ job.stage = "track" /\ job.cur = Nobody /\ job'.cur = Nobody
        /\ job'.todo = Expired /\ home' = home \ Expired /\ known' = known
    BY <1>6 DEF Typed, TypeOK, Job, ExpireAbsent
  <2>2. QED
    BY <1>1, <1>2, <2>1, ClientAssumption DEF TurnAgrees, OthersAgree, Shows
<1>7. CASE PublishAway
  <2>1. PICK c \in job.todo : job' = [job EXCEPT !.todo = @ \ {c}, !.cur = c, !.items = ItemOrder]
    BY <1>7 DEF PublishAway
  <2>2. /\ job'.stage = "expire" /\ job.stage = "expire" /\ job.cur = Nobody /\ job'.cur = c
        /\ job'.items = ItemOrder /\ job'.todo = job.todo \ {c} /\ UNCHANGED <<known, home>>
    BY <1>7, <2>1 DEF Typed, TypeOK, Job, PublishAway
  <2>3. TurnAgrees'
    BY <2>2, LeftMoves DEF TurnAgrees, OthersAgree, Typed
  <2>4. OthersAgree'
    BY <1>1, <1>2, <2>2, ClientAssumption DEF OthersAgree, Shows
  <2>5. QED
    BY <1>2, <2>3, <2>4
<1>8. CASE DropClients
  <2>1. /\ job'.stage = "idle" /\ job'.cur = Nobody /\ job.cur = Nobody /\ job.todo = {}
        /\ UNCHANGED <<known, home>>
    BY <1>8 DEF DropClients, IdleJob
  <2>2. QED
    BY <1>1, <1>2, <2>1 DEF TurnAgrees, OthersAgree, Shows
<1>9. QED
  BY <1>3, <1>4, <1>5, <1>6, <1>7, <1>8

LEMMA AgreementStep == Typed /\ Agreement /\ [Next]_vars => Agreement'
<1> SUFFICES ASSUME Typed, Agreement, [Next]_vars, NoneFailed'
             PROVE  Connected' /\ TurnAgrees' /\ OthersAgree'
  BY EmptiedStep DEF Agreement
<1>1. NoneFailed /\ Connected /\ TurnAgrees /\ OthersAgree /\ EmptiedEmpty
  BY FailuresStay DEF Agreement
<1>2. CASE PublishItem
  BY <1>1, <1>2, PublishItemAgrees
<1>3. CASE Poll \/ TrackPresent \/ PublishConfig \/ ExpireAbsent \/ PublishAway \/ DropClients
  BY <1>1, <1>3, PollAgrees
<1>4. CASE PublishConfigFails \/ PublishItemFails \/ Disconnect \/ Hook
  BY <1>1, <1>4, FailuresStay DEF Hook, Reconnect, Republish, Relatch, Connected
<1>5. CASE Move \/ Tick \/ UNCHANGED vars
  <2>1. UNCHANGED <<link, shown, memory, known, home, job, hook>>
    BY <1>5 DEF Move, Tick, vars, envVars, pubVars, coordVars
  <2>2. QED
    BY <1>1, <2>1 DEF Connected, TurnAgrees, OthersAgree, Left, Shows
<1>6. QED
  BY <1>2, <1>3, <1>4, <1>5 DEF Next, Loop

\* Between two polls all items of a client tell one presence, and one that is
\* away shows no address, as long as nothing has failed (client.go:181-183).
THEOREM ItemsAlwaysAgree == Spec => []ItemsAgree
<1>1. Init => Agreement
  BY DEF Init, Agreement, EmptiedEmpty, Connected, TurnAgrees, OthersAgree, IdleJob
<1>2. Typed /\ Agreement => ItemsAgree
  BY ClientAssumption DEF Agreement, OthersAgree, ItemsAgree, Typed, TypeOK, Turn
<1>3. QED
  BY <1>1, <1>2, AgreementStep, AlwaysTyped, PTL DEF Spec
-----------------------------------------------------------------------------
(* The latch. A client is announced over several publishes, so what is out *)
(* of an announcement under way has to be on the broker as well.           *)

Announced ==
    /\ link => gate \subseteq created
    /\ LatchHonest
    /\ link /\ job.entities # {} => \A e \in Entity \ job.entities : <<job.cur, e>> \in created

LEMMA PublishConfigAnnounced == ASSUME Typed, Announced, PublishConfig PROVE Announced'
<1>1. NextConfig = <<job.cur, NextConfig[2]>> /\ NextConfig[2] \in job.entities
  <2>1. (CHOOSE e \in job.entities : TRUE) \in job.entities
    BY DEF PublishConfig
  <2>2. QED
    BY <2>1 DEF NextConfig
<1>2. /\ job'.entities = job.entities \ {NextConfig[2]} /\ job'.cur = job.cur
      /\ link' = link /\ hook' = hook
  BY DEF PublishConfig, Typed, TypeOK, Job
<1>3. ASSUME link
      PROVE  created \subseteq created' /\ gate' \subseteq created' /\ NextConfig \in created'
  BY <1>3 DEF Announced, PublishConfig
<1>4. ASSUME link, NEW e \in Entity \ job'.entities
      PROVE  <<job.cur, e>> \in created'
  <2>1. CASE e = NextConfig[2]
    BY <1>1, <1>3, <1>4, <2>1
  <2>2. CASE e \notin job.entities
    BY <1>3, <1>4, <2>2 DEF Announced, PublishConfig
  <2>3. QED
    BY <1>2, <1>4, <2>1, <2>2
<1>5. LatchHonest'
  <2>1. SUFFICES ASSUME link, hook = "idle", NEW c \in latched', NEW e \in Entity
                 PROVE  <<c, e>> \in created'
    BY <1>2 DEF LatchHonest
  <2>2. CASE c \in latched
    BY <1>3, <2>1, <2>2 DEF Announced, LatchHonest
  <2>3. CASE c = job.cur /\ job'.entities = {}
    BY <1>4, <2>1, <2>3
  <2>4. QED
    BY <2>1, <2>2, <2>3 DEF PublishConfig
<1>6. QED
  BY <1>2, <1>3, <1>4, <1>5 DEF Announced

LEMMA LoopAnnounced == ASSUME Typed, Announced, Loop PROVE Announced'
<1>1. CASE Poll
  BY <1>1 DEF Poll, IdleJob, Announced, LatchHonest, envVars, pubVars
<1>2. CASE TrackPresent
  <2>1. job'.entities \in {{}, Entity}
    BY <1>2 DEF TrackPresent, Typed, TypeOK, Job
  <2>2. QED
    BY <1>2, <2>1 DEF TrackPresent, Announced, LatchHonest, envVars, pubVars
<1>3. CASE PublishConfig
  BY <1>3, PublishConfigAnnounced
<1>4. CASE PublishConfigFails \/ PublishItemFails
  <2>1. job'.entities = {}
    BY <1>4 DEF PublishConfigFails, PublishItemFails, PublishingItem, Typed, TypeOK, Job
  <2>2. QED
    BY <1>4, <2>1
    DEF PublishConfigFails, PublishItemFails, Announced, LatchHonest, pubVars, coordVars
<1>5. CASE PublishItem
  <2>1. job'.entities = {}
    BY <1>5 DEF PublishItem, PublishingItem, Typed, TypeOK, Job
  <2>2. QED
    BY <1>5, <2>1 DEF PublishItem, Announced, LatchHonest, coordVars
<1>6. CASE ExpireAbsent
  <2>1. job'.entities = job.entities /\ job'.cur = job.cur
    BY <1>6 DEF ExpireAbsent, Typed, TypeOK, Job
  <2>2. QED
    BY <1>6, <2>1 DEF ExpireAbsent, Announced, LatchHonest, envVars, pubVars
<1>7. CASE PublishAway
  <2>1. job'.entities = {}
    BY <1>7 DEF PublishAway, Typed, TypeOK, Turn, Job
  <2>2. QED
    BY <1>7, <2>1 DEF PublishAway, Announced, LatchHonest, envVars, pubVars
<1>8. CASE DropClients
  BY <1>8 DEF DropClients, IdleJob, Announced, LatchHonest, envVars, pubVars
<1>9. QED
  BY <1>1, <1>2, <1>3, <1>4, <1>5, <1>6, <1>7, <1>8 DEF Loop

\* The one step that needs the connection to hold out for a client: on a new
\* connection the gate is empty and so is what an announcement has put out.
LEMMA HookAnnounced == ASSUME ~DropInFlight, Typed, Announced, Hook PROVE Announced'
<1>1. CASE Reconnect
  BY <1>1 DEF Reconnect, Announced, LatchHonest
<1>2. CASE Republish
  BY <1>2 DEF Republish, Announced, LatchHonest, pubVars, coordVars
<1>3. CASE Relatch
  BY <1>3 DEF Relatch, Relatched, Announced, LatchHonest, envVars, pubVars
<1>4. QED
  BY <1>1, <1>2, <1>3 DEF Hook

LEMMA AnnouncedStep ==
  ASSUME ~DropInFlight PROVE Typed /\ Announced /\ [Next]_vars => Announced'
<1>1. SUFFICES ASSUME Typed, Announced, [Next]_vars PROVE Announced'
  OBVIOUS
<1>2. CASE Loop
  BY <1>1, <1>2, LoopAnnounced
<1>3. CASE Hook
  BY <1>1, <1>3, HookAnnounced
<1>4. CASE Move \/ Tick
  BY <1>1, <1>4 DEF Move, Tick, Announced, LatchHonest, envVars, pubVars, coordVars
<1>5. CASE Disconnect
  BY <1>5 DEF Disconnect, Announced, LatchHonest
<1>6. CASE UNCHANGED vars
  BY <1>1, <1>6 DEF vars, envVars, pubVars, coordVars, Announced, LatchHonest
<1>7. QED
  BY <1>1, <1>2, <1>3, <1>4, <1>5, <1>6 DEF Next

\* Where no connection is lost and restored between two configs of the same
\* client, the one-shot latch never stands between a client and its entities:
\* whatever failed, and whatever the broker forgot, a client that will not be
\* announced again has all of them there (coordinator.go:506-517).
THEOREM LatchIsHonest == ASSUME ~DropInFlight PROVE Spec => []LatchHonest
<1>1. Init => Announced
  BY DEF Init, Announced, LatchHonest, IdleJob
<1>2. Announced => LatchHonest
  BY DEF Announced
<1>3. QED
  BY <1>1, <1>2, AlwaysTyped, AnnouncedStep, PTL DEF Spec

-----------------------------------------------------------------------------
(* The items of a client are one debounced presence.                       *)

\* The clients of the poll in progress, and those not met yet, have no gap...
ListedNow ==
    /\ \A c \in Client \ known : gap[c] = 0
    /\ job.stage = "track" =>
          /\ \A c \in job.present : gap[c] = 0
          /\ job.cur # Nobody => job.cur \in job.present

\* ...and a client whose turn has come past the state item was told it.
StateFirst ==
    job.cur # Nobody /\ job.items # ItemOrder =>
        memory[job.cur]["state"] = Rendered("state", job.stage = "track")

TurnHonest == ListedNow /\ StateFirst

\* A turn begins with all the items, and nothing else moves the presence.
LEMMA BeginsHonest ==
  ASSUME Typed, Clocks, TurnHonest, Poll \/ TrackPresent \/ ExpireAbsent \/ PublishAway \/ DropClients
  PROVE  TurnHonest'
<1>1. CASE Poll
  <2>1. job'.stage = "track" /\ job'.present = here /\ job'.cur = Nobody
    BY <1>1 DEF Poll, IdleJob
  <2>2. \A c \in Client : gap'[c] = IF c \in here THEN 0 ELSE gap[c]
    BY <1>1 DEF Poll
  <2>3. here \subseteq Client /\ known' = known
    BY <1>1 DEF Poll, Typed, TypeOK
  <2>4. QED
    BY <2>1, <2>2, <2>3 DEF TurnHonest, ListedNow, StateFirst
<1>2. CASE TrackPresent
  <2>1. PICK c \in job.todo :
          /\ known' = known \cup {c}
          /\ job' = [job EXCEPT !.todo = @ \ {c}, !.cur = c, !.items = ItemOrder,
                                !.entities = IF c \in latched THEN {} ELSE Entity]
    BY <1>2 DEF TrackPresent
  <2>2. /\ job.stage = "track" /\ job'.present = job.present /\ job'.cur = c /\ job'.items = ItemOrder
        /\ gap' = gap
    BY <1>2, <2>1 DEF Typed, TypeOK, Job, TrackPresent
  <2>3. c \in job.present
    BY <2>2 DEF Clocks, AwayForLong
  <2>4. QED
    BY <2>1, <2>2, <2>3 DEF TurnHonest, ListedNow, StateFirst
<1>3. CASE ExpireAbsent
  <2>1. job'.stage = "expire" /\ job'.cur = Nobody
    BY <1>3 DEF Typed, TypeOK, Job, ExpireAbsent
  <2>2. QED
    BY <1>3, <2>1 DEF TurnHonest, ListedNow, StateFirst, ExpireAbsent
<1>4. CASE PublishAway
  <2>1. PICK c \in job.todo : job' = [job EXCEPT !.todo = @ \ {c}, !.cur = c, !.items = ItemOrder]
    BY <1>4 DEF PublishAway
  <2>2. job'.stage = "expire" /\ job'.items = ItemOrder
    BY <1>4, <2>1 DEF Typed, TypeOK, Job, PublishAway
  <2>3. QED
    BY <1>4, <2>2 DEF TurnHonest, ListedNow, StateFirst, PublishAway
<1>5. CASE DropClients
  BY <1>5 DEF TurnHonest, ListedNow, StateFirst, DropClients, IdleJob
<1>6. QED
  BY <1>1, <1>2, <1>3, <1>4, <1>5

LEMMA TurnHonestStep == Typed /\ Clocks /\ TurnHonest /\ [Next]_vars => TurnHonest'
<1> SUFFICES ASSUME Typed, Clocks, TurnHonest, [Next]_vars PROVE TurnHonest'
  OBVIOUS
<1>1. CASE PublishConfig
  <2>1. /\ job'.stage = job.stage /\ job'.present = job.present /\ job'.cur = job.cur
        /\ job'.items = job.items
    BY <1>1 DEF Typed, TypeOK, Job, PublishConfig
  <2>2. QED
    BY <1>1, <2>1 DEF TurnHonest, ListedNow, StateFirst, PublishConfig
<1>2. CASE PublishConfigFails \/ PublishItemFails
  <2>1. job'.stage = job.stage /\ job'.present = job.present /\ job'.cur = Nobody
    BY <1>2 DEF Typed, TypeOK, Job, PublishConfigFails, PublishItemFails
  <2>2. QED
    BY <1>2, <2>1 DEF TurnHonest, ListedNow, StateFirst, PublishConfigFails, PublishItemFails, coordVars
<1>3. CASE PublishItem
  <2>1. /\ job'.stage = job.stage /\ job'.present = job.present /\ job'.cur \in {job.cur, Nobody}
        /\ job'.items = Tail(job.items) /\ UNCHANGED <<gap, known>>
    BY <1>3 DEF Typed, TypeOK, Job, PublishItem, coordVars
  <2>2. ListedNow'
    BY <2>1 DEF TurnHonest, ListedNow
  <2>3. ASSUME job'.cur # Nobody PROVE memory'[job.cur]["state"] = Rendered("state", job.stage = "track")
    <3>1. "state" \in Item
      BY DEF Item
    <3>2. CASE job.items = ItemOrder
      <4>1. Head(job.items) = "state" /\ NextValue = Rendered("state", job.stage = "track")
        BY <3>2 DEF ItemOrder, NextValue
      <4>2. NextValue # NoValue
        BY <4>1 DEF Rendered, NoValue
      <4>3. Suppressed(job.cur, Head(job.items), NextValue) => memory[job.cur]["state"] = NextValue
        BY <4>1, <4>2 DEF Suppressed
      <4>4. QED
        BY <1>3, <3>1, <4>1, <4>3, PublishItemWrites
    <3>3. CASE job.items # ItemOrder
      <4>1. job.cur # Nobody
        BY <1>3 DEF PublishItem, PublishingItem
      <4>2. Head(job.items) # "state"
        BY <3>3, <4>1 DEF Typed, TypeOK, Turn, Job
      <4>3. QED
        BY <1>3, <3>1, <3>3, <4>1, <4>2, PublishItemWrites DEF TurnHonest, StateFirst
    <3>4. QED
      BY <3>2, <3>3
  <2>4. QED
    BY <2>1, <2>2, <2>3 DEF TurnHonest, StateFirst
<1>4. CASE Poll \/ TrackPresent \/ ExpireAbsent \/ PublishAway \/ DropClients
  BY <1>4, BeginsHonest
<1>5. CASE Tick
  <2>1. job' = job /\ known' = known /\ memory' = memory /\ job.stage = "idle"
    BY <1>5 DEF Tick, pubVars
  <2>2. \A c \in Client \ known : gap'[c] = 0
    BY <1>5 DEF Tick
  <2>3. QED
    BY <2>1, <2>2 DEF TurnHonest, ListedNow, StateFirst
<1>6. CASE Hook \/ Move \/ Disconnect \/ UNCHANGED vars
  <2>1. UNCHANGED <<job, gap, known, memory>>
    BY <1>6 DEF Hook, Reconnect, Republish, Relatch, Move, Disconnect, vars, coordVars, pubVars
  <2>2. QED
    BY <2>1 DEF TurnHonest, ListedNow, StateFirst
<1>7. QED
  BY <1>1, <1>2, <1>3, <1>4, <1>5, <1>6 DEF Next, Loop

\* Telling reads the state and the online item.
LEMMA TellingIs ==
  ASSUME NEW value
  PROVE  Telling(value) = [c \in Client |-> [i \in Debounced!Item |->
                             value[c][IF i = "presence" THEN "state" ELSE i]]]
  BY DEF Telling, Debounced!Item

\* The invariants the refinement rests on.
Grounds == Typed /\ Clocks /\ TurnHonest

DebouncedStep == [Debounced!Next]_(Debounced!vars)

\* A publish of the state or of the online item tells it; the other items
\* tell nothing.
LEMMA PublishRefines == ASSUME Grounds, PublishItem PROVE DebouncedStep
<1> DEFINE c == job.cur
           i == Head(job.items)
           v == NextValue
           told == Telling(memory)
<1>1. c \in Client /\ i \in Item /\ v \in Value
  BY PublishItemWrites DEF Grounds
<1>2. UNCHANGED <<gap, link, hook>>
  BY DEF PublishItem, coordVars
<1>3. CASE UNCHANGED <<shown, memory>>
  BY <1>2, <1>3 DEF DebouncedStep, Debounced!vars, Telling
<1>4. CASE /\ link
           /\ \A d \in Client, j \in Item :
                IF d = c /\ j = i
                THEN shown'[d][j] = v /\ memory'[d][j] = v
                ELSE shown'[d][j] = shown[d][j] /\ memory'[d][j] = memory[d][j]
  <2>1. CASE i = "ip"
    <3>1. Telling(memory)' = Telling(memory) /\ Telling(shown)' = Telling(shown)
      BY <1>1, <1>4, <2>1 DEF Telling, Item
    <3>2. QED
      BY <1>2, <3>1 DEF DebouncedStep, Debounced!vars
  <2>2. CASE i # "ip"
    <3> DEFINE k == IF i = "state" THEN "presence" ELSE "online"
    <3>1. i \in {"state", "online"} /\ k \in Debounced!Item
      BY <1>1, <2>2 DEF Item, Debounced!Item
    <3>2. v = (IF job.stage = "track" THEN "home" ELSE "away")
      BY <3>1 DEF NextValue, Rendered
    <3>3. gap[c] = IF v = "home" THEN 0 ELSE Timeout
      <4>1. CASE job.stage = "track"
        BY <1>1, <3>2, <4>1 DEF Grounds, TurnHonest, ListedNow, PublishItem, PublishingItem
      <4>2. CASE job.stage # "track"
        <5>1. job.stage = "expire"
          BY <4>2 DEF Grounds, Typed, TypeOK, Turn, Job, PublishItem, PublishingItem
        <5>2. QED
          BY <1>1, <3>2, <4>2, <5>1 DEF Grounds, Clocks, AwayForLong
      <4>3. QED
        BY <4>1, <4>2
    <3>4. k = "online" => told[c]["presence"] = v
      <4> SUFFICES ASSUME k = "online" PROVE memory[c]["state"] = v
        BY <1>1 DEF Telling
      <4>1. i = "online" /\ job.items # ItemOrder
        BY <3>1 DEF ItemOrder
      <4>2. QED
        BY <3>2, <4>1 DEF Grounds, TurnHonest, StateFirst, Rendered, PublishItem, PublishingItem
    <3>5. ASSUME NEW d \in Client, NEW j \in {"presence", "online"}
          PROVE  /\ memory'[d][IF j = "presence" THEN "state" ELSE j] =
                      IF d = c /\ j = k THEN v ELSE memory[d][IF j = "presence" THEN "state" ELSE j]
                 /\ shown'[d][IF j = "presence" THEN "state" ELSE j] =
                      IF d = c /\ j = k THEN v ELSE shown[d][IF j = "presence" THEN "state" ELSE j]
      BY <1>1, <1>4, <3>1, <3>5 DEF Item
    <3>6. /\ Telling(memory)' = [told EXCEPT ![c][k] = v]
          /\ Telling(shown)' = [Telling(shown) EXCEPT ![c][k] = v]
      <4> k \in {"presence", "online"}
        OBVIOUS
      <4>1. [told EXCEPT ![c][k] = v] =
              [d \in Client |-> [j \in {"presence", "online"} |-> IF d = c /\ j = k THEN v ELSE told[d][j]]]
        BY <1>1 DEF Telling
      <4>2. [Telling(shown) EXCEPT ![c][k] = v] =
              [d \in Client |-> [j \in {"presence", "online"} |->
                                   IF d = c /\ j = k THEN v ELSE Telling(shown)[d][j]]]
        BY <1>1 DEF Telling
      <4>3. \A d \in Client, j \in {"presence", "online"} :
              /\ told[d][j] = memory[d][IF j = "presence" THEN "state" ELSE j]
              /\ Telling(shown)[d][j] = shown[d][IF j = "presence" THEN "state" ELSE j]
        BY DEF Telling
      <4>4. ASSUME NEW d \in Client
            PROVE  /\ [j \in {"presence", "online"} |-> memory'[d][IF j = "presence" THEN "state" ELSE j]]
                        = [j \in {"presence", "online"} |-> IF d = c /\ j = k THEN v ELSE told[d][j]]
                   /\ [j \in {"presence", "online"} |-> shown'[d][IF j = "presence" THEN "state" ELSE j]]
                        = [j \in {"presence", "online"} |->
                             IF d = c /\ j = k THEN v ELSE Telling(shown)[d][j]]
        <5> HIDE DEF c, k, v, told
        <5>1. QED
          BY <3>5, <4>3
      <4>5. /\ Telling(memory)' = [d \in Client |-> [j \in {"presence", "online"} |->
                                     memory'[d][IF j = "presence" THEN "state" ELSE j]]]
            /\ Telling(shown)' = [d \in Client |-> [j \in {"presence", "online"} |->
                                    shown'[d][IF j = "presence" THEN "state" ELSE j]]]
        BY DEF Telling
      <4>6. Telling(memory)' = [told EXCEPT ![c][k] = v]
        <5> HIDE DEF c, k, v, told
        <5>1. QED
          BY <4>1, <4>4, <4>5, Zenon
      <4>7. Telling(shown)' = [Telling(shown) EXCEPT ![c][k] = v]
        <5> HIDE DEF c, k, v, told
        <5>1. QED
          BY <4>2, <4>4, <4>5, Zenon
      <4>8. QED
        BY <4>6, <4>7
    <3>7. Debounced!Tell(c, k, v)
      BY <1>2, <1>4, <3>3, <3>4, <3>6 DEF Debounced!Tell
    <3>8. QED
      BY <1>1, <3>1, <3>2, <3>7 DEF DebouncedStep, Debounced!Next
  <2>3. QED
    BY <2>1, <2>2
<1>5. QED
  BY <1>3, <1>4, PublishItemWrites DEF Grounds

\* An answered poll lists whom it lists, and an interval passes for whoever
\* is tracked: the others have no gap to lose.
LEMMA ClockRefines == ASSUME Grounds, Poll \/ Tick PROVE DebouncedStep
<1>1. CASE Poll
  <2>1. here \subseteq Client /\ Debounced!Listed(here)
    BY <1>1 DEF Poll, envVars, pubVars, Debounced!Listed, Grounds, Typed, TypeOK, Telling
  <2>2. QED
    BY <2>1 DEF DebouncedStep, Debounced!Next
<1>2. CASE Tick
  <2>1. known \subseteq Client /\ \A c \in Client \ known : gap[c] = 0
    BY DEF Grounds, Typed, TypeOK, TurnHonest, ListedNow
  <2>2. gap' = [c \in Client |-> IF c \in known /\ gap[c] < Timeout THEN gap[c] + 1 ELSE gap[c]]
    BY <1>2, <2>1 DEF Tick, Longer
  <2>3. Debounced!Pass(known)
    BY <1>2, <2>2 DEF Tick, envVars, pubVars, Debounced!Pass, Telling
  <2>4. QED
    BY <2>1, <2>3 DEF DebouncedStep, Debounced!Next
<1>3. QED
  BY <1>1, <1>2

\* A lost connection, its return and the replay are those of the promise.
LEMMA LinkRefines ==
  ASSUME Grounds, Disconnect \/ Reconnect \/ Republish \/ Relatch PROVE DebouncedStep
<1>1. CASE Disconnect
  <2>1. Telling(shown)' \in {Telling(shown), Debounced!Untold}
    <3>1. CASE shown' = shown
      BY <3>1 DEF Telling
    <3>2. CASE shown' = [c \in Client |-> [i \in Item |-> NoValue]]
      BY <3>2 DEF Telling, Debounced!Untold, Debounced!Item, Item, NoValue
    <3>3. QED
      BY <1>1, <3>1, <3>2 DEF Disconnect
  <2>2. Debounced!Lose
    BY <1>1, <2>1 DEF Disconnect, pubVars, coordVars, Debounced!Lose, Telling
  <2>3. QED
    BY <2>2 DEF DebouncedStep, Debounced!Next
<1>2. CASE Reconnect
  <2>1. Debounced!Return
    BY <1>2 DEF Reconnect, coordVars, Debounced!Return, Telling
  <2>2. QED
    BY <2>1 DEF DebouncedStep, Debounced!Next
<1>3. CASE Republish
  <2>1. Telling(shown)' = IF link THEN [c \in Client |-> [i \in Debounced!Item |->
                              IF Telling(memory)[c][i] = "none" THEN Telling(shown)[c][i]
                              ELSE Telling(memory)[c][i]]]
                          ELSE Telling(shown)
    BY <1>3, RepublishWrites DEF Grounds, Republish, Telling, Debounced!Item, Item, NoValue
  <2>2. Debounced!Replay
    BY <1>3, <2>1 DEF Republish, pubVars, coordVars, Debounced!Replay, Telling
  <2>3. QED
    BY <2>2 DEF DebouncedStep, Debounced!Next
<1>4. CASE Relatch
  BY <1>4 DEF Relatch, envVars, pubVars, DebouncedStep, Debounced!vars, Telling
<1>5. QED
  BY <1>1, <1>2, <1>3, <1>4

\* Nobody else tells anything, or moves a clock of the promise.
LEMMA RestRefines ==
  ASSUME \/ TrackPresent \/ PublishConfig \/ PublishConfigFails \/ PublishItemFails
         \/ ExpireAbsent \/ PublishAway \/ DropClients \/ Move \/ UNCHANGED vars
  PROVE  DebouncedStep
<1>1. UNCHANGED <<memory, shown, gap, link, hook>>
  BY DEF TrackPresent, PublishConfig, PublishConfigFails, PublishItemFails, ExpireAbsent, PublishAway,
         DropClients, Move, vars, envVars, pubVars, coordVars
<1>2. QED
  BY <1>1 DEF DebouncedStep, Debounced!vars, Telling

LEMMA StepRefines == Grounds /\ [Next]_vars => DebouncedStep
  BY PublishRefines, ClockRefines, LinkRefines, RestRefines DEF Next, Loop, Hook

LEMMA InitRefines == Init => Debounced!Init
<1> SUFFICES ASSUME Init PROVE Debounced!Init
  OBVIOUS
<1>1. shown = [c \in Client |-> [i \in Item |-> NoValue]] /\ memory = shown
  BY DEF Init
<1>2. Telling(shown) = Debounced!Untold /\ Telling(memory) = Debounced!Untold
  BY <1>1 DEF Telling, Debounced!Untold, Debounced!Item, Item, NoValue
<1>3. QED
  BY <1>2 DEF Init, Debounced!Init

\* Towards Home Assistant the poll loop, its half-failed turns and the replay
\* of a reconnect are one debounced presence per client, and the online item
\* never tells a presence that the state item has not told (client.go:18-23,
\* 167-178, publish.go:351-355).
THEOREM OneDebouncedPresence == Spec => ImplementsDebounced
<1>1. Init => TurnHonest
  BY DEF Init, TurnHonest, ListedNow, StateFirst, IdleJob
<1>2. Spec => []TurnHonest
  BY <1>1, TurnHonestStep, AlwaysTyped, AlwaysClocks, PTL DEF Spec
<1>3. Typed /\ Clocks /\ TurnHonest /\ [Next]_vars => [Debounced!Next]_(Debounced!vars)
  BY StepRefines DEF Grounds, DebouncedStep
<1>4. QED
  BY <1>2, <1>3, InitRefines, AlwaysTyped, AlwaysClocks, PTL DEF Spec, ImplementsDebounced, Debounced!Spec
=============================================================================
