--------------------------- MODULE ReadingsProofs ----------------------------
(***************************************************************************)
(* Theorems about Readings, for any lists, page sizes and numbers of       *)
(* pages, attempts and changes: it is type correct, nobody who stays on    *)
(* the client list is skipped by the walk over its pages, and the clients  *)
(* selected are the first of those the rules admit, whatever the order in  *)
(* which the console lists clients and networks.                           *)
(***************************************************************************)
EXTENDS Readings, SequenceTheorems, FiniteSetTheorems, TLAPS

-----------------------------------------------------------------------------
(* Sequences and sets.                                                     *)

LEMMA MinOfTwo ==
    ASSUME NEW a \in Nat, NEW b \in Nat
    PROVE  Min({a, b}) \in Nat /\ Min({a, b}) <= a /\ Min({a, b}) <= b
<1>1. \E x \in {a, b} : \A y \in {a, b} : x <= y
  OBVIOUS
<1>2. Min({a, b}) \in {a, b} /\ \A y \in {a, b} : Min({a, b}) <= y
  BY <1>1 DEF Min
<1>3. QED
  BY <1>2

LEMMA SetToSeqIs ==
    ASSUME NEW S, IsFiniteSet(S)
    PROVE  SetToSeq(S) \in Seq(S) /\ IsInjective(SetToSeq(S))
<1> DEFINE n == Cardinality(S)
<1>1. n \in Nat
  BY FS_CardinalityType
<1>2. \E f \in [1..n -> S] : IsInjective(f)
  BY FS_CardinalityType, FS_NatBijection DEF ExistsBijection, Bijection, Injection, IsInjective
<1>3. SetToSeq(S) \in [1..n -> S] /\ IsInjective(SetToSeq(S))
  BY <1>2 DEF SetToSeq
<1>4. QED
  BY <1>1, <1>3, SeqDef

\* A sequence of one set is one of a larger set.
LEMMA PrefixIs ==
    ASSUME NEW S, NEW s \in Seq(S), NEW m \in Nat, NEW n \in Nat, n <= Len(s)
    PROVE  /\ SubSeq(s, m + 1, n) \in Seq(S)
           /\ Len(SubSeq(s, m + 1, n)) = IF m <= n THEN n - m ELSE 0
           /\ \A i \in 1..(n - m) : SubSeq(s, m + 1, n)[i] = s[m + i]
<1>1. \A i \in (m + 1)..n : s[i] \in S
  BY ElementOfSeq, LenProperties
<1>2. QED
  BY <1>1, SubSeqProperties, LenProperties

LEMMA InsertAtIs ==
    ASSUME NEW S, NEW s \in Seq(S), NEW e \in S, NEW i \in 1..(Len(s) + 1)
    PROVE  /\ InsertAt(s, i, e) \in Seq(S)
           /\ Len(InsertAt(s, i, e)) = Len(s) + 1
           /\ \A k \in 1..(Len(s) + 1) :
                InsertAt(s, i, e)[k] = IF k < i THEN s[k] ELSE IF k = i THEN e ELSE s[k - 1]
<1> DEFINE a == SubSeq(s, 1, i - 1)
           b == SubSeq(s, i, Len(s))
<1>0. Len(s) \in Nat
  BY LenProperties
<1>1. a \in Seq(S) /\ Len(a) = i - 1 /\ \A k \in 1..(i - 1) : a[k] = s[k]
  BY <1>0, PrefixIs, 0 + 1 = 1
<1>2. b \in Seq(S) /\ Len(b) = Len(s) - (i - 1) /\ \A k \in 1..(Len(s) - (i - 1)) : b[k] = s[i - 1 + k]
  BY <1>0, PrefixIs, i = (i - 1) + 1
<1>3. <<e>> \in Seq(S) /\ Len(<<e>>) = 1 /\ <<e>>[1] = e
  OBVIOUS
<1> DEFINE ae == a \o <<e>>
<1> HIDE DEF a, b
<1>4. /\ ae \in Seq(S) /\ Len(ae) = i
      /\ \A k \in 1..i : ae[k] = IF k <= i - 1 THEN s[k] ELSE e
  BY <1>0, <1>1, <1>3, ConcatProperties
<1> HIDE DEF ae
<1>5. /\ ae \o b \in Seq(S) /\ Len(ae \o b) = Len(s) + 1
      /\ \A k \in 1..(Len(s) + 1) : (ae \o b)[k] = IF k <= i THEN ae[k] ELSE b[k - i]
  <2>1. ae \in Seq(S) /\ b \in Seq(S) /\ Len(ae) = i /\ Len(ae) + Len(b) = Len(s) + 1
    BY <1>0, <1>2, <1>4
  <2>2. /\ ae \o b \in Seq(S) /\ Len(ae \o b) = Len(ae) + Len(b)
        /\ \A k \in 1..Len(ae) + Len(b) : (ae \o b)[k] = IF k <= Len(ae) THEN ae[k] ELSE b[k - Len(ae)]
    BY <2>1, ConcatProperties
  <2>3. QED
    BY <2>1, <2>2
<1>6. InsertAt(s, i, e) = ae \o b
  BY DEF InsertAt, ae, a, b
<1>7. QED
  BY <1>0, <1>2, <1>4, <1>5, <1>6

LEMMA RemoveAtIs ==
    ASSUME NEW S, NEW s \in Seq(S), NEW i \in 1..Len(s)
    PROVE  /\ RemoveAt(s, i) \in Seq(S)
           /\ Len(RemoveAt(s, i)) = Len(s) - 1
           /\ \A k \in 1..(Len(s) - 1) : RemoveAt(s, i)[k] = IF k < i THEN s[k] ELSE s[k + 1]
<1> DEFINE a == SubSeq(s, 1, i - 1)
           b == SubSeq(s, i + 1, Len(s))
<1>0. Len(s) \in Nat
  BY LenProperties
<1>1. a \in Seq(S) /\ Len(a) = i - 1 /\ \A k \in 1..(i - 1) : a[k] = s[k]
  BY <1>0, PrefixIs, 0 + 1 = 1
<1>2. b \in Seq(S) /\ Len(b) = Len(s) - i /\ \A k \in 1..(Len(s) - i) : b[k] = s[i + k]
  BY <1>0, PrefixIs
<1> HIDE DEF a, b
<1>3. /\ a \o b \in Seq(S) /\ Len(a \o b) = Len(s) - 1
      /\ \A k \in 1..(Len(s) - 1) : (a \o b)[k] = IF k <= i - 1 THEN a[k] ELSE b[k - (i - 1)]
  <2>1. a \in Seq(S) /\ b \in Seq(S) /\ Len(a) = i - 1 /\ Len(a) + Len(b) = Len(s) - 1
    BY <1>0, <1>1, <1>2
  <2>2. /\ a \o b \in Seq(S) /\ Len(a \o b) = Len(a) + Len(b)
        /\ \A k \in 1..Len(a) + Len(b) : (a \o b)[k] = IF k <= Len(a) THEN a[k] ELSE b[k - Len(a)]
    BY <2>1, ConcatProperties
  <2>3. QED
    BY <2>1, <2>2
<1>4. RemoveAt(s, i) = a \o b
  BY DEF RemoveAt, a, b
<1>5. QED
  BY <1>0, <1>1, <1>2, <1>3, <1>4

\* The console lists nothing twice, whatever comes, goes or moves.
LEMMA InsertInjective ==
    ASSUME NEW S, NEW s \in Seq(S), IsInjective(s), NEW e \in S \ ToSet(s), NEW i \in 1..(Len(s) + 1)
    PROVE  IsInjective(InsertAt(s, i, e))
<1>1. DOMAIN s = 1..Len(s) /\ Len(s) \in Nat
  BY LenProperties
<1>2. DOMAIN InsertAt(s, i, e) = 1..(Len(s) + 1)
  BY InsertAtIs, LenProperties
<1>3. \A k \in 1..Len(s) : s[k] # e
  BY <1>1 DEF ToSet
<1>4. \A a, b \in 1..Len(s) : s[a] = s[b] => a = b
  BY <1>1 DEF IsInjective
<1> DEFINE u == InsertAt(s, i, e)
<1>0. \A k \in 1..(Len(s) + 1) : u[k] = IF k < i THEN s[k] ELSE IF k = i THEN e ELSE s[k - 1]
  <2>1. e \in S
    OBVIOUS
  <2>2. /\ InsertAt(s, i, e) \in Seq(S)
        /\ Len(InsertAt(s, i, e)) = Len(s) + 1
        /\ \A k \in 1..(Len(s) + 1) :
             InsertAt(s, i, e)[k] = IF k < i THEN s[k] ELSE IF k = i THEN e ELSE s[k - 1]
    BY <2>1, InsertAtIs
  <2>3. QED
    BY <2>2
<1> HIDE DEF u
<1>5. ASSUME NEW a \in 1..(Len(s) + 1), NEW b \in 1..(Len(s) + 1), u[a] = u[b]
      PROVE  a = b
  \* Where the element at position k of the new list comes from.
  <2> DEFINE from(k) == IF k < i THEN k ELSE k - 1
  <2>1. \A k \in 1..(Len(s) + 1) : k # i => from(k) \in 1..Len(s) /\ u[k] = s[from(k)]
    BY <1>0, <1>1
  <2>2. u[i] = e
    BY <1>0, <1>1
  <2>3. CASE a = i \/ b = i
    BY <1>3, <1>5, <2>1, <2>2, <2>3
  <2>4. CASE a # i /\ b # i
    <3>1. from(a) = from(b)
      BY <1>4, <1>5, <2>1, <2>4
    <3>2. QED
      BY <1>1, <2>4, <3>1
  <2>5. QED
    BY <2>3, <2>4
<1>6. QED
  BY <1>2, <1>5 DEF IsInjective, u

LEMMA RemoveInjective ==
    ASSUME NEW S, NEW s \in Seq(S), IsInjective(s), NEW i \in 1..Len(s)
    PROVE  IsInjective(RemoveAt(s, i))
<1>1. DOMAIN s = 1..Len(s) /\ Len(s) \in Nat
  BY LenProperties
<1>2. DOMAIN RemoveAt(s, i) = 1..(Len(s) - 1)
  BY RemoveAtIs, LenProperties
<1>3. \A a, b \in 1..Len(s) : s[a] = s[b] => a = b
  BY <1>1 DEF IsInjective
<1> DEFINE u == RemoveAt(s, i)
<1>0. \A k \in 1..(Len(s) - 1) : u[k] = IF k < i THEN s[k] ELSE s[k + 1]
  BY RemoveAtIs
<1> HIDE DEF u
<1>4. ASSUME NEW a \in 1..(Len(s) - 1), NEW b \in 1..(Len(s) - 1), u[a] = u[b]
      PROVE  a = b
  <2> DEFINE from(k) == IF k < i THEN k ELSE k + 1
  <2>1. \A k \in 1..(Len(s) - 1) : from(k) \in 1..Len(s) /\ u[k] = s[from(k)]
    BY <1>0, <1>1
  <2>2. from(a) = from(b)
    BY <1>3, <1>4, <2>1
  <2>3. QED
    BY <1>1, <2>2
<1>5. QED
  BY <1>2, <1>4 DEF IsInjective, u

LEMMA SwapIs ==
    ASSUME NEW S, NEW s \in Seq(S), IsInjective(s), NEW i \in 1..Len(s), NEW k \in 1..Len(s)
    PROVE  LET swapped == [s EXCEPT ![i] = s[k], ![k] = s[i]]
           IN  swapped \in Seq(S) /\ IsInjective(swapped)
<1> DEFINE t == [s EXCEPT ![i] = s[k]]
           u == [t EXCEPT ![k] = s[i]]
<1>1. s[i] \in S /\ s[k] \in S /\ DOMAIN s = 1..Len(s) /\ Len(s) \in Nat
  BY ElementOfSeq, LenProperties
<1>2. t \in Seq(S) /\ Len(t) = Len(s) /\ \A j \in 1..Len(s) : t[j] = IF j = i THEN s[k] ELSE s[j]
  BY <1>1, ExceptSeq
<1> HIDE DEF t
<1>3. u \in Seq(S) /\ Len(u) = Len(s) /\ \A j \in 1..Len(s) : u[j] = IF j = k THEN s[i] ELSE t[j]
  BY <1>1, <1>2, ExceptSeq
<1>4. DOMAIN u = 1..Len(s)
  BY <1>3, LenProperties
<1>5. \A a, b \in 1..Len(s) : s[a] = s[b] => a = b
  BY <1>1 DEF IsInjective
<1> HIDE DEF u
<1>6. \A a, b \in 1..Len(s) : u[a] = u[b] => a = b
  BY <1>2, <1>3, <1>5
<1>7. IsInjective(u)
  BY <1>4, <1>6 DEF IsInjective
<1>8. QED
  BY <1>3, <1>7 DEF t, u

-----------------------------------------------------------------------------
(* Type correctness.                                                       *)

\* While it walks, a loop has collected at most what the pages it has seen
\* can hold; and each loop reads its own lists.
Walking(th) ==
    LET j == job[th] IN
    /\ j.stage = "page" => Len(j.out) <= j.pages * PageLimit
    /\ th = "clients" => j.kind = "clients"

Typed == TypeOK /\ \A th \in Thread : Walking(th)

LEMMA MemberIs ==
    /\ Member("devices") = Device /\ Member("networks") = Network
    /\ Member("wlans") = {} /\ Member("clients") = Client
    /\ \A k \in Kind : Member(k) \subseteq Object
  BY DEF Member, Kind, Object

LEMMA Bounds == PageLimit \in Nat /\ MaxPages \in Nat /\ Retries \in Nat /\ MaxPages * PageLimit \in Nat
  BY ReadingsAssumption

LEMMA IdleJobIs ==
    /\ IdleJob \in Job /\ IdleJob.out = <<>> /\ IdleJob.offset = 0 /\ IdleJob.stage = "idle"
    /\ IdleJob.kind = "clients" /\ IdleJob.held = {}
  BY EmptySeq, Bounds DEF IdleJob, Job, Kind

LEMMA ElementsOf ==
    ASSUME NEW S, NEW s \in Seq(S) PROVE ToSet(s) \subseteq S
  BY LenProperties, ElementOfSeq DEF ToSet

\* What a loop's job has to satisfy, for the step that gives it a new one.
Sound(th, j) ==
    /\ j \in Job /\ j.out \in Seq(Member(j.kind)) /\ j.offset = Len(j.out)
    /\ Len(j.out) <= MaxPages * PageLimit
    /\ j.stage = "page" => Len(j.out) <= j.pages * PageLimit
    /\ th = "clients" => j.kind = "clients"

LEMMA IdleSound == ASSUME NEW th \in Thread PROVE Sound(th, IdleJob)
  BY IdleJobIs, EmptySeq, Bounds DEF Sound

\* Products of naturals.
LEMMA Products ==
    ASSUME NEW a \in Nat, NEW b \in Nat, NEW c \in Nat
    PROVE  /\ a * c \in Nat /\ 0 * c = 0 /\ (a + 1) * c = a * c + c
           /\ (a + b) * c = a * c + b * c
  OBVIOUS

LEMMA ReadingIs ==
    ASSUME TypeOK, NEW k \in Kind
    PROVE  /\ Reading(k) \in Job /\ Reading(k).stage = "page" /\ Reading(k).kind = k
           /\ Reading(k).out = <<>> /\ Reading(k).offset = 0 /\ Reading(k).pages = 0
           /\ Reading(k).held = IF stuck THEN {} ELSE ToSet(lists[k])
<1> DEFINE h == IF stuck THEN {} ELSE ToSet(lists[k])
<1>1. h \in SUBSET Object
  BY ElementsOf, MemberIs DEF TypeOK
<1> HIDE DEF h
<1>2. Reading(k) = [IdleJob EXCEPT !.stage = "page", !.kind = k, !.held = h]
  BY DEF Reading, h
<1>3. /\ IdleJob \in Job /\ IdleJob.out = <<>> /\ IdleJob.offset = 0 /\ IdleJob.pages = 0
      /\ IdleJob.enriched = {}
  BY IdleJobIs DEF IdleJob
<1>4. Reading(k) \in Job
  BY <1>1, <1>2, <1>3 DEF Job
<1>5. /\ Reading(k).stage = "page" /\ Reading(k).kind = k /\ Reading(k).held = h
      /\ Reading(k).out = <<>> /\ Reading(k).offset = 0 /\ Reading(k).pages = 0
  BY <1>2, <1>3 DEF Job
<1>6. QED
  BY <1>4, <1>5 DEF h

LEMMA ReadingSound ==
    ASSUME TypeOK, NEW k \in Kind, NEW th \in Thread, th = "clients" => k = "clients"
    PROVE  Sound(th, Reading(k))
<1>1. 0 * PageLimit = 0 /\ 0 <= MaxPages * PageLimit
  BY Bounds, Products
<1>2. <<>> \in Seq(Member(k)) /\ Len(<<>>) = 0
  BY EmptySeq
<1> DEFINE r == Reading(k)
<1>3. /\ r \in Job /\ r.kind = k /\ r.out = <<>> /\ r.offset = 0 /\ r.pages = 0
  BY ReadingIs
<1> HIDE DEF r
<1>4. r.out \in Seq(Member(r.kind)) /\ r.offset = Len(r.out)
  BY <1>2, <1>3
<1>5. Len(r.out) <= MaxPages * PageLimit /\ Len(r.out) <= r.pages * PageLimit
  BY <1>1, <1>2, <1>3
<1>6. Sound(th, r)
  BY <1>3, <1>4, <1>5 DEF Sound
<1>7. QED
  BY <1>6 DEF r

\* One loop has a new job and nothing else has changed its type.
LEMMA JobTyped ==
    ASSUME Typed, NEW th \in Thread, NEW j, Sound(th, j), job' = [job EXCEPT ![th] = j],
           UNCHANGED consoleVars,
           degraded' \in BOOLEAN /\ catalogue' \subseteq Network /\ ports' \subseteq Device
           /\ fetched' \in [ports : SUBSET Device, catalogue : SUBSET Network]
    PROVE  Typed'
<1>1. job' \in [Thread -> Job] /\ job'[th] = j /\ \A x \in Thread \ {th} : job'[x] = job[x]
  BY DEF Typed, TypeOK, Sound
<1>2. \A x \in Thread : /\ job'[x].out \in Seq(Member(job'[x].kind))
                        /\ job'[x].offset = Len(job'[x].out)
                        /\ Len(job'[x].out) <= MaxPages * PageLimit
  BY <1>1 DEF Typed, TypeOK, Sound
<1>3. \A x \in Thread : Walking(x)'
  BY <1>1 DEF Typed, Walking, Sound
<1>4. TypeOK'
  BY <1>1, <1>2 DEF Typed, TypeOK, consoleVars
<1>5. QED
  BY <1>3, <1>4 DEF Typed

\* A page: what it delivers, and what the walk makes of it.
Delivered(th, data, total) ==
    LET j == job[th]
        list == lists[j.kind]
    IN
    /\ data \in Seq(Member(j.kind)) /\ Len(data) <= PageLimit
    /\ total \in Nat
    /\ ~stuck => /\ total >= Len(list)
                 /\ j.offset + Len(data) <= Len(list) \/ data = <<>>
                 /\ \A i \in 1..Len(data) : data[i] = list[j.offset + i]
                 /\ data = <<>> => j.offset >= Len(list)

LEMMA PageDelivers ==
    ASSUME Typed, NEW th \in Thread, Page(th)
    PROVE  \E data, total : Delivered(th, data, total)
                            /\ job' = [job EXCEPT ![th] = AfterPage(job[th], data, total)]
<1> DEFINE j == job[th]
           list == lists[j.kind]
           left == IF stuck THEN list ELSE SubSeq(list, j.offset + 1, Len(list))
<1>1. PICK n \in (IF left = <<>> THEN {0} ELSE 1..Min({PageLimit, Len(left)})),
           total \in IF stuck THEN {MaxPages * PageLimit + 1} ELSE {Len(list), Len(list) + 1} :
             job' = [job EXCEPT ![th] = AfterPage(j, SubSeq(left, 1, n), total)]
  BY DEF Page
<1> DEFINE data == SubSeq(left, 1, n)
<1>2. /\ j.kind \in Kind /\ list \in Seq(Member(j.kind)) /\ Len(list) \in Nat /\ j.offset \in Nat
  BY LenProperties DEF Typed, TypeOK, Job
<1>3. /\ left \in Seq(Member(j.kind)) /\ Len(left) \in Nat
      /\ ~stuck => /\ Len(left) = IF j.offset <= Len(list) THEN Len(list) - j.offset ELSE 0
                   /\ \A i \in 1..Len(left) : left[i] = list[j.offset + i]
  <2>1. CASE stuck
    BY <1>2, <2>1
  <2>2. CASE ~stuck
    <3>1. left = SubSeq(list, j.offset + 1, Len(list))
      BY <2>2
    <3> DEFINE S == Member(j.kind)
               m == j.offset
               z == Len(list)
    <3>2. list \in Seq(S) /\ m \in Nat /\ z \in Nat /\ z <= Len(list) /\ left = SubSeq(list, m + 1, z)
      <4>1. list \in Seq(S) /\ m \in Nat /\ z \in Nat
        BY <1>2
      <4>2. z <= Len(list)
        BY <4>1
      <4>3. left = SubSeq(list, m + 1, z)
        BY <3>1
      <4>4. QED
        BY <4>1, <4>2, <4>3
    <3> HIDE DEF S, m, z, left, list
    <3>3. /\ left \in Seq(S) /\ Len(left) = (IF m <= z THEN z - m ELSE 0)
          /\ \A i \in 1..(z - m) : left[i] = list[m + i]
      BY <3>2, PrefixIs
    <3>4. Len(left) \in Nat /\ \A i \in 1..Len(left) : left[i] = list[m + i]
      BY <3>2, <3>3
    <3>5. QED
      BY <2>2, <3>3, <3>4 DEF S, m, z
  <2>3. QED
    BY <2>1, <2>2
<1> HIDE DEF left
<1>4. n \in Nat /\ n <= PageLimit /\ n <= Len(left) /\ (n = 0 => left = <<>>)
  <2>1. CASE left = <<>>
    BY <1>1, <1>3, <2>1, Bounds
  <2>2. CASE left # <<>>
    BY <1>1, <1>3, <2>2, Bounds, MinOfTwo
  <2>3. QED
    BY <2>1, <2>2
<1>5. data \in Seq(Member(j.kind)) /\ Len(data) = n /\ \A i \in 1..n : data[i] = left[i]
  BY <1>3, <1>4, PrefixIs, 0 + 1 = 1
<1>6. total \in Nat /\ (~stuck => total >= Len(list))
  BY <1>1, <1>2, Bounds
<1>7. data = <<>> <=> n = 0
  BY <1>5, EmptySeq
<1> HIDE DEF data
<1>8. ~stuck => /\ j.offset + Len(data) <= Len(list) \/ data = <<>>
                /\ \A i \in 1..Len(data) : data[i] = list[j.offset + i]
                /\ data = <<>> => j.offset >= Len(list)
  <2>1. SUFFICES ASSUME ~stuck
                 PROVE  /\ j.offset + n <= Len(list) \/ n = 0
                        /\ \A i \in 1..n : data[i] = list[j.offset + i]
                        /\ n = 0 => j.offset >= Len(list)
    BY <1>5, <1>7
  <2>2. j.offset + n <= Len(list) \/ n = 0
    BY <1>2, <1>3, <1>4, <2>1
  <2>3. \A i \in 1..n : data[i] = list[j.offset + i]
    BY <1>3, <1>4, <1>5, <2>1
  <2>4. n = 0 => j.offset >= Len(list)
    <3>1. n = 0 => Len(left) = 0
      BY <1>4, EmptySeq
    <3>2. QED
      BY <1>2, <1>3, <2>1, <3>1
  <2>5. QED
    BY <2>2, <2>3, <2>4
<1>9. Delivered(th, data, total)
  BY <1>4, <1>5, <1>6, <1>8 DEF Delivered
<1>10. QED
  BY <1>1, <1>9 DEF data

LEMMA AfterPageIs ==
    ASSUME Typed, NEW th \in Thread, NEW data, NEW total, Delivered(th, data, total),
           job[th].stage = "page", job[th].pages < MaxPages
    PROVE  LET j == job[th]
               r == AfterPage(j, data, total)
               over == data = <<>> \/ j.offset + Len(data) >= total
           IN  /\ r.stage = (IF over THEN "listed" ELSE "page") /\ r.kind = j.kind
               /\ r.out = j.out \o data /\ r.offset = j.offset + Len(data)
               /\ r.held = j.held /\ r.enriched = j.enriched
               /\ Sound(th, r)
<1> DEFINE j == job[th]
           read == [j EXCEPT !.out = @ \o data, !.offset = @ + Len(data), !.pages = @ + 1, !.attempt = 0]
           r == AfterPage(j, data, total)
           over == data = <<>> \/ j.offset + Len(data) >= total
<1>1. /\ j \in Job /\ j.out \in Seq(Member(j.kind)) /\ j.offset = Len(j.out) /\ j.pages \in Nat
      /\ Len(j.out) <= j.pages * PageLimit /\ (th = "clients" => j.kind = "clients")
  BY DEF Typed, TypeOK, Walking, Job
<1>2. data \in Seq(Member(j.kind)) /\ Len(data) \in Nat /\ Len(data) <= PageLimit
  BY LenProperties DEF Delivered
<1>3. /\ j.out \o data \in Seq(Member(j.kind)) /\ Len(j.out) \in Nat
      /\ Len(j.out \o data) = Len(j.out) + Len(data)
  BY <1>1, <1>2, ConcatProperties, LenProperties
<1>4. j.out \o data \in Seq(Object)
  BY <1>1, <1>3, MemberIs, SeqMonotonic DEF Job
<1>5. /\ read.stage = "page" /\ read.kind = j.kind /\ read.out = j.out \o data
      /\ read.offset = j.offset + Len(data) /\ read.pages = j.pages + 1 /\ read.attempt = 0
      /\ read.held = j.held /\ read.enriched = j.enriched
      /\ read \in Job
  <2>1. j.offset + Len(data) \in Nat /\ j.pages + 1 \in 0..MaxPages /\ 0 \in 0..Retries
    BY <1>1, <1>2, <1>3, Bounds
  <2> DEFINE o == j.out \o data
             f == j.offset + Len(data)
             p == j.pages + 1
  <2>2. o \in Seq(Object) /\ f \in Nat /\ p \in 0..MaxPages
    BY <1>4, <2>1
  <2>3. read = [j EXCEPT !.out = o, !.offset = f, !.pages = p, !.attempt = 0]
    OBVIOUS
  <2>0. j \in Job
    BY <1>1
  <2> HIDE DEF o, f, p, read, j
  <2>4. /\ read.stage = j.stage /\ read.kind = j.kind /\ read.out = o /\ read.offset = f
        /\ read.pages = p /\ read.attempt = 0 /\ read.held = j.held /\ read.enriched = j.enriched
        /\ read \in Job
    BY <2>0, <2>1, <2>2, <2>3 DEF Job
  <2>5. QED
    BY <2>4, j.stage = "page" DEF o, f, p, j
<1>6. Len(j.out \o data) <= (j.pages + 1) * PageLimit
  <2>1. (j.pages + 1) * PageLimit = j.pages * PageLimit + PageLimit
    BY <1>1, Bounds, Products
  <2>2. j.pages * PageLimit \in Nat
    BY <1>1, Bounds, Products
  <2>3. QED
    BY <1>1, <1>2, <1>3, <2>1, <2>2, Bounds
<1>7. (j.pages + 1) * PageLimit <= MaxPages * PageLimit
  <2>1. j.pages + 1 <= MaxPages
    BY <1>1, Bounds
  <2>2. PICK m \in Nat : MaxPages = (j.pages + 1) + m
    <3> DEFINE q == j.pages
    <3>0. q \in Nat /\ q + 1 <= MaxPages
      BY <1>1, <2>1
    <3> HIDE DEF q
    <3>1. MaxPages - (q + 1) \in Nat /\ MaxPages = (q + 1) + (MaxPages - (q + 1))
      BY <3>0, Bounds
    <3>2. QED
      BY <3>1 DEF q
  <2>3. MaxPages * PageLimit = (j.pages + 1) * PageLimit + m * PageLimit
    BY <1>1, <2>2, Bounds, Products
  <2>4. m * PageLimit \in Nat /\ (j.pages + 1) * PageLimit \in Nat
    BY <1>1, Bounds, Products
  <2>5. QED
    BY <2>3, <2>4
<1>8. Len(j.out \o data) <= MaxPages * PageLimit
  <2>1. (j.pages + 1) * PageLimit \in Nat /\ Len(j.out \o data) \in Nat
    BY <1>1, <1>2, <1>3, Bounds, Products
  <2>2. QED
    BY <1>6, <1>7, <2>1, Bounds
<1> HIDE DEF read
<1>9. r = IF over THEN Listed(read) ELSE read
  BY <1>5 DEF AfterPage, read
<1>10. CASE over
  <2>1. r = [read EXCEPT !.stage = "listed", !.pages = 0]
    BY <1>9, <1>10 DEF Listed
  <2> HIDE DEF r
  <2>2. /\ r.stage = "listed" /\ r.kind = read.kind /\ r.out = read.out /\ r.offset = read.offset
        /\ r.held = read.held /\ r.enriched = read.enriched /\ r \in Job
    <3>1. read \in Job /\ 0 \in 0..MaxPages
      BY <1>5, Bounds
    <3>2. QED
      BY <2>1, <3>1 DEF Job
  <2>3. Sound(th, r)
    BY <1>1, <1>3, <1>5, <1>8, <2>2 DEF Sound
  <2>4. QED
    BY <1>5, <1>10, <2>2, <2>3 DEF r
<1>11. CASE ~over
  BY <1>1, <1>3, <1>5, <1>6, <1>8, <1>9, <1>11 DEF Sound
<1>12. QED
  BY <1>10, <1>11


LEMMA InitTyped == ASSUME Init PROVE Typed
<1>1. PICK cs \in SUBSET Client :
         lists = [k \in Kind |-> CASE k = "devices"  -> SetToSeq(Device)
                                   [] k = "networks" -> SetToSeq(Network)
                                   [] k = "wlans"    -> <<>>
                                   [] k = "clients"  -> SetToSeq(cs)]
  BY DEF Init
<1>2. IsFiniteSet(cs)
  BY FS_Subset, ReadingsAssumption
<1>3. SetToSeq(cs) \in Seq(Client) /\ IsInjective(SetToSeq(cs))
  BY <1>2, SetToSeqIs, SeqMonotonic
<1>4. /\ SetToSeq(Device) \in Seq(Device) /\ IsInjective(SetToSeq(Device))
      /\ SetToSeq(Network) \in Seq(Network) /\ IsInjective(SetToSeq(Network))
  BY SetToSeqIs, ReadingsAssumption
<1>5. <<>> \in Seq({}) /\ IsInjective(<<>>) /\ Len(<<>>) = 0
  BY EmptySeq DEF IsInjective
<1>6. DOMAIN lists = Kind /\ \A k \in Kind : lists[k] \in Seq(Member(k)) /\ IsInjective(lists[k])
  BY <1>1, <1>3, <1>4, <1>5 DEF Kind, Member
<1>7. \A th \in Thread : Sound(th, job[th]) /\ job[th] = IdleJob
  BY IdleSound DEF Init
<1>8. job \in [Thread -> Job]
  BY IdleJobIs DEF Init
<1>9. \A th \in Thread : Walking(th)
  BY <1>7 DEF Walking, Sound
<1>10. fetched \in [ports : SUBSET Device, catalogue : SUBSET Network]
  BY DEF Init, NothingFetched
<1>11. \A th \in Thread : /\ job[th].out \in Seq(Member(job[th].kind))
                          /\ job[th].offset = Len(job[th].out)
                          /\ Len(job[th].out) <= MaxPages * PageLimit
  BY <1>7 DEF Sound
<1>12. TypeOK
  <2>1. changes \in 0..MaxChanges /\ catalogue \subseteq Network /\ ports \subseteq Device
    BY ReadingsAssumption DEF Init
  <2>2. stuck \in BOOLEAN /\ degraded \in BOOLEAN
    BY DEF Init
  <2>3. QED
    BY <1>6, <1>8, <1>10, <1>11, <2>1, <2>2 DEF TypeOK
<1>13. QED
  BY <1>9, <1>12 DEF Typed

\* What is known of a loop's job.
LEMMA JobIs ==
    ASSUME Typed, NEW th \in Thread
    PROVE  /\ Sound(th, job[th])
           /\ job[th].kind \in Kind /\ job[th].pages \in 0..MaxPages /\ job[th].attempt \in 0..Retries
           /\ job[th].held \subseteq Object /\ job[th].enriched \subseteq Client
  BY DEF Typed, TypeOK, Walking, Sound, Job

LEMMA PageTyped == ASSUME Typed, NEW th \in Thread, Page(th) PROVE Typed'
<1>1. PICK data, total : Delivered(th, data, total)
                         /\ job' = [job EXCEPT ![th] = AfterPage(job[th], data, total)]
  BY PageDelivers
<1>2. Sound(th, AfterPage(job[th], data, total))
  BY <1>1, AfterPageIs DEF Page
<1> DEFINE r == AfterPage(job[th], data, total)
<1>3. UNCHANGED <<consoleVars, coordVars>>
  BY DEF Page
<1> HIDE DEF r
<1>4. Sound(th, r) /\ job' = [job EXCEPT ![th] = r]
  BY <1>1, <1>2 DEF r
<1>5. QED
  BY <1>3, <1>4, JobTyped DEF coordVars, Typed, TypeOK

LEMMA PagesCappedTyped == ASSUME Typed, NEW th \in Thread, PagesCapped(th) PROVE Typed'
<1> DEFINE j == job[th]
           r == [Listed(j) EXCEPT !.held = {}]
<1>1. Sound(th, j) /\ UNCHANGED <<consoleVars, coordVars>> /\ job' = [job EXCEPT ![th] = r]
  BY JobIs DEF PagesCapped
<1> HIDE DEF j
<1>2. r \in Job /\ r.stage = "listed" /\ r.kind = j.kind /\ r.out = j.out /\ r.offset = j.offset
  <2>1. j \in Job /\ 0 \in 0..MaxPages
    BY <1>1, Bounds DEF Sound
  <2>2. r = [j EXCEPT !.stage = "listed", !.pages = 0, !.held = {}]
    BY <2>1 DEF Listed, Job
  <2> HIDE DEF r
  <2>3. QED
    BY <2>1, <2>2 DEF Job
<1> HIDE DEF r
<1>3. Sound(th, r)
  BY <1>1, <1>2 DEF Sound
<1>4. QED
  BY <1>1, <1>3, JobTyped DEF coordVars, Typed, TypeOK

LEMMA AttemptFailsTyped == ASSUME Typed, NEW th \in Thread, AttemptFails(th) PROVE Typed'
<1> DEFINE j == job[th]
           r == NextAttempt(j)
<1>1. /\ Sound(th, j) /\ UNCHANGED <<consoleVars, coordVars>> /\ job' = [job EXCEPT ![th] = r]
      /\ j.attempt \in 0..Retries /\ j.attempt < Retries
  BY JobIs DEF AttemptFails
<1> HIDE DEF j
<1>2. /\ r \in Job /\ r.stage = j.stage /\ r.kind = j.kind /\ r.out = j.out /\ r.offset = j.offset
      /\ r.pages = j.pages
  <2>1. j.attempt + 1 \in 0..Retries /\ j \in Job
    BY <1>1, Bounds DEF Sound
  <2>2. QED
    BY <2>1 DEF NextAttempt, Job
<1> HIDE DEF r
<1>3. Sound(th, r)
  BY <1>1, <1>2 DEF Sound
<1>4. QED
  BY <1>1, <1>3, JobTyped DEF coordVars, Typed, TypeOK

LEMMA ReadFailsTyped == ASSUME Typed, NEW th \in Thread, ReadFails(th) PROVE Typed'
<1>1. NothingFetched \in [ports : SUBSET Device, catalogue : SUBSET Network]
  BY DEF NothingFetched
<1>2. fetched' \in [ports : SUBSET Device, catalogue : SUBSET Network]
  BY <1>1 DEF ReadFails, Typed, TypeOK
<1>3. /\ degraded' \in BOOLEAN /\ catalogue' \subseteq Network /\ ports' \subseteq Device
      /\ UNCHANGED consoleVars /\ job' = [job EXCEPT ![th] = IdleJob]
  BY DEF ReadFails, Typed, TypeOK
<1>4. QED
  BY <1>2, <1>3, IdleSound, JobTyped

\* The static poll goes from list to list, and each answer is about what the
\* list named.
LEMMA StaticTyped ==
    ASSUME Typed, StaticPoll \/ DeviceDetails \/ NetworkDetails \/ StaticSwap
    PROVE  Typed'
<1> DEFINE j == job["static"]
<1>0. "static" \in Thread /\ Sound("static", j) /\ TypeOK
  BY JobIs DEF Thread, Typed
<1>1. \A k \in Kind : Sound("static", Reading(k))
  BY <1>0, ReadingSound
<1>2. "devices" \in Kind /\ "networks" \in Kind /\ "wlans" \in Kind
  BY DEF Kind
<1>3. fetched \in [ports : SUBSET Device, catalogue : SUBSET Network]
  BY <1>0 DEF TypeOK
<1>4. degraded \in BOOLEAN /\ catalogue \subseteq Network /\ ports \subseteq Device
  BY <1>0 DEF TypeOK
<1>5. CASE StaticPoll
  <2>1. job' = [job EXCEPT !["static"] = Reading("devices")] /\ UNCHANGED <<consoleVars, coordVars>>
    BY <1>5 DEF StaticPoll
  <2>2. QED
    BY <1>0, <1>1, <1>2, <1>3, <1>4, <2>1, JobTyped DEF coordVars
<1>6. CASE DeviceDetails
  <2>1. PICK answered \in SUBSET ToSet(j.out) : fetched' = [fetched EXCEPT !.ports = answered]
    BY <1>6 DEF DeviceDetails
  <2>2. ToSet(j.out) \subseteq Device
    BY <1>0, <1>6, ElementsOf, MemberIs DEF DeviceDetails, Sound
  <2>3. fetched' \in [ports : SUBSET Device, catalogue : SUBSET Network]
    BY <1>3, <2>1, <2>2
  <2>4. /\ job' = [job EXCEPT !["static"] = Reading("networks")]
        /\ UNCHANGED <<consoleVars, degraded, catalogue, ports>>
    BY <1>6 DEF DeviceDetails
  <2>5. QED
    BY <1>0, <1>1, <1>2, <1>4, <2>3, <2>4, JobTyped
<1>7. CASE NetworkDetails
  <2>1. PICK answered \in SUBSET ToSet(j.out) : fetched' = [fetched EXCEPT !.catalogue = answered]
    BY <1>7 DEF NetworkDetails
  <2>2. ToSet(j.out) \subseteq Network
    BY <1>0, <1>7, ElementsOf, MemberIs DEF NetworkDetails, Sound
  <2>3. fetched' \in [ports : SUBSET Device, catalogue : SUBSET Network]
    BY <1>3, <2>1, <2>2
  <2>4. /\ job' = [job EXCEPT !["static"] = Reading("wlans")]
        /\ UNCHANGED <<consoleVars, degraded, catalogue, ports>>
    BY <1>7 DEF NetworkDetails
  <2>5. QED
    BY <1>0, <1>1, <1>2, <1>4, <2>3, <2>4, JobTyped
<1>8. CASE StaticSwap
  <2>1. fetched' \in [ports : SUBSET Device, catalogue : SUBSET Network]
    BY <1>8 DEF StaticSwap, NothingFetched
  <2>2. catalogue' \subseteq Network /\ ports' \subseteq Device
    BY <1>3, <1>8 DEF StaticSwap
  <2>3. job' = [job EXCEPT !["static"] = IdleJob] /\ UNCHANGED <<consoleVars, degraded>>
    BY <1>8 DEF StaticSwap
  <2>4. QED
    BY <1>0, <1>4, <2>1, <2>2, <2>3, IdleSound, JobTyped
<1>9. QED
  BY <1>5, <1>6, <1>7, <1>8

LEMMA ClientPollTyped == ASSUME Typed, ClientPoll PROVE Typed'
<1>1. "clients" \in Thread /\ "clients" \in Kind /\ TypeOK
  BY DEF Thread, Kind, Typed
<1>2. Sound("clients", Reading("clients"))
  BY <1>1, ReadingSound
<1>3. job' = [job EXCEPT !["clients"] = Reading("clients")] /\ UNCHANGED <<consoleVars, coordVars>>
  BY DEF ClientPoll
<1>4. QED
  BY <1>1, <1>2, <1>3, JobTyped DEF coordVars, TypeOK

\* What Select makes of the job.
LEMMA SelectIs ==
    ASSUME Typed, NEW enriched \in SUBSET Client, Select(enriched)
    PROVE  LET j == job["clients"] IN
           \E r : /\ job' = [job EXCEPT !["clients"] = r] /\ Sound("clients", r)
                  /\ r.stage = "selected" /\ r.held = j.held /\ r.out = j.out /\ r.offset = j.offset
<1> DEFINE j == job["clients"]
           r == [j EXCEPT !.stage = "selected", !.enriched = enriched]
<1>1. Sound("clients", j) /\ job' = [job EXCEPT !["clients"] = r]
  BY JobIs DEF Thread, Select
<1> HIDE DEF j
<1>2. /\ r \in Job /\ r.stage = "selected" /\ r.kind = j.kind /\ r.out = j.out
      /\ r.offset = j.offset /\ r.held = j.held
  BY <1>1 DEF Sound, Job
<1> HIDE DEF r
<1>3. Sound("clients", r)
  BY <1>1, <1>2 DEF Sound
<1>4. QED
  BY <1>1, <1>2, <1>3 DEF j

\* Whatever the classic answer is, it is about clients.
LEMMA EnrichingSelects ==
    ASSUME Typed, Enriched \/ EnrichFails \/ NotEnriched
    PROVE  (\E enriched \in SUBSET Client : Select(enriched)) /\ degraded' \in BOOLEAN
<1>1. "clients" \in Thread /\ ToSet(job["clients"].out) \subseteq Client
  <2>1. Sound("clients", job["clients"]) /\ "clients" \in Thread
    BY JobIs DEF Thread
  <2>2. QED
    BY <2>1, ElementsOf, MemberIs DEF Sound
<1>2. degraded \in BOOLEAN
  BY DEF Typed, TypeOK
<1>3. CASE Enriched
  BY <1>1, <1>2, <1>3 DEF Enriched
<1>4. CASE EnrichFails
  BY <1>4 DEF EnrichFails
<1>5. CASE NotEnriched
  BY <1>2, <1>5 DEF NotEnriched
<1>6. QED
  BY <1>3, <1>4, <1>5

LEMMA SelectTyped ==
    ASSUME Typed, NEW enriched \in SUBSET Client, Select(enriched), degraded' \in BOOLEAN
    PROVE  Typed'
<1>1. PICK r : job' = [job EXCEPT !["clients"] = r] /\ Sound("clients", r)
  BY SelectIs
<1>2. UNCHANGED <<consoleVars, fetched, catalogue, ports>> /\ "clients" \in Thread
  BY DEF Select, Thread
<1>3. QED
  BY <1>1, <1>2, JobTyped DEF Typed, TypeOK

\* The clients' list changes to another list of clients without repetition,
\* and a loop forgets at most what it held.
LEMMA ListTyped ==
    ASSUME Typed, NEW list \in Seq(Client), IsInjective(list), Change(list),
           \/ UNCHANGED job
           \/ job' = [job EXCEPT !["clients"].held = {}]
    PROVE  Typed'
<1>1. /\ changes' \in 0..MaxChanges
      /\ lists' = [lists EXCEPT !["clients"] = list] /\ UNCHANGED <<stuck, coordVars>>
  BY ReadingsAssumption DEF Change, Typed, TypeOK
<1>2. DOMAIN lists' = Kind /\ \A k \in Kind : lists'[k] \in Seq(Member(k)) /\ IsInjective(lists'[k])
  BY <1>1 DEF Typed, TypeOK, Kind, Member
<1>3. /\ job' \in [Thread -> Job]
      /\ \A th \in Thread : /\ job'[th].out = job[th].out /\ job'[th].offset = job[th].offset
                            /\ job'[th].kind = job[th].kind /\ job'[th].pages = job[th].pages
                            /\ job'[th].stage = job[th].stage
  <2>1. job \in [Thread -> Job]
    BY DEF Typed, TypeOK
  <2>2. CASE UNCHANGED job
    BY <2>1, <2>2
  <2>3. CASE job' = [job EXCEPT !["clients"].held = {}]
    BY <2>1, <2>3 DEF Job, Thread
  <2>4. QED
    BY <2>2, <2>3
<1>4. \A th \in Thread : Walking(th)'
  BY <1>3 DEF Typed, Walking
<1>5. \A th \in Thread : /\ job'[th].out \in Seq(Member(job'[th].kind))
                         /\ job'[th].offset = Len(job'[th].out)
                         /\ Len(job'[th].out) <= MaxPages * PageLimit
  BY <1>3 DEF Typed, TypeOK
<1>6. TypeOK'
  BY <1>1, <1>2, <1>3, <1>5 DEF Typed, TypeOK, coordVars
<1>7. QED
  BY <1>4, <1>6 DEF Typed

\* The three ways the list changes.
LEMMA ChangesAre ==
    ASSUME Typed, Arrive \/ Leave \/ Reorder
    PROVE  \E list \in Seq(Client) :
              /\ IsInjective(list) /\ Change(list)
              /\ \/ UNCHANGED job
                 \/ job' = [job EXCEPT !["clients"].held = {}]
<1> DEFINE old == lists["clients"]
<1>1. old \in Seq(Client) /\ IsInjective(old) /\ DOMAIN old = 1..Len(old) /\ Len(old) \in Nat
  BY LenProperties, MemberIs DEF Typed, TypeOK, Kind
<1>2. CASE Arrive
  <2>1. PICK c \in Client \ ToSet(old), i \in 1..(Len(old) + 1) : Change(InsertAt(old, i, c))
    BY <1>2 DEF Arrive
  <2>2. InsertAt(old, i, c) \in Seq(Client) /\ IsInjective(InsertAt(old, i, c))
    <3>1. old \in Seq(Client) /\ IsInjective(old) /\ c \in Client
      BY <1>1
    <3> HIDE DEF old
    <3>2. QED
      BY <2>1, <3>1, InsertAtIs, InsertInjective
  <2>3. UNCHANGED job
    BY <1>2 DEF Arrive
  <2>4. QED
    BY <2>1, <2>2, <2>3
<1>3. CASE Leave
  <2>1. PICK i \in 1..Len(old) : Change(RemoveAt(old, i))
    BY <1>1, <1>3 DEF Leave
  <2>2. RemoveAt(old, i) \in Seq(Client) /\ IsInjective(RemoveAt(old, i))
    <3>1. old \in Seq(Client) /\ IsInjective(old)
      BY <1>1
    <3> HIDE DEF old
    <3>2. QED
      BY <2>1, <3>1, RemoveAtIs, RemoveInjective
  <2>3. job' = [job EXCEPT !["clients"].held = {}]
    BY <1>3 DEF Leave
  <2>4. QED
    BY <2>1, <2>2, <2>3
<1>4. CASE Reorder
  <2>1. PICK i \in 1..Len(old), k \in 1..Len(old) :
           Change([old EXCEPT ![i] = old[k], ![k] = old[i]])
    BY <1>1, <1>4 DEF Reorder
  <2> DEFINE new == [old EXCEPT ![i] = old[k], ![k] = old[i]]
  <2>2. new \in Seq(Client) /\ IsInjective(new)
    <3>1. old \in Seq(Client) /\ IsInjective(old)
      BY <1>1
    <3> HIDE DEF old
    <3>2. QED
      BY <2>1, <3>1, SwapIs
  <2>3. Change(new)
    BY <2>1
  <2>4. job' = [job EXCEPT !["clients"].held = {}]
    BY <1>4 DEF Reorder
  <2> HIDE DEF new
  <2>5. QED
    BY <2>2, <2>3, <2>4
<1>5. QED
  BY <1>2, <1>3, <1>4

LEMMA NextTyped == ASSUME Typed, [Next]_vars PROVE Typed'
<1>1. ASSUME NEW th \in Thread, Page(th) \/ PagesCapped(th) \/ AttemptFails(th) \/ ReadFails(th)
      PROVE  Typed'
  BY <1>1, PageTyped, PagesCappedTyped, AttemptFailsTyped, ReadFailsTyped
<1>2. CASE StaticPoll \/ DeviceDetails \/ NetworkDetails \/ StaticSwap
  BY <1>2, StaticTyped
<1>3. CASE ClientPoll
  BY <1>3, ClientPollTyped
<1>4. CASE Enriched \/ EnrichFails \/ NotEnriched
  BY <1>4, EnrichingSelects, SelectTyped
<1>5. CASE Arrive \/ Leave \/ Reorder
  BY <1>5, ChangesAre, ListTyped
<1>6. CASE UNCHANGED vars
  BY <1>6 DEF vars, consoleVars, coordVars, Typed, TypeOK, Walking
<1>7. QED
  BY <1>1, <1>2, <1>3, <1>4, <1>5, <1>6 DEF Next

\* Every variable keeps its type; the lists hold nothing twice, and what a
\* loop has collected is where the next page starts and never exceeds what
\* its pages can hold (client.go:386-391).
THEOREM TypeCorrect == Spec => []TypeOK
<1>1. Init => Typed
  BY InitTyped
<1>2. Typed /\ [Next]_vars => Typed'
  BY NextTyped
<1>3. Typed => TypeOK
  BY DEF Typed
<1>4. QED
  BY <1>1, <1>2, <1>3, PTL DEF Spec


-----------------------------------------------------------------------------
(* Nobody who stays is skipped. Every client that has been listed since    *)
(* the read began and that nothing overtook is either collected or still   *)
(* beyond the offset: an arrival can only push it further back.            *)

Ahead(c, offset, list) == \E i \in DOMAIN list : i > offset /\ list[i] = c

Unskipped ==
    LET j == job["clients"] IN
    /\ stuck => j.held = {}
    /\ j.stage # "page" => j.held \subseteq ToSet(j.out)
    /\ \A c \in j.held : c \in ToSet(j.out) \/ Ahead(c, j.offset, lists["clients"])

\* A list that grows by one keeps what was ahead ahead.
LEMMA ArrivalPushesBack ==
    ASSUME NEW S, NEW s \in Seq(S), NEW e \in S, NEW i \in 1..(Len(s) + 1), NEW c,
           NEW offset \in Nat, Ahead(c, offset, s)
    PROVE  Ahead(c, offset, InsertAt(s, i, e))
<1>1. Len(s) \in Nat /\ DOMAIN s = 1..Len(s)
  BY LenProperties
<1>2. PICK k \in 1..Len(s) : k > offset /\ s[k] = c
  BY <1>1 DEF Ahead
<1> DEFINE u == InsertAt(s, i, e)
<1>3. /\ u \in Seq(S) /\ Len(u) = Len(s) + 1
      /\ \A x \in 1..(Len(s) + 1) : u[x] = IF x < i THEN s[x] ELSE IF x = i THEN e ELSE s[x - 1]
  BY InsertAtIs
<1> HIDE DEF u
<1>4. DOMAIN u = 1..(Len(s) + 1)
  BY <1>3, LenProperties
<1>5. CASE k < i
  <2>1. k \in 1..(Len(s) + 1) /\ u[k] = c
    BY <1>1, <1>2, <1>3, <1>5
  <2>2. QED
    BY <1>2, <1>4, <2>1 DEF Ahead, u
<1>6. CASE k >= i
  <2>1. k + 1 \in 1..(Len(s) + 1) /\ ~(k + 1 < i) /\ k + 1 # i /\ (k + 1) - 1 = k /\ k + 1 > offset
    BY <1>1, <1>2, <1>6
  <2>2. u[k + 1] = c
    BY <1>2, <1>3, <2>1
  <2>3. QED
    BY <1>4, <2>1, <2>2 DEF Ahead, u
<1>7. QED
  BY <1>1, <1>2, <1>5, <1>6

\* What a concatenation contains.
LEMMA ConcatContains ==
    ASSUME NEW S, NEW s \in Seq(S), NEW t \in Seq(S)
    PROVE  ToSet(s) \subseteq ToSet(s \o t) /\ ToSet(t) \subseteq ToSet(s \o t)
<1>1. /\ DOMAIN s = 1..Len(s) /\ DOMAIN t = 1..Len(t) /\ Len(s) \in Nat /\ Len(t) \in Nat
  BY LenProperties
<1>2. /\ s \o t \in Seq(S) /\ Len(s \o t) = Len(s) + Len(t)
      /\ \A i \in 1..Len(s) + Len(t) : (s \o t)[i] = IF i <= Len(s) THEN s[i] ELSE t[i - Len(s)]
  BY ConcatProperties
<1> DEFINE u == s \o t
<1>3. /\ DOMAIN u = 1..(Len(s) + Len(t))
      /\ \A i \in 1..(Len(s) + Len(t)) : u[i] = IF i <= Len(s) THEN s[i] ELSE t[i - Len(s)]
  BY <1>2, LenProperties
<1> HIDE DEF u
<1>4. \A i \in 1..Len(s) : i \in DOMAIN u /\ u[i] = s[i]
  BY <1>1, <1>3
<1>5. \A i \in 1..Len(t) : Len(s) + i \in DOMAIN u /\ u[Len(s) + i] = t[i]
  <2>1. ASSUME NEW i \in 1..Len(t) PROVE Len(s) + i \in DOMAIN u /\ u[Len(s) + i] = t[i]
    <3>1. /\ Len(s) + i \in 1..(Len(s) + Len(t)) /\ ~(Len(s) + i <= Len(s)) /\ (Len(s) + i) - Len(s) = i
      BY <1>1
    <3>2. QED
      BY <1>3, <3>1
  <2>2. QED
    BY <2>1
<1>6. ToSet(s) \subseteq ToSet(u) /\ ToSet(t) \subseteq ToSet(u)
  BY <1>1, <1>4, <1>5 DEF ToSet
<1>7. QED
  BY <1>6 DEF u

\* A page of the client walk: what it moves past, it collects.
LEMMA PageUnskipped ==
    ASSUME Typed, Unskipped, Page("clients")
    PROVE  Unskipped'
<1> DEFINE j == job["clients"]
           list == lists["clients"]
<1>0. "clients" \in Thread /\ Sound("clients", j) /\ j.kind = "clients"
  BY JobIs DEF Thread, Sound
<1>1. PICK data, total : Delivered("clients", data, total)
                         /\ job' = [job EXCEPT !["clients"] = AfterPage(j, data, total)]
  BY <1>0, PageDelivers
<1> DEFINE r == AfterPage(j, data, total)
           over == data = <<>> \/ j.offset + Len(data) >= total
<1>2. /\ r.stage = (IF over THEN "listed" ELSE "page")
      /\ r.out = j.out \o data /\ r.offset = j.offset + Len(data) /\ r.held = j.held
  BY <1>0, <1>1, AfterPageIs DEF Page
<1>3. job'["clients"] = r /\ UNCHANGED consoleVars
  BY <1>0, <1>1 DEF Page, Typed, TypeOK
<1> HIDE DEF r
<1>4. /\ list \in Seq(Client) /\ data \in Seq(Client) /\ j.out \in Seq(Client)
      /\ Len(list) \in Nat /\ Len(data) \in Nat /\ Len(j.out) \in Nat /\ j.offset = Len(j.out)
      /\ DOMAIN list = 1..Len(list) /\ DOMAIN data = 1..Len(data)
  BY <1>0, <1>1, MemberIs, LenProperties DEF Typed, TypeOK, Kind, Delivered, Sound
<1>5. ToSet(j.out) \subseteq ToSet(r.out) /\ ToSet(data) \subseteq ToSet(r.out)
  BY <1>2, <1>4, ConcatContains
<1>6. stuck => r.held = {}
  BY <1>2 DEF Unskipped
\* Whoever is ahead of the offset is on the page or ahead of the next one.
<1>7. ASSUME NEW c \in j.held
      PROVE  c \in ToSet(r.out) \/ (Ahead(c, r.offset, list) /\ ~over)
  <2>1. ~stuck
    BY <1>7 DEF Unskipped
  <2>2. CASE c \in ToSet(j.out)
    BY <1>5, <2>2
  <2>3. CASE Ahead(c, j.offset, list)
    <3>1. PICK i \in 1..Len(list) : i > j.offset /\ list[i] = c
      BY <1>4, <2>3 DEF Ahead
    <3>2. /\ total >= Len(list) /\ total \in Nat /\ \A x \in 1..Len(data) : data[x] = list[j.offset + x]
          /\ (data = <<>> => j.offset >= Len(list))
      BY <1>0, <1>1, <2>1 DEF Delivered
    <3>3. CASE i <= j.offset + Len(data)
      <4>1. i - j.offset \in 1..Len(data) /\ j.offset + (i - j.offset) = i
        <5> DEFINE m == j.offset
                   z == Len(data)
        <5>1. m \in Nat /\ z \in Nat /\ i \in Nat /\ i > m /\ i <= m + z
          BY <1>4, <3>1, <3>3
        <5> HIDE DEF m, z
        <5>2. i - m \in 1..z /\ m + (i - m) = i
          BY <5>1
        <5>3. QED
          BY <5>2 DEF m, z
      <4>2. data[i - j.offset] = c
        BY <3>1, <3>2, <4>1
      <4>3. c \in ToSet(data)
        BY <1>4, <4>1, <4>2 DEF ToSet
      <4>4. QED
        BY <1>5, <4>3
    <3>4. CASE i > j.offset + Len(data)
      <4>1. data # <<>>
        BY <1>4, <3>1, <3>2
      <4>2. ~(j.offset + Len(data) >= total)
        BY <1>4, <3>1, <3>2, <3>4
      <4>3. Ahead(c, r.offset, list)
        BY <1>2, <1>4, <3>1, <3>4 DEF Ahead
      <4>4. QED
        BY <4>1, <4>2, <4>3
    <3>5. QED
      BY <1>4, <3>1, <3>3, <3>4
  <2>4. QED
    BY <1>7, <2>2, <2>3 DEF Unskipped
<1>8. r.stage # "page" => r.held \subseteq ToSet(r.out)
  BY <1>2, <1>7
<1>9. \A c \in r.held : c \in ToSet(r.out) \/ Ahead(c, r.offset, list)
  BY <1>2, <1>7
<1>10. QED
  BY <1>3, <1>6, <1>8, <1>9 DEF Unskipped, consoleVars

\* The client walk is as it was, and so is its list.
LEMMA SameUnskipped ==
    ASSUME Unskipped, job'["clients"] = job["clients"], UNCHANGED consoleVars
    PROVE  Unskipped'
  BY DEF Unskipped, consoleVars

\* The client walk vouches for nobody any more.
LEMMA NothingHeld ==
    ASSUME job'["clients"].held = {} PROVE Unskipped'
  BY DEF Unskipped

LEMMA OtherUnskipped ==
    ASSUME Typed, Unskipped, NEW th \in Thread,
           Page(th) \/ PagesCapped(th) \/ AttemptFails(th) \/ ReadFails(th)
    PROVE  Unskipped'
<1>0. job \in [Thread -> Job] /\ "clients" \in Thread
  BY DEF Typed, TypeOK, Thread
<1>1. CASE th = "static"
  <2>1. job'["clients"] = job["clients"] /\ UNCHANGED consoleVars
    <3>1. CASE Page(th)
      BY <1>0, <1>1, <3>1 DEF Page
    <3>2. CASE PagesCapped(th)
      BY <1>0, <1>1, <3>2 DEF PagesCapped
    <3>3. CASE AttemptFails(th)
      BY <1>0, <1>1, <3>3 DEF AttemptFails
    <3>4. CASE ReadFails(th)
      BY <1>0, <1>1, <3>4 DEF ReadFails
    <3>5. QED
      BY <3>1, <3>2, <3>3, <3>4
  <2>2. QED
    BY <2>1, SameUnskipped
<1>2. CASE th = "clients"
  <2>1. CASE Page(th)
    BY <1>2, <2>1, PageUnskipped
  <2>2. CASE PagesCapped(th)
    <3> DEFINE j == job["clients"]
    <3>1. j \in Job /\ job'["clients"] = [Listed(j) EXCEPT !.held = {}]
      BY <1>0, <1>2, <2>2 DEF PagesCapped
    <3> HIDE DEF j
    <3>2. job'["clients"].held = {}
      BY <3>1 DEF Listed, Job
    <3>3. QED
      BY <3>2, NothingHeld
  <2>3. CASE AttemptFails(th)
    <3> DEFINE j == job["clients"]
               r == job'["clients"]
    <3>1. j \in Job /\ r = NextAttempt(j) /\ UNCHANGED consoleVars
      BY <1>0, <1>2, <2>3 DEF AttemptFails
    <3> HIDE DEF j, r
    <3>2. r.stage = j.stage /\ r.out = j.out /\ r.offset = j.offset /\ r.held = j.held
      BY <3>1 DEF NextAttempt, Job
    <3>3. QED
      BY <3>1, <3>2 DEF Unskipped, consoleVars, j, r
  <2>4. CASE ReadFails(th)
    <3>1. job'["clients"] = IdleJob
      BY <1>0, <1>2, <2>4 DEF ReadFails
    <3>2. QED
      BY <3>1, IdleJobIs, NothingHeld
  <2>5. QED
    BY <2>1, <2>2, <2>3, <2>4
<1>3. QED
  BY <1>1, <1>2 DEF Thread

\* A poll begins: everybody listed is ahead.
LEMMA PollUnskipped == ASSUME Typed, ClientPoll PROVE Unskipped'
<1> DEFINE r == Reading("clients")
           list == lists["clients"]
<1>0. TypeOK /\ "clients" \in Kind /\ "clients" \in Thread
  BY DEF Typed, Kind, Thread
<1>1. job'["clients"] = r /\ UNCHANGED consoleVars
  BY <1>0 DEF ClientPoll, TypeOK
<1>2. r.stage = "page" /\ r.offset = 0 /\ r.held = IF stuck THEN {} ELSE ToSet(list)
  BY <1>0, ReadingIs
<1> HIDE DEF r
<1>3. DOMAIN list = 1..Len(list) /\ Len(list) \in Nat
  BY <1>0, LenProperties DEF TypeOK
<1>4. \A c \in ToSet(list) : Ahead(c, 0, list)
  BY <1>3 DEF Ahead, ToSet
<1>5. QED
  BY <1>1, <1>2, <1>4 DEF Unskipped, consoleVars

LEMMA SelectUnskipped ==
    ASSUME Typed, Unskipped, NEW enriched \in SUBSET Client, Select(enriched)
    PROVE  Unskipped'
<1> DEFINE j == job["clients"]
<1>1. PICK r : /\ job' = [job EXCEPT !["clients"] = r] /\ Sound("clients", r)
               /\ r.stage = "selected" /\ r.held = j.held /\ r.out = j.out /\ r.offset = j.offset
  BY SelectIs
<1>2. job'["clients"] = r /\ UNCHANGED consoleVars /\ j.stage = "listed"
  BY <1>1 DEF Select, Typed, TypeOK, Thread
<1>3. QED
  BY <1>1, <1>2 DEF Unskipped, consoleVars

LEMMA ListUnskipped ==
    ASSUME Typed, Unskipped, Arrive \/ Leave \/ Reorder
    PROVE  Unskipped'
<1> DEFINE old == lists["clients"]
           j == job["clients"]
<1>0. /\ job \in [Thread -> Job] /\ "clients" \in Thread
      /\ old \in Seq(Client) /\ j.offset \in Nat /\ DOMAIN lists = Kind /\ "clients" \in Kind
  BY MemberIs DEF Typed, TypeOK, Kind, Thread, Job
<1>1. CASE Arrive
  <2>1. PICK c \in Client \ ToSet(old), i \in 1..(Len(old) + 1) : Change(InsertAt(old, i, c))
    BY <1>1 DEF Arrive
  <2>2. UNCHANGED job /\ UNCHANGED stuck /\ lists'["clients"] = InsertAt(old, i, c)
    BY <1>0, <1>1, <2>1 DEF Arrive, Change
  <2>3. \A d : Ahead(d, j.offset, old) => Ahead(d, j.offset, InsertAt(old, i, c))
    <3> HIDE DEF old, j
    <3>1. QED
      BY <1>0, <2>1, ArrivalPushesBack
  <2>4. QED
    BY <2>2, <2>3 DEF Unskipped
<1>2. CASE Leave \/ Reorder
  <2>1. job' = [job EXCEPT !["clients"].held = {}]
    BY <1>2 DEF Leave, Reorder
  <2>2. job'["clients"].held = {}
    BY <1>0, <2>1 DEF Job
  <2>3. QED
    BY <2>2, NothingHeld
<1>3. QED
  BY <1>1, <1>2

LEMMA NextUnskipped == ASSUME Typed, Unskipped, [Next]_vars PROVE Unskipped'
<1>1. ASSUME NEW th \in Thread, Page(th) \/ PagesCapped(th) \/ AttemptFails(th) \/ ReadFails(th)
      PROVE  Unskipped'
  BY <1>1, OtherUnskipped
<1>2. CASE StaticPoll \/ DeviceDetails \/ NetworkDetails \/ StaticSwap
  <2>1. job'["clients"] = job["clients"] /\ UNCHANGED consoleVars
    BY <1>2 DEF StaticPoll, DeviceDetails, NetworkDetails, StaticSwap, Typed, TypeOK, Thread
  <2>2. QED
    BY <2>1, SameUnskipped
<1>3. CASE ClientPoll
  BY <1>3, PollUnskipped
<1>4. CASE Enriched \/ EnrichFails \/ NotEnriched
  BY <1>4, EnrichingSelects, SelectUnskipped
<1>5. CASE Arrive \/ Leave \/ Reorder
  BY <1>5, ListUnskipped
<1>6. CASE UNCHANGED vars
  BY <1>6, SameUnskipped DEF vars
<1>7. QED
  BY <1>1, <1>2, <1>3, <1>4, <1>5, <1>6 DEF Next

\* A client that stays on the list while it is read page by page is in what
\* was read, whoever arrives at whatever place and however short the pages
\* and often repeated the attempts are (client.go:386-391).
THEOREM NobodySkipped == Spec => []NoneSkipped
<1>1. Init => Typed /\ Unskipped
  BY InitTyped, IdleJobIs DEF Init, Unskipped, Thread
<1>2. (Typed /\ Unskipped) /\ [Next]_vars => (Typed /\ Unskipped)'
  BY NextTyped, NextUnskipped
<1>3. Typed /\ Unskipped => NoneSkipped
  BY DEF Unskipped, NoneSkipped
<1>4. QED
  BY <1>1, <1>2, <1>3, PTL DEF Spec

-----------------------------------------------------------------------------
(* Recursion and counting.                                                 *)

\* Induction over the naturals, without an operator for the statement: a set
\* of naturals that is not empty has a least element, and of the counter-
\* examples to a statement that one leads to the contradiction.
Less == {ss \in Nat \X Nat : ss[1] < ss[2]}

LEMMA LessWellFounded == IsWellFoundedOn(Less, Nat)
  BY NatLessThanWellFounded DEF OpToRel, Less

LEMMA LeastNat ==
    ASSUME NEW S \in SUBSET Nat, S # {}
    PROVE  \E n \in S : \A m \in S : n <= m
<1>1. \E n \in S : \A m \in S : ~(<<m, n>> \in Less)
  BY LessWellFounded, WFMin
<1>2. ASSUME NEW n \in S, NEW m \in S, ~(<<m, n>> \in Less) PROVE n <= m
  BY <1>2 DEF Less
<1>3. QED
  BY <1>1, <1>2

\* f is defined up to m by a recursion that starts from base.
Solves(f, m, T, base, step) ==
    f \in [0..m -> T] /\ f[0] = base /\ \A i \in 1..m : f[i] = step[<<f[i - 1], i>>]

LEMMA SolutionGrows ==
    ASSUME NEW T, NEW base \in T, NEW n \in Nat, NEW step \in [T \X (1..n) -> T],
           NEW m \in 1..n, NEW f, Solves(f, m - 1, T, base, step)
    PROVE  \E g : Solves(g, m, T, base, step)
<1> DEFINE last == step[<<f[m - 1], m>>]
           g == [i \in 0..m |-> IF i = m THEN last ELSE f[i]]
<1>1. f \in [0..(m - 1) -> T] /\ f[0] = base /\ \A i \in 1..(m - 1) : f[i] = step[<<f[i - 1], i>>]
  BY DEF Solves
<1>2. last \in T
  <2>1. m - 1 \in 0..(m - 1)
    OBVIOUS
  <2>2. f[m - 1] \in T
    BY <1>1, <2>1
  <2>3. QED
    BY <2>2
<1> HIDE DEF last
<1>3. g \in [0..m -> T]
  <2>1. \A i \in 0..m : i # m => i \in 0..(m - 1)
    OBVIOUS
  <2>2. QED
    BY <1>1, <1>2, <2>1
<1>4. g[0] = base
  BY <1>1
<1>5. ASSUME NEW i \in 1..m PROVE g[i] = step[<<g[i - 1], i>>]
  <2>1. i \in 0..m /\ i - 1 \in 0..m /\ i - 1 # m /\ (i # m => i \in 1..(m - 1))
    OBVIOUS
  <2>2. g[i - 1] = f[i - 1] /\ g[i] = IF i = m THEN last ELSE f[i]
    BY <2>1
  <2> HIDE DEF g
  <2>3. CASE i = m
    BY <2>2, <2>3 DEF last
  <2>4. CASE i # m
    BY <1>1, <2>1, <2>2, <2>4
  <2>5. QED
    BY <2>3, <2>4
<1>6. QED
  BY <1>3, <1>4, <1>5 DEF Solves

\* Hence the function a recursive definition chooses satisfies it.
LEMMA RecursionHasASolution ==
    ASSUME NEW T, NEW base \in T, NEW n \in Nat, NEW step \in [T \X (1..n) -> T]
    PROVE  \E f : Solves(f, n, T, base, step)
<1> DEFINE Unsolved == {m \in 0..n : ~\E f : Solves(f, m, T, base, step)}
<1>1. SUFFICES ASSUME Unsolved # {} PROVE FALSE
  BY n \in 0..n
<1>2. Unsolved \in SUBSET Nat
  OBVIOUS
<1>3. \E m \in Unsolved : \A k \in Unsolved : m <= k
  <2> HIDE DEF Unsolved
  <2>1. QED
    BY <1>1, <1>2, LeastNat
<1>4. PICK m \in Unsolved : \A k \in Unsolved : m <= k
  BY <1>3
<1>5. m # 0
  <2>1. [i \in 0..0 |-> base] \in [0..0 -> T] /\ [i \in 0..0 |-> base][0] = base
    OBVIOUS
  <2>2. Solves([i \in 0..0 |-> base], 0, T, base, step)
    BY <2>1 DEF Solves
  <2>3. QED
    BY <2>2, <1>4
<1>6. m \in 1..n /\ m - 1 \in 0..n /\ ~(m <= m - 1)
  BY <1>4, <1>5
<1>7. PICK f : Solves(f, m - 1, T, base, step)
  BY <1>4, <1>6
<1>8. \E g : Solves(g, m, T, base, step)
  BY <1>6, <1>7, SolutionGrows
<1>9. QED
  BY <1>4, <1>8

\* An injection between finite sets of one size is onto.
LEMMA InjectionOnto ==
    ASSUME NEW S, NEW T, NEW f \in [S -> T], IsFiniteSet(T), IsFiniteSet(S), Cardinality(S) = Cardinality(T),
           \A a, b \in S : f[a] = f[b] => a = b
    PROVE  \A t \in T : \E a \in S : f[a] = t
<1>1. f \in Injection(S, T)
  BY DEF Injection, IsInjective
<1>2. f \in Surjection(S, T)
  BY <1>1, FS_Injection
<1>3. QED
  BY <1>2 DEF Surjection

LEMMA MinOneOfTwo ==
    ASSUME NEW a \in Nat, NEW b \in Nat
    PROVE  Min({a, b}) = IF a <= b THEN a ELSE b
<1>1. \E x \in {a, b} : \A y \in {a, b} : x <= y
  OBVIOUS
<1>2. Min({a, b}) \in {a, b} /\ \A y \in {a, b} : Min({a, b}) <= y
  BY <1>1 DEF Min
<1>3. QED
  BY <1>2

-----------------------------------------------------------------------------
(* The rules, evaluated over the networks in the order they are listed.    *)

\* What the first i networks leave is the one with the longest prefix.
LEMMA ResolveNetworkIs ==
    ASSUME NEW c \in Client, NEW known \in SUBSET Network, NEW order \in Seq(Network)
    PROVE  LET r == ResolveNetwork(c, known, order) IN
           \/ /\ r = NoNet
              /\ \A i \in 1..Len(order) : order[i] \in known => Prefix[c][order[i]] = NoMatch
           \/ /\ r \in known /\ Prefix[c][r] # NoMatch
              /\ \A i \in 1..Len(order) : order[i] \in known => Prefix[c][order[i]] <= Prefix[c][r]
<1> DEFINE n == Len(order)
           T == Network \cup {NoNet}
           next(m, i) == IF order[i] \in known /\ Better(c, m, order[i]) THEN order[i] ELSE m
           Fix(g) == g = [i \in 0..n |-> IF i = 0 THEN NoNet
                                         ELSE IF order[i] \in known /\ Better(c, g[i - 1], order[i]) THEN order[i]
                                         ELSE g[i - 1]]
           best == CHOOSE g : Fix(g)
<1>1. n \in Nat /\ \A i \in 1..n : order[i] \in Network
  BY LenProperties, ElementOfSeq
<1>2. ResolveNetwork(c, known, order) = best[n]
  BY DEF ResolveNetwork
<1> DEFINE step == [x \in T \X (1..n) |-> next(x[1], x[2])]
<1>3. step \in [T \X (1..n) -> T]
  BY <1>1
<1>4. PICK f : Solves(f, n, T, NoNet, step)
  <2>1. NoNet \in T /\ n \in Nat
    BY <1>1
  <2> HIDE DEF step, n, T
  <2>2. QED
    BY <1>3, <2>1, RecursionHasASolution
<1>5. Fix(f)
  <2>1. \A i \in 0..n : i # 0 => i \in 1..n /\ i - 1 \in 0..n
    BY <1>1
  <2>0. f \in [0..n -> T] /\ f[0] = NoNet /\ \A i \in 1..n : f[i] = step[<<f[i - 1], i>>]
    BY <1>4 DEF Solves
  <2>2. ASSUME NEW i \in 1..n PROVE f[i] = next(f[i - 1], i)
    <3> DEFINE x == <<f[i - 1], i>>
    <3>1. i - 1 \in 0..n
      BY <1>1
    <3>2. f[i - 1] \in T
      BY <2>0, <3>1
    <3>3. x \in T \X (1..n) /\ x[1] = f[i - 1] /\ x[2] = i
      BY <3>2
    <3> HIDE DEF x, T
    <3>4. step[x] = next(x[1], x[2])
      BY <3>3
    <3> HIDE DEF step
    <3>5. f[i] = step[x]
      BY <2>0 DEF x
    <3>6. QED
      BY <3>3, <3>4, <3>5
  <2>3. \A i \in 0..n : f[i] = IF i = 0 THEN NoNet
                               ELSE IF order[i] \in known /\ Better(c, f[i - 1], order[i]) THEN order[i]
                               ELSE f[i - 1]
    BY <2>0, <2>1, <2>2
  <2>4. f = [i \in 0..n |-> f[i]]
    BY <2>0
  <2>5. f = [i \in 0..n |-> IF i = 0 THEN NoNet
                            ELSE IF order[i] \in known /\ Better(c, f[i - 1], order[i]) THEN order[i]
                            ELSE f[i - 1]]
    <3> HIDE DEF n
    <3>1. QED
      BY <2>3, <2>4
  <2>6. QED
    BY <2>5
<1>6. Fix(best)
  <2> HIDE DEF Fix
  <2>1. QED
    BY <1>5
<1>7. /\ best[0] = NoNet
      /\ \A i \in 1..n : best[i] = IF order[i] \in known /\ Better(c, best[i - 1], order[i]) THEN order[i]
                                   ELSE best[i - 1]
  <2>1. 0 \in 0..n /\ \A i \in 1..n : i \in 0..n /\ i # 0
    BY <1>1
  <2> HIDE DEF best, n
  <2>2. QED
    BY <1>6, <2>1
<1> HIDE DEF best, Fix, step
<1> DEFINE Longest_(m, i) ==
             \/ m = NoNet /\ \A k \in 1..i : order[k] \in known => Prefix[c][order[k]] = NoMatch
             \/ /\ m \in known /\ Prefix[c][m] # NoMatch
                /\ \A k \in 1..i : order[k] \in known => Prefix[c][order[k]] <= Prefix[c][m]
           Wrong == {i \in 0..n : ~Longest_(best[i], i)}
<1>8. Wrong = {}
  <2>1. SUFFICES ASSUME Wrong # {} PROVE FALSE
    OBVIOUS
  <2>2. PICK i \in Wrong : \A k \in Wrong : i <= k
    <3>1. Wrong \in SUBSET Nat
      BY <1>1
    <3> HIDE DEF Wrong
    <3>2. QED
      BY <2>1, <3>1, LeastNat
  <2>3. i # 0
    <3>1. Longest_(best[0], 0)
      BY <1>7
    <3>2. QED
      BY <2>2, <3>1
  <2>4. i \in 1..n /\ i - 1 \in 0..n /\ ~(i <= i - 1)
    BY <2>2, <2>3, <1>1
  <2>5. Longest_(best[i - 1], i - 1)
    <3>1. i - 1 \notin Wrong
      BY <2>2, <2>4
    <3> HIDE DEF Longest_
    <3>2. QED
      BY <2>4, <3>1
  <2>6. ~Longest_(best[i], i)
    BY <2>2
  <2>7. \A k \in 1..i : k # i => k \in 1..(i - 1)
    BY <2>4
  <2>8. Prefix[c] \in [Network -> Nat \cup {NoMatch}] /\ NoNet \notin Network /\ NoMatch = -1
    BY ReadingsAssumption DEF NoMatch
  <2>9. order[i] \in Network /\ best[i] = IF order[i] \in known /\ Better(c, best[i - 1], order[i]) THEN order[i]
                                          ELSE best[i - 1]
    BY <1>1, <1>7, <2>4
  <2>10. ASSUME NEW k \in 1..i, order[k] \in known PROVE Prefix[c][order[k]] \in Nat \cup {-1}
    BY <2>8, <2>10
  <2>11. CASE order[i] \in known /\ Better(c, best[i - 1], order[i])
    <3>1. best[i] = order[i]
      BY <2>9, <2>11
    <3>2. Prefix[c][order[i]] # NoMatch /\ \A k \in 1..(i - 1) : order[k] \in known => Prefix[c][order[k]] <= Prefix[c][order[i]]
      BY <2>5, <2>8, <2>9, <2>11 DEF Better
    <3>3. Longest_(order[i], i)
      BY <3>2, <2>7, <2>10, <2>11, <2>4
    <3>4. QED
      BY <3>1, <3>3, <2>6
  <2>12. CASE ~(order[i] \in known /\ Better(c, best[i - 1], order[i]))
    <3>1. best[i] = best[i - 1]
      BY <2>9, <2>12
    <3>2. Longest_(best[i - 1], i)
      <4>1. CASE best[i - 1] = NoNet
        <5>1. \A k \in 1..(i - 1) : order[k] \in known => Prefix[c][order[k]] = NoMatch
          BY <2>5, <2>8, <4>1
        <5>2. order[i] \in known => Prefix[c][order[i]] = NoMatch
          BY <2>8, <2>9, <2>12, <4>1 DEF Better
        <5>3. QED
          BY <5>1, <5>2, <2>7, <4>1
      <4>2. CASE best[i - 1] # NoNet
        <5>1. /\ best[i - 1] \in known /\ Prefix[c][best[i - 1]] # NoMatch
              /\ \A k \in 1..(i - 1) : order[k] \in known => Prefix[c][order[k]] <= Prefix[c][best[i - 1]]
          BY <2>5, <4>2
        <5>2. order[i] \in known => Prefix[c][order[i]] <= Prefix[c][best[i - 1]]
          BY <2>8, <2>9, <2>12, <4>2, <5>1 DEF Better
        <5>3. QED
          BY <5>1, <5>2, <2>7
      <4>3. QED
        BY <4>1, <4>2
    <3>3. QED
      BY <3>1, <3>2, <2>6
  <2>13. QED
    BY <2>11, <2>12
<1>9. Longest_(best[n], n)
  <2>1. n \in 0..n
    BY <1>1
  <2> HIDE DEF Longest_
  <2>2. QED
    BY <1>8, <2>1
<1>10. QED
  BY <1>2, <1>9

\* The network of a client by its address, whatever order they are listed in.
LEMMA OrderIsListing ==
    ASSUME NEW order \in Orders
    PROVE  order \in Seq(Network) /\ \A n \in Network : \E i \in 1..Len(order) : order[i] = n
<1> DEFINE D == 1..Cardinality(Network)
<1>1. IsFiniteSet(Network)
  BY ReadingsAssumption
<1>2. Cardinality(Network) \in Nat
  BY <1>1, FS_CardinalityType
<1>3. order \in [D -> Network] /\ \A i, j \in D : i # j => order[i] # order[j]
  BY DEF Orders, SetToSeqs
<1>4. IsFiniteSet(D) /\ Cardinality(D) = Cardinality(Network)
  BY <1>2, FS_Interval
<1>5. order \in Seq(Network) /\ Len(order) = Cardinality(Network)
  BY <1>2, <1>3, SeqDef
<1>6. \A n \in Network : \E i \in D : order[i] = n
  <2> HIDE DEF D
  <2>1. QED
    BY <1>1, <1>3, <1>4, InjectionOnto
<1>7. QED
  BY <1>5, <1>6

LEMMA ResolvedIsLongest ==
    ASSUME NEW c \in Client, NEW known \in SUBSET Network, NEW order \in Orders
    PROVE  LET r == ResolveNetwork(c, known, order)
           IN  r \in known \cup {NoNet} /\ Longest(c, known) = {r} \ {NoNet}
<1> DEFINE r == ResolveNetwork(c, known, order)
<1>1. order \in Seq(Network) /\ \A n \in Network : \E i \in 1..Len(order) : order[i] = n
  BY OrderIsListing
<1>2. \/ /\ r = NoNet
         /\ \A i \in 1..Len(order) : order[i] \in known => Prefix[c][order[i]] = NoMatch
      \/ /\ r \in known /\ Prefix[c][r] # NoMatch
         /\ \A i \in 1..Len(order) : order[i] \in known => Prefix[c][order[i]] <= Prefix[c][r]
  BY <1>1, ResolveNetworkIs
<1> HIDE DEF r
<1>3. /\ Prefix[c] \in [Network -> Nat \cup {NoMatch}] /\ NoNet \notin Network /\ NoMatch = -1
      /\ \A m, n \in Network : m # n /\ Prefix[c][m] = Prefix[c][n] => Prefix[c][m] = NoMatch
  BY ReadingsAssumption DEF NoMatch
<1>4. CASE r = NoNet /\ \A n \in known : Prefix[c][n] = NoMatch
  <2>1. Longest(c, known) = {}
    BY <1>4 DEF Longest
  <2>2. {r} \ {NoNet} = {}
    BY <1>4
  <2>3. r \in known \cup {NoNet}
    BY <1>4
  <2>4. QED
    BY <2>1, <2>2, <2>3 DEF r
<1>5. CASE /\ r \in known /\ Prefix[c][r] # NoMatch
           /\ \A n \in known : Prefix[c][n] <= Prefix[c][r]
  <2>1. r \in Longest(c, known) /\ r # NoNet
    BY <1>3, <1>5 DEF Longest
  <2>2. ASSUME NEW n \in Longest(c, known) PROVE n = r
    <3>1. n \in known /\ n \in Network /\ r \in Network /\ Prefix[c][r] <= Prefix[c][n] /\ Prefix[c][n] <= Prefix[c][r]
      BY <1>5 DEF Longest
    <3>2. Prefix[c][n] \in Int /\ Prefix[c][r] \in Int
      BY <1>3, <3>1
    <3>3. Prefix[c][n] = Prefix[c][r]
      BY <3>1, <3>2
    <3>4. QED
      BY <1>3, <1>5, <3>1, <3>3
  <2>3. Longest(c, known) = {r}
    BY <2>1, <2>2
  <2>4. {r} \ {NoNet} = {r} /\ r \in known \cup {NoNet}
    BY <1>5, <2>1
  <2>5. QED
    BY <2>3, <2>4 DEF r
<1>6. QED
  BY <1>1, <1>2, <1>4, <1>5 DEF r

LEMMA NetsIs ==
    ASSUME NEW c \in Client, NEW enriched, NEW known \in SUBSET Network, NEW order \in Orders
    PROVE  Nets(c, enriched, known) = {NetworkOf(c, enriched, known, order)} \ {NoNet}
<1> DEFINE r == ResolveNetwork(c, known, order)
<1>1. Longest(c, known) = {r} \ {NoNet}
  BY ResolvedIsLongest
<1> HIDE DEF r
<1>2. NetworkOf(c, enriched, known, order) = IF r # NoNet THEN r ELSE IF c \in enriched THEN Assigned[c] ELSE NoNet
  BY DEF NetworkOf, r
<1>3. CASE r # NoNet
  BY <1>1, <1>2, <1>3 DEF Nets
<1>4. CASE r = NoNet
  BY <1>1, <1>2, <1>4 DEF Nets
<1>5. QED
  BY <1>3, <1>4

\* The rules evaluated in their order, and the rules without one.
LEMMA KeepsTheAdmitted ==
    ASSUME NEW filter \in Filters, NEW c \in Client, NEW enriched, NEW known \in SUBSET Network,
           NEW order \in Orders
    PROVE  Keep(filter, c, enriched, known, order) <=> Admitted(filter, c, enriched, known)
<1> DEFINE net == NetworkOf(c, enriched, known, order)
           nets == Nets(c, enriched, known)
           ssid == IF c \in enriched THEN Attr[c].ssid ELSE ""
<1>1. nets = {net} \ {NoNet}
  BY NetsIs
<1>2. "" \notin filter.ssids
  BY FiltersAssumption
<1> HIDE DEF net, nets
<1>3. (filter.ssids = {} \/ ssid \in filter.ssids)
      <=> ~(filter.ssids # {} /\ ~(c \in enriched /\ Attr[c].ssid \in filter.ssids))
  BY <1>2
<1>4. /\ (filter.networks # {} \/ filter.vlans # {} => net # NoNet)
      /\ (filter.networks = {} \/ net \in filter.networks)
      /\ (filter.vlans # {} => Vlan[net] \in filter.vlans)
      <=> /\ ~(filter.networks # {} /\ nets \cap filter.networks = {})
          /\ ~(filter.vlans # {} /\ {Vlan[n] : n \in nets} \cap filter.vlans = {})
  <2>1. CASE net = NoNet
    BY <1>1, <2>1
  <2>2. CASE net # NoNet
    <3>1. nets = {net}
      BY <1>1, <2>2
    <3>2. (nets \cap filter.networks = {}) <=> net \notin filter.networks
      BY <3>1
    <3>3. ({Vlan[n] : n \in nets} \cap filter.vlans = {}) <=> Vlan[net] \notin filter.vlans
      BY <3>1
    <3>4. QED
      BY <2>2, <3>2, <3>3
  <2>3. QED
    BY <2>1, <2>2
<1>5. (filter.types = {} \/ Attr[c].type \in filter.types) <=> ~(filter.types # {} /\ Attr[c].type \notin filter.types)
  OBVIOUS
<1> HIDE DEF ssid
<1>6. Keep(filter, c, enriched, known, order) <=>
        /\ ~(Attr[c].mac /\ c \in filter.exclude)
        /\ \/ filter.include # {} /\ Attr[c].mac /\ c \in filter.include
           \/ /\ filter.include = {}
              /\ ~(filter.guests /\ Attr[c].guest)
              /\ filter.types = {} \/ Attr[c].type \in filter.types
              /\ (filter.networks # {} \/ filter.vlans # {} => net # NoNet)
              /\ filter.networks = {} \/ net \in filter.networks
              /\ (filter.vlans # {} => Vlan[net] \in filter.vlans)
              /\ filter.ssids = {} \/ ssid \in filter.ssids
  BY DEF Keep, net, ssid
<1>7. Admitted(filter, c, enriched, known) <=>
        /\ ~(Attr[c].mac /\ c \in filter.exclude)
        /\ IF filter.include # {} THEN Attr[c].mac /\ c \in filter.include
           ELSE /\ ~(filter.guests /\ Attr[c].guest)
                /\ ~(filter.types # {} /\ Attr[c].type \notin filter.types)
                /\ ~(filter.networks # {} /\ nets \cap filter.networks = {})
                /\ ~(filter.vlans # {} /\ {Vlan[n] : n \in nets} \cap filter.vlans = {})
                /\ ~(filter.ssids # {} /\ ~(c \in enriched /\ Attr[c].ssid \in filter.ssids))
  BY DEF Admitted, nets
<1>8. QED
  BY <1>3, <1>4, <1>5, <1>6, <1>7

-----------------------------------------------------------------------------
(* Sorting by places. Of a list that holds nothing twice, a position's     *)
(* place is one more than the number of keys before its own; places are    *)
(* handed out once each.                                                   *)

Below(s, I, i) == {k \in I : Precedes(s, k, i)}

LEMMA PrecedesIs ==
    ASSUME NEW s \in Seq(Client), IsInjective(s), NEW i \in DOMAIN s, NEW k \in DOMAIN s
    PROVE  /\ Precedes(s, i, k) <=> Rank[s[i]] < Rank[s[k]]
           /\ Rank[s[i]] \in Nat
           /\ Rank[s[i]] = Rank[s[k]] => i = k
<1>1. DOMAIN s = 1..Len(s) /\ Len(s) \in Nat /\ s[i] \in Client /\ s[k] \in Client
  BY LenProperties, ElementOfSeq
<1>2. s[i] = s[k] => i = k
  BY DEF IsInjective
<1>3. Rank \in [Client -> Nat] /\ (Rank[s[i]] = Rank[s[k]] => s[i] = s[k])
  BY <1>1, ReadingsAssumption DEF IsInjective
<1>4. Rank[s[i]] \in Nat /\ Rank[s[k]] \in Nat /\ i \in Nat /\ k \in Nat
  BY <1>1, <1>3
<1>5. ~(s[i] = s[k] /\ i < k)
  BY <1>2, <1>4
<1>6. QED
  BY <1>2, <1>3, <1>4, <1>5 DEF Precedes

LEMMA PositionsFinite ==
    ASSUME NEW s \in Seq(Client), NEW I \in SUBSET DOMAIN s
    PROVE  IsFiniteSet(I) /\ Cardinality(I) \in Nat /\ DOMAIN s = 1..Len(s) /\ Len(s) \in Nat
<1>1. DOMAIN s = 1..Len(s) /\ Len(s) \in Nat
  BY LenProperties
<1>2. IsFiniteSet(1..Len(s))
  BY <1>1, FS_Interval
<1>3. IsFiniteSet(I)
  BY <1>1, <1>2, FS_Subset
<1>4. QED
  BY <1>1, <1>3, FS_CardinalityType

LEMMA BelowIs ==
    ASSUME NEW s \in Seq(Client), IsInjective(s), NEW I \in SUBSET DOMAIN s, NEW i \in I
    PROVE  /\ IsFiniteSet(Below(s, I, i)) /\ Cardinality(Below(s, I, i)) \in Nat
           /\ Cardinality(Below(s, I, i)) < Cardinality(I)
           /\ \A k \in I : Rank[s[i]] < Rank[s[k]] => Cardinality(Below(s, I, i)) < Cardinality(Below(s, I, k))
<1>1. IsFiniteSet(I) /\ Cardinality(I) \in Nat
  BY PositionsFinite
<1>2. \A a, b \in I : /\ Precedes(s, a, b) <=> Rank[s[a]] < Rank[s[b]]
                      /\ Rank[s[a]] \in Nat
  BY PrecedesIs
<1> DEFINE B(x) == Below(s, I, x)
<1>3. \A x \in I : B(x) \subseteq I /\ x \notin B(x)
  BY <1>2 DEF Below
<1>4. \A x \in I : IsFiniteSet(B(x)) /\ Cardinality(B(x)) \in Nat
  BY <1>1, <1>3, FS_Subset, FS_CardinalityType
\* Whatever contains B(i) and i is larger than B(i).
<1>5. ASSUME NEW Z \in SUBSET I, B(i) \subseteq Z, i \in Z
      PROVE  Cardinality(B(i)) < Cardinality(Z)
  <2>1. IsFiniteSet(Z) /\ Cardinality(Z) \in Nat
    BY <1>1, FS_Subset, FS_CardinalityType
  <2>2. Cardinality(B(i)) <= Cardinality(Z) /\ (Cardinality(Z) = Cardinality(B(i)) => Z = B(i))
    BY <1>5, <2>1, FS_Subset
  <2>3. Cardinality(B(i)) # Cardinality(Z)
    BY <1>3, <1>5, <2>2
  <2>4. QED
    BY <1>4, <2>1, <2>2, <2>3
<1>6. Cardinality(B(i)) < Cardinality(I)
  BY <1>3, <1>5
<1>7. ASSUME NEW k \in I, Rank[s[i]] < Rank[s[k]]
      PROVE  Cardinality(B(i)) < Cardinality(B(k))
  <2>1. i \in B(k) /\ B(i) \subseteq B(k)
    BY <1>2, <1>7 DEF Below
  <2>2. QED
    BY <1>3, <1>5, <2>1
<1>8. QED
  BY <1>4, <1>6, <1>7

LEMMA PlacesHandedOut ==
    ASSUME NEW s \in Seq(Client), IsInjective(s), NEW I \in SUBSET DOMAIN s
    PROVE  /\ \A i \in I : Place(s, I, i) \in 1..Cardinality(I) /\ Place(s, I, i) = Cardinality(Below(s, I, i)) + 1
           /\ \A i, k \in I : Place(s, I, i) = Place(s, I, k) => i = k
           /\ \A p \in 1..Cardinality(I) : \E i \in I : Place(s, I, i) = p
<1>1. IsFiniteSet(I) /\ Cardinality(I) \in Nat
  BY PositionsFinite
<1>2. \A i \in I : Place(s, I, i) = Cardinality(Below(s, I, i)) + 1
  BY DEF Place, Below
<1>3. \A i \in I : Place(s, I, i) \in 1..Cardinality(I)
  BY <1>1, <1>2, BelowIs
<1>4. ASSUME NEW i \in I, NEW k \in I, Place(s, I, i) = Place(s, I, k) PROVE i = k
  <2>1. Rank[s[i]] \in Nat /\ Rank[s[k]] \in Nat /\ (Rank[s[i]] = Rank[s[k]] => i = k)
    BY PrecedesIs
  <2>2. Cardinality(Below(s, I, i)) \in Nat /\ Cardinality(Below(s, I, k)) \in Nat
    BY BelowIs
  <2>3. Cardinality(Below(s, I, i)) = Cardinality(Below(s, I, k))
    BY <1>2, <1>4, <2>2
  <2>4. /\ Rank[s[i]] < Rank[s[k]] => Cardinality(Below(s, I, i)) < Cardinality(Below(s, I, k))
        /\ Rank[s[k]] < Rank[s[i]] => Cardinality(Below(s, I, k)) < Cardinality(Below(s, I, i))
    BY BelowIs
  <2>5. QED
    BY <2>1, <2>2, <2>3, <2>4
<1> DEFINE D == 1..Cardinality(I)
           f == [i \in I |-> Place(s, I, i)]
<1>5. f \in [I -> D] /\ \A a, b \in I : f[a] = f[b] => a = b
  BY <1>3, <1>4
<1>6. IsFiniteSet(D) /\ Cardinality(D) = Cardinality(I)
  BY <1>1, FS_Interval
<1>7. \A p \in D : \E i \in I : f[i] = p
  <2> HIDE DEF D, f
  <2>1. QED
    BY <1>1, <1>5, <1>6, InjectionOnto
<1>8. QED
  BY <1>2, <1>3, <1>4, <1>7

LEMMA SortedIs ==
    ASSUME NEW s \in Seq(Client), IsInjective(s), NEW I \in SUBSET DOMAIN s
    PROVE  /\ Sorted(s, I) \in Seq(Client) /\ Len(Sorted(s, I)) = Cardinality(I)
           /\ \A i \in I : Sorted(s, I)[Place(s, I, i)] = s[i]
<1> DEFINE n == Cardinality(I)
           at(p) == CHOOSE i \in I : Place(s, I, i) = p
<1>1. n \in Nat /\ \A i \in I : s[i] \in Client
  BY PositionsFinite, ElementOfSeq
<1>2. \A p \in 1..n : at(p) \in I /\ Place(s, I, at(p)) = p
  BY PlacesHandedOut
<1>3. \A i \in I : Place(s, I, i) \in 1..n /\ at(Place(s, I, i)) = i
  <2>1. \A i \in I : Place(s, I, i) \in 1..n
    BY PlacesHandedOut
  <2>2. \A i, k \in I : Place(s, I, i) = Place(s, I, k) => i = k
    BY PlacesHandedOut
  <2>3. QED
    BY <1>2, <2>1, <2>2
<1>4. Sorted(s, I) = [p \in 1..n |-> s[at(p)]]
  BY DEF Sorted
<1> HIDE DEF at, n
<1>5. Sorted(s, I) \in [1..n -> Client]
  BY <1>1, <1>2, <1>4
<1>6. Sorted(s, I) \in Seq(Client) /\ Len(Sorted(s, I)) = n
  BY <1>1, <1>5, SeqDef
<1>7. QED
  BY <1>3, <1>4, <1>6 DEF n

\* Keys before a key, and positions below its position, are as many.
LEMMA KeysBelow ==
    ASSUME NEW s \in Seq(Client), IsInjective(s), NEW I \in SUBSET DOMAIN s, NEW i \in I
    PROVE  Cardinality({d \in {s[k] : k \in I} : Rank[d] < Rank[s[i]]}) = Cardinality(Below(s, I, i))
<1> DEFINE B == Below(s, I, i)
           K == {d \in {s[k] : k \in I} : Rank[d] < Rank[s[i]]}
           f == [k \in B |-> s[k]]
<1>1. IsFiniteSet(B) /\ B \subseteq I
  BY BelowIs DEF Below
<1>2. \A k \in I : k \in B <=> Rank[s[k]] < Rank[s[i]]
  BY PrecedesIs DEF Below
<1>3. f \in [B -> K]
  BY <1>1, <1>2
<1>4. \A a, b \in B : f[a] = f[b] => a = b
  BY <1>1 DEF IsInjective
<1>5. \A d \in K : \E k \in B : f[k] = d
  BY <1>2
<1>6. f \in Bijection(B, K)
  <2> HIDE DEF B, K, f
  <2>1. DOMAIN f = B
    BY <1>3
  <2>2. QED
    BY <1>3, <1>4, <1>5, <2>1 DEF Bijection, Injection, Surjection, IsInjective
<1>7. Cardinality(K) = Cardinality(B)
  <2> HIDE DEF B, K, f
  <2>1. QED
    BY <1>1, <1>6, FS_Bijection DEF ExistsBijection
<1>8. QED
  BY <1>7

\* What is kept of a list is the first of its clients, by key.
LEMMA SortedAndCappedIs ==
    ASSUME NEW s \in Seq(Client), IsInjective(s), NEW I \in SUBSET DOMAIN s, NEW max \in Nat
    PROVE  ToSet(SortedAndCapped(s, I, max)) = First({s[i] : i \in I}, max)
<1> DEFINE n == Cardinality(I)
           t == Sorted(s, I)
           m == Min({Len(t), max})
           S == {s[i] : i \in I}
<1>1. n \in Nat
  BY PositionsFinite
<1>2. t \in Seq(Client) /\ Len(t) = n /\ \A i \in I : t[Place(s, I, i)] = s[i]
  BY SortedIs
<1>3. m \in Nat /\ \A p \in 1..n : p <= m <=> p <= max
  <2>1. Len(t) \in Nat /\ Len(t) = n
    BY <1>1, <1>2
  <2>2. m = IF Len(t) <= max THEN Len(t) ELSE max
    <3> HIDE DEF t
    <3>1. QED
      BY <2>1, MinOneOfTwo
  <2> HIDE DEF t, m, n
  <2>3. QED
    BY <1>1, <2>1, <2>2
<1>4. SortedAndCapped(s, I, max) = SubSeq(t, 1, m)
  BY DEF SortedAndCapped, Capped
<1>5. m <= n
  BY <1>1, <1>2, MinOfTwo
<1> HIDE DEF t, m
<1>6. ToSet(SubSeq(t, 1, m)) = {t[p] : p \in 1..m}
  <2> DEFINE u == SubSeq(t, 0 + 1, m)
  <2>1. u \in Seq(Client) /\ Len(u) = m /\ \A p \in 1..m : u[p] = t[p]
    BY <1>2, <1>3, <1>5, PrefixIs
  <2> HIDE DEF u
  <2>2. DOMAIN u = 1..m
    BY <2>1, LenProperties
  <2>3. ToSet(u) = {t[p] : p \in 1..m}
    BY <2>1, <2>2 DEF ToSet
  <2>4. QED
    BY <2>3, 0 + 1 = 1 DEF u
<1>7. {t[p] : p \in 1..m} = {s[i] : i \in {k \in I : Place(s, I, k) <= max}}
  <2>1. \A i \in I : Place(s, I, i) \in 1..n
    BY PlacesHandedOut
  <2>2. \A p \in 1..n : \E i \in I : Place(s, I, i) = p
    BY PlacesHandedOut
  <2>3. ASSUME NEW p \in 1..m PROVE \E i \in I : Place(s, I, i) <= max /\ t[p] = s[i]
    BY <1>1, <1>2, <1>3, <1>5, <2>2
  <2>4. ASSUME NEW i \in I, Place(s, I, i) <= max PROVE \E p \in 1..m : t[p] = s[i]
    BY <1>1, <1>2, <1>3, <2>1, <2>4
  <2>5. QED
    BY <2>3, <2>4
<1>8. ASSUME NEW i \in I
      PROVE  Place(s, I, i) <= max <=> Cardinality({d \in S : Rank[d] < Rank[s[i]]}) < max
  <2>1. Cardinality({d \in S : Rank[d] < Rank[s[i]]}) = Cardinality(Below(s, I, i))
    BY KeysBelow
  <2>2. Place(s, I, i) = Cardinality(Below(s, I, i)) + 1 /\ Cardinality(Below(s, I, i)) \in Nat
    BY PlacesHandedOut, BelowIs
  <2>3. QED
    BY <2>1, <2>2
<1>9. First(S, max) = {s[i] : i \in {k \in I : Place(s, I, k) <= max}}
  BY <1>8 DEF First
<1>10. QED
  BY <1>4, <1>6, <1>7, <1>9

-----------------------------------------------------------------------------
(* The selection.                                                          *)

\* In every state in which the clients have been selected, whatever order the
\* console lists them and the networks in.
LEMMA Orderless == ASSUME Typed PROVE SelectionOrderless
<1> DEFINE j == job["clients"]
<1>1. SUFFICES ASSUME j.stage = "selected", IsInjective(j.out), NEW filter \in Filters, NEW order \in Orders
               PROVE  ToSet(Kept(filter, order))
                        = First({c \in ToSet(j.out) : Admitted(filter, c, j.enriched, catalogue)}, filter.max)
  BY DEF SelectionOrderless
<1>2. "clients" \in Thread /\ Sound("clients", j)
  BY JobIs DEF Thread
<1>3. j.out \in Seq(Client) /\ catalogue \in SUBSET Network
  BY <1>2, MemberIs DEF Typed, TypeOK, Sound
<1>4. filter.max \in Nat
  BY FiltersAssumption
<1> HIDE DEF j
<1> DEFINE I == {i \in DOMAIN j.out : Keep(filter, j.out[i], j.enriched, catalogue, order)}
<1>5. ToSet(Kept(filter, order)) = First({j.out[i] : i \in I}, filter.max)
  <2>1. Kept(filter, order) = SortedAndCapped(j.out, I, filter.max)
    BY DEF Kept, Apply, j
  <2>2. I \in SUBSET DOMAIN j.out
    OBVIOUS
  <2> HIDE DEF I
  <2>3. QED
    BY <1>1, <1>3, <1>4, <2>1, <2>2, SortedAndCappedIs
<1>6. \A i \in DOMAIN j.out : j.out[i] \in Client
  BY <1>3, LenProperties, ElementOfSeq
<1>7. \A i \in DOMAIN j.out : Keep(filter, j.out[i], j.enriched, catalogue, order)
                              <=> Admitted(filter, j.out[i], j.enriched, catalogue)
  BY <1>3, <1>6, KeepsTheAdmitted
<1>8. {j.out[i] : i \in I} = {c \in ToSet(j.out) : Admitted(filter, c, j.enriched, catalogue)}
  BY <1>7 DEF ToSet
<1>9. QED
  BY <1>5, <1>8

\* What is published does not depend on the order in which the console lists
\* clients or networks: it is the first MAX, by key, of the clients the rules
\* admit, unless the list it read repeats one (filter.go:118-121).
THEOREM SelectionByTheRules == Spec => []SelectionOrderless
<1>1. Init => Typed
  BY InitTyped
<1>2. Typed /\ [Next]_vars => Typed'
  BY NextTyped
<1>3. Typed => SelectionOrderless
  BY Orderless
<1>4. QED
  BY <1>1, <1>2, <1>3, PTL DEF Spec

=============================================================================
