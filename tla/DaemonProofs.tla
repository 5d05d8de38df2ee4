---------------------------- MODULE DaemonProofs ----------------------------
(***************************************************************************)
(* Proofs about the two daemons whose threads share a table behind a lock: *)
(* SubThrottle, the subscription server, for every number of addresses and *)
(* workers, and HoneypotGuard, the honeypot, for every number of ports,    *)
(* connections and addresses; every limit of both is arbitrary.            *)
(*                                                                         *)
(* MissesBounded needs the requests that are still to be answered: MissInv *)
(* bounds the misses of an address together with its open requests.        *)
(* BlockKept needs to know that the table sees no less of Watched than its *)
(* history does: BlockInv compares the two.                                *)
(*                                                                         *)
(* LimitsHold is not inductive: it says nothing of the counters take()     *)
(* looks at.  GuardInv adds that the counters are the numbers of slots     *)
(* held and stay within the limits; the sockets that are open are among    *)
(* the slots that are held.                                                *)
(***************************************************************************)
EXTENDS SubThrottle, HoneypotGuard, FiniteSetTheorems, TLAPS

-----------------------------------------------------------------------------
(* The subscription server.                                                *)

LEMMA UptoInRange ==
  ASSUME NEW n \in Nat, NEW m \in Nat PROVE Upto(n, m) \in 0..m /\ Upto(n, m) <= n
  BY DEF Upto

LEMMA BucketTypes ==
  ASSUME ThrottleTypeOK, NEW a \in Ips
  PROVE  /\ BucketOf(a) \in Buckets
         /\ State(a) \in Buckets
         /\ State(a).misses = BucketOf(a).misses
         /\ State(a).left = BucketOf(a).left
  <1> USE LimitsAssumption
  <1>1. BucketOf(a) \in Buckets
    BY DEF ThrottleTypeOK, BucketOf, New, Buckets, Idle
  <1> DEFINE b == BucketOf(a)
             g == IF b.age >= Window THEN 0 ELSE b.age
             c == Upto((IF b.age >= Window THEN 0 ELSE b.count) + 1, RateLimit + 1)
  <1>2. g \in 0..Window /\ c \in 0..(RateLimit + 1)
    BY <1>1 DEF Upto, Buckets
  <1>3. State(a) = [b EXCEPT !.age = g, !.count = c]
    BY DEF State
  <1> HIDE DEF b, g, c
  <1>4. /\ [b EXCEPT !.age = g, !.count = c] \in Buckets
        /\ [b EXCEPT !.age = g, !.count = c].misses = b.misses
        /\ [b EXCEPT !.age = g, !.count = c].left = b.left
    BY <1>1, <1>2 DEF b, Buckets
  <1>5. QED
    BY <1>1, <1>3, <1>4 DEF b

LEMMA BlockTypes ==
  ASSUME NEW b \in Buckets
  PROVE  /\ BlockFor(b) \in Buckets /\ BlockFor(b).misses = b.misses
         /\ Judged(b) \in Buckets /\ Judged(b).misses \in {0, b.misses}
         /\ ~Refused(b) => Judged(b) = b
  <1> USE LimitsAssumption
  <1>1. ASSUME NEW c \in Buckets PROVE Penalty(c) \in 0..BlockMax
    BY DEF Penalty
  <1>2. [b EXCEPT !.offences = Upto(@ + 1, MaxOffences)] \in Buckets
    BY DEF Upto, Buckets
  <1>3. BlockFor(b) \in Buckets /\ BlockFor(b).misses = b.misses
    BY <1>1, <1>2 DEF BlockFor, Buckets
  <1>4. QED
    BY <1>3 DEF Judged, Buckets

\* The bucket that is put is seen now; the others are seen before it.
LEMMA PutSelf ==
  ASSUME NEW a \in Ips, NEW b \in Buckets
  PROVE  /\ a \in DOMAIN Put(a, b) /\ Put(a, b)[a] \in Buckets
         /\ Put(a, b)[a].misses = b.misses /\ Put(a, b)[a].left = b.left
         /\ Put(a, b)[a].idle = 0 /\ Put(a, b)[a].later = {}
  <1>1. 0 \in 0..(Idle + 1) /\ {} \in SUBSET Ips
    BY LimitsAssumption DEF Idle
  <1>2. ASSUME NEW z \in 0..(Idle + 1), NEW e \in SUBSET Ips
        PROVE  LET d == [b EXCEPT !.idle = z, !.later = e] IN
               /\ d \in Buckets /\ d.misses = b.misses /\ d.left = b.left
               /\ d.idle = z /\ d.later = e
    BY DEF Buckets
  <1> DEFINE now == [b EXCEPT !.idle = 0, !.later = {}]
  <1>3. a \in DOMAIN Put(a, b) /\ Put(a, b)[a] = now
    BY DEF Put
  <1>4. /\ now \in Buckets /\ now.misses = b.misses /\ now.left = b.left
        /\ now.idle = 0 /\ now.later = {}
    BY <1>1, <1>2
  <1> HIDE DEF now
  <1>5. QED
    BY <1>3, <1>4

LEMMA PutOther ==
  ASSUME ThrottleTypeOK, NEW a \in Ips, NEW b, NEW x \in Known, x # a
  PROVE  /\ x \in DOMAIN Put(a, b) /\ Put(a, b)[x] \in Buckets
         /\ Put(a, b)[x].misses = table[x].misses
         /\ Put(a, b)[x].left = table[x].left
         /\ Put(a, b)[x].idle = table[x].idle
         /\ Put(a, b)[x].later = table[x].later \cup {a}
  <1> DEFINE e == table[x].later \cup {a}
  <1>1. table[x] \in Buckets /\ e \in SUBSET Ips
    <2>1. table[x] \in Buckets
      BY DEF ThrottleTypeOK
    <2>2. table[x].later \in SUBSET Ips
      BY <2>1 DEF Buckets
    <2>3. QED
      BY <2>1, <2>2
  <1>2. x \in DOMAIN Put(a, b) /\ Put(a, b)[x] = [table[x] EXCEPT !.later = e]
    BY DEF Put
  <1> HIDE DEF e
  <1>3. LET d == [table[x] EXCEPT !.later = e] IN
        /\ d \in Buckets /\ d.misses = table[x].misses /\ d.left = table[x].left
        /\ d.idle = table[x].idle /\ d.later = e
    BY <1>1 DEF Buckets
  <1>4. QED
    BY <1>2, <1>3 DEF e

LEMMA PutTypes ==
  ASSUME ThrottleTypeOK, NEW a \in Ips, NEW b \in Buckets
  PROVE  /\ DOMAIN Put(a, b) = Known \cup {a}
         /\ DOMAIN Put(a, b) \subseteq Ips
         /\ \A x \in DOMAIN Put(a, b) : Put(a, b)[x] \in Buckets
  <1>1. DOMAIN Put(a, b) = Known \cup {a}
    BY DEF Put
  <1>2. Known \cup {a} \subseteq Ips
    BY DEF ThrottleTypeOK
  <1>3. ASSUME NEW x \in Known \cup {a} PROVE Put(a, b)[x] \in Buckets
    <2>1. CASE x = a
      BY <2>1, PutSelf
    <2>2. CASE x # a
      BY <1>3, <2>2, PutOther
    <2>3. QED
      BY <2>1, <2>2
  <1>4. QED
    BY <1>1, <1>2, <1>3

LEMMA PutMisses ==
  ASSUME ThrottleTypeOK, NEW a \in Ips, NEW b \in Buckets
  PROVE  \A x \in DOMAIN Put(a, b) :
             Put(a, b)[x].misses = IF x = a THEN b.misses ELSE BucketOf(x).misses
  <1> SUFFICES ASSUME NEW x \in Known \cup {a}
               PROVE  Put(a, b)[x].misses = IF x = a THEN b.misses ELSE BucketOf(x).misses
    BY PutTypes
  <1>1. CASE x = a
    BY <1>1, PutSelf
  <1>2. CASE x # a
    <2>1. x \in Known /\ BucketOf(x) = table[x]
      BY <1>2 DEF BucketOf
    <2>2. Put(a, b)[x].misses = table[x].misses
      BY <1>2, <2>1, PutOther
    <2>3. QED
      BY <1>2, <2>1, <2>2
  <1>3. QED
    BY <1>1, <1>2

LEMMA SweptTypes ==
  ASSUME NEW t
  PROVE  /\ DOMAIN Swept(t) = Latest(t) /\ Latest(t) \subseteq DOMAIN t
         /\ \A x \in Latest(t) : Swept(t)[x] = t[x]
  BY DEF Swept, Latest, Fresh

\* What every answered or counted request does to the two histories keeps
\* their shape.
LEMMA SeenTypes ==
  ASSUME ThrottleTypeOK, NEW a \in Ips, Seen(a)
  PROVE  silent' \in 0..(Idle + 1) /\ since' \subseteq Ips
  BY LimitsAssumption DEF ThrottleTypeOK, Seen, Idle

LEMMA UnblockedTypes ==
  ASSUME ThrottleTypeOK, Unblocked PROVE block' \in 0..BlockMax /\ asking' \in BOOLEAN
  <1>1. block' \in 0..BlockMax
    BY DEF ThrottleTypeOK, Unblocked
  <1>2. asking' \in BOOLEAN
    BY Zenon DEF ThrottleTypeOK, Unblocked
  <1>3. QED
    BY <1>1, <1>2

LEMMA OlderTypes ==
  ASSUME NEW b \in Buckets
  PROVE  /\ Older(b) \in Buckets /\ Older(b).misses = b.misses
         /\ Older(b).later = b.later /\ Older(b).left = Less(b.left)
         /\ Older(b).idle = Upto(b.idle + 1, Idle + 1)
  <1> DEFINE g == Upto(b.age + 1, Window)
             i == Upto(b.idle + 1, Idle + 1)
             l == Less(b.left)
  <1>1. g \in 0..Window /\ i \in 0..(Idle + 1) /\ l \in 0..BlockMax
    BY LimitsAssumption DEF Upto, Less, Buckets, Idle
  <1>2. Older(b) = [b EXCEPT !.age = g, !.idle = i, !.left = l]
    BY DEF Older
  <1> HIDE DEF g, i, l
  <1>3. [b EXCEPT !.age = g, !.idle = i, !.left = l] \in Buckets
    BY <1>1 DEF Buckets
  <1>4. QED
    BY <1>2, <1>3 DEF g, i, l, Buckets

LEMMA TypeStep == ThrottleTypeOK /\ [ThrottleNext]_throttleVars => ThrottleTypeOK'
  <1> SUFFICES ASSUME ThrottleTypeOK, [ThrottleNext]_throttleVars PROVE ThrottleTypeOK'
    OBVIOUS
  <1> USE SetsAssumption DEF Move, Places
  <1> DEFINE TableOK == Known \subseteq Ips /\ \A a \in Known : table[a] \in Buckets
             WorkersOK == place \in [Workers -> Places] /\ ip \in [Workers -> Ips]
             HistoryOK == /\ block \in 0..BlockMax /\ asking \in BOOLEAN
                          /\ silent \in 0..(Idle + 1) /\ since \subseteq Ips
  <1>0. (TableOK /\ WorkersOK /\ HistoryOK <=> ThrottleTypeOK)
        /\ (TableOK' /\ WorkersOK' /\ HistoryOK' => ThrottleTypeOK')
    BY DEF ThrottleTypeOK, Known
  <1> HIDE DEF TableOK, WorkersOK, HistoryOK
  <1>1. ASSUME NEW w \in Workers, NEW a \in Ips, Connect(w, a) PROVE ThrottleTypeOK'
    BY <1>1 DEF Connect, ThrottleTypeOK, Known, history
  <1>2. ASSUME NEW w \in Workers,
               BadRequest(w) \/ Payload(w) \/ Fails(w) \/ FreeSlot(w)
        PROVE ThrottleTypeOK'
    BY <1>2 DEF BadRequest, Payload, Fails, FreeSlot, ThrottleTypeOK, Known, history
  <1>3. ASSUME NEW w \in Workers, StillBlocked(w) PROVE ThrottleTypeOK'
    <2>1. ip[w] \in Ips /\ State(ip[w]) \in Buckets
      BY BucketTypes DEF ThrottleTypeOK
    <2>2. TableOK'
      BY <1>3, <2>1, PutTypes DEF StillBlocked, TableOK, Known
    <2>3. WorkersOK'
      BY <1>3 DEF StillBlocked, WorkersOK, ThrottleTypeOK
    <2>4. HistoryOK'
      BY <1>3, <2>1, SeenTypes, UnblockedTypes DEF StillBlocked, HistoryOK, Idle
    <2>5. QED
      BY <1>0, <2>2, <2>3, <2>4
  <1>4. ASSUME NEW w \in Workers, Throttled(w) PROVE ThrottleTypeOK'
    <2> DEFINE a == ip[w]
               b == State(a)
               t == Put(a, Judged(b))
    <2>1. a \in Ips /\ b \in Buckets /\ Judged(b) \in Buckets
      BY BucketTypes, BlockTypes DEF ThrottleTypeOK
    <2>2. TableOK'
      <3>1. table' = Swept(t)
        BY <1>4 DEF Throttled
      <3>2. DOMAIN t \subseteq Ips /\ \A x \in DOMAIN t : t[x] \in Buckets
        BY <2>1, PutTypes
      <3> HIDE DEF t
      <3>3. /\ DOMAIN Swept(t) \subseteq DOMAIN t
            /\ \A x \in DOMAIN Swept(t) : Swept(t)[x] = t[x]
        BY SweptTypes
      <3>4. QED
        BY <3>1, <3>2, <3>3 DEF TableOK, Known
    <2>3. WorkersOK'
      BY <1>4 DEF Throttled, WorkersOK, ThrottleTypeOK
    <2>4. block' \in 0..BlockMax /\ asking' \in BOOLEAN
      <3>1. Judged(b).left \in 0..BlockMax
        BY <2>1 DEF Buckets
      <3>2. \/ block' = Judged(b).left /\ asking' = TRUE
            \/ Unblocked
        BY <1>4 DEF Throttled, Blocks
      <3>3. QED
        BY <3>1, <3>2, UnblockedTypes
    <2>5. HistoryOK'
      BY <1>4, <2>1, <2>4, SeenTypes DEF Throttled, HistoryOK, Idle
    <2>6. QED
      BY <1>0, <2>2, <2>3, <2>5
  <1>5. ASSUME NEW w \in Workers, Miss(w) \/ PlainOk(w) PROVE ThrottleTypeOK'
    <2>1. ip[w] \in Ips /\ BucketOf(ip[w]) \in Buckets
      BY BucketTypes DEF ThrottleTypeOK
    <2>2. \E b \in Buckets : table' = Put(ip[w], b)
      <3>1. ASSUME NEW b \in Buckets
            PROVE  /\ [b EXCEPT !.misses = @ + 1] \in Buckets
                   /\ [b EXCEPT !.offences = 0, !.misses = 0] \in Buckets
        <4>1. 0 \in 0..MaxOffences /\ b.misses + 1 \in Nat
          BY LimitsAssumption DEF Buckets
        <4>2. ASSUME NEW o \in 0..MaxOffences, NEW n \in Nat
              PROVE  /\ [b EXCEPT !.misses = n] \in Buckets
                     /\ [b EXCEPT !.offences = o, !.misses = n] \in Buckets
          BY DEF Buckets
        <4>3. QED
          BY <4>1, <4>2
      <3>2. QED
        <4>1. CASE Miss(w)
          BY <2>1, <3>1, <4>1 DEF Miss
        <4>2. CASE PlainOk(w)
          <5> DEFINE b == BucketOf(ip[w])
          <5>1. table' = Put(ip[w], IF TooMany(b) THEN b
                                    ELSE [b EXCEPT !.offences = 0, !.misses = 0])
            BY <4>2 DEF PlainOk
          <5>2. QED
            BY <2>1, <3>1, <5>1
        <4>3. QED
          BY <1>5, <4>1, <4>2
    <2>3. TableOK'
      BY <2>1, <2>2, PutTypes DEF TableOK, Known
    <2>4. WorkersOK'
      BY <1>5 DEF Miss, PlainOk, WorkersOK, ThrottleTypeOK
    <2>5. HistoryOK'
      BY <1>5, <2>1, SeenTypes, UnblockedTypes DEF Miss, PlainOk, HistoryOK, Idle
    <2>6. QED
      BY <1>0, <2>3, <2>4, <2>5
  <1>6. ASSUME Tick PROVE ThrottleTypeOK'
    <2>1. TableOK'
      BY <1>6, OlderTypes DEF Tick, TableOK, ThrottleTypeOK, Known
    <2>2. asking' \in BOOLEAN
      BY <1>6, Zenon DEF Tick, ThrottleTypeOK
    <2>3. HistoryOK'
      BY <1>6, <2>2, LimitsAssumption DEF Tick, HistoryOK, ThrottleTypeOK, Less, Upto, Idle
    <2>4. WorkersOK'
      BY <1>6 DEF Tick, WorkersOK, ThrottleTypeOK
    <2>5. QED
      BY <1>0, <2>1, <2>3, <2>4
  <1>7. CASE UNCHANGED throttleVars
    BY <1>7 DEF throttleVars, ThrottleTypeOK, Known
  <1>8. QED
    BY <1>1, <1>2, <1>3, <1>4, <1>5, <1>6, <1>7 DEF ThrottleNext, Request

\* The shape of the table and of its history is kept by every step.
THEOREM TypeCorrect == ThrottleSpec => []ThrottleTypeOK
  <1>1. ThrottleInit => ThrottleTypeOK
    <2> SUFFICES ASSUME ThrottleInit PROVE ThrottleTypeOK
      OBVIOUS
    <2>1. asking \in BOOLEAN
      BY DEF ThrottleInit
    <2>2. QED
      BY <2>1, SetsAssumption, LimitsAssumption DEF ThrottleInit, ThrottleTypeOK, Places, Known, Idle
  <1>2. QED
    BY <1>1, TypeStep, PTL DEF ThrottleSpec
---------------------------------------------------------------------------
(* The misses of an address.                                               *)

MissInv ==
    \A a \in Known :
        table[a].misses + Cardinality(OpenOf(a)) < MissStep + Cardinality(Workers)

LEMMA OpenCount ==
  /\ Cardinality(Workers) \in Nat
  /\ \A a \in Ips : /\ IsFiniteSet(OpenOf(a))
                     /\ Cardinality(OpenOf(a)) \in Nat
                     /\ Cardinality(OpenOf(a)) <= Cardinality(Workers)
  <1>1. \A a \in Ips : OpenOf(a) \subseteq Workers
    BY DEF OpenOf, OpenWorkers
  <1>2. QED
    BY <1>1, SetsAssumption, FS_Subset, FS_CardinalityType

LEMMA OpenCountNext ==
  \A a \in Ips : /\ IsFiniteSet(OpenOf(a)')
                 /\ Cardinality(OpenOf(a)') \in Nat
                 /\ Cardinality(OpenOf(a)') <= Cardinality(Workers)
  <1>1. \A a \in Ips : OpenOf(a)' \subseteq Workers
    BY DEF OpenOf, OpenWorkers
  <1>2. QED
    BY <1>1, SetsAssumption, FS_Subset, FS_CardinalityType

\* An address the table does not know yet starts below the bound.
LEMMA MissBound ==
  ASSUME ThrottleTypeOK, MissInv, NEW a \in Ips
  PROVE  BucketOf(a).misses + Cardinality(OpenOf(a)) < MissStep + Cardinality(Workers)
  BY OpenCount, LimitsAssumption DEF ThrottleTypeOK, MissInv, BucketOf, New, Buckets

\* A step after which no address has more misses, or more open requests.
LEMMA MissUnchanged ==
  ASSUME ThrottleTypeOK, ThrottleTypeOK', MissInv,
         \A x \in Known' : table'[x].misses \in {0, BucketOf(x).misses},
         \A x \in Ips : OpenOf(x)' \subseteq OpenOf(x)
  PROVE  MissInv'
  <1> SUFFICES ASSUME NEW x \in Known'
               PROVE  table'[x].misses + Cardinality(OpenOf(x)')
                          < MissStep + Cardinality(Workers)
    BY DEF MissInv, OpenOf, OpenWorkers
  <1>1. x \in Ips /\ BucketOf(x).misses \in Nat
    BY BucketTypes DEF ThrottleTypeOK, Buckets
  <1>2. Cardinality(OpenOf(x)') <= Cardinality(OpenOf(x))
    BY <1>1, OpenCount, FS_Subset
  <1>3. table'[x].misses \in Nat /\ table'[x].misses <= BucketOf(x).misses
    BY <1>1
  <1>4. BucketOf(x).misses + Cardinality(OpenOf(x)) < MissStep + Cardinality(Workers)
    BY <1>1, MissBound
  <1> DEFINE n == BucketOf(x).misses
             m == table'[x].misses
             open == Cardinality(OpenOf(x))
             left == Cardinality(OpenOf(x)')
             slots == Cardinality(Workers)
  <1>5. /\ n \in Nat /\ m \in Nat /\ open \in Nat /\ left \in Nat /\ slots \in Nat
        /\ m <= n /\ left <= open /\ n + open < MissStep + slots
    BY <1>1, <1>2, <1>3, <1>4, OpenCount, OpenCountNext
  <1> HIDE DEF n, m, open, left, slots
  <1>6. m + left < MissStep + slots
    BY <1>5, LimitsAssumption
  <1>7. QED
    BY <1>6 DEF m, left, slots

LEMMA MissStepHolds ==
  ASSUME ThrottleTypeOK, ThrottleTypeOK', MissInv, [ThrottleNext]_throttleVars
  PROVE  MissInv'
  <1> USE DEF Move
  <1>1. ASSUME NEW w \in Workers, NEW a \in Ips, Connect(w, a) PROVE MissInv'
    <2>1. \A x \in Ips : OpenOf(x)' \subseteq OpenOf(x)
      BY <1>1 DEF Connect, OpenOf, OpenWorkers, ThrottleTypeOK
    <2>2. \A x \in Known' : table'[x].misses = BucketOf(x).misses
      BY <1>1 DEF Connect, BucketOf, Known
    <2>3. QED
      BY <2>1, <2>2, MissUnchanged
  <1>2. ASSUME NEW w \in Workers,
               BadRequest(w) \/ Payload(w) \/ Fails(w) \/ FreeSlot(w)
        PROVE MissInv'
    <2>1. \A x \in Ips : OpenOf(x)' \subseteq OpenOf(x)
      BY <1>2 DEF BadRequest, Payload, Fails, FreeSlot, OpenOf, OpenWorkers, ThrottleTypeOK
    <2>2. \A x \in Known' : table'[x].misses = BucketOf(x).misses
      BY <1>2 DEF BadRequest, Payload, Fails, FreeSlot, BucketOf, Known
    <2>3. QED
      BY <2>1, <2>2, MissUnchanged
  <1>3. ASSUME NEW w \in Workers, StillBlocked(w) PROVE MissInv'
    <2>1. \A x \in Ips : OpenOf(x)' \subseteq OpenOf(x)
      BY <1>3 DEF StillBlocked, OpenOf, OpenWorkers, ThrottleTypeOK
    <2>2. ip[w] \in Ips /\ State(ip[w]) \in Buckets
          /\ State(ip[w]).misses = BucketOf(ip[w]).misses
      BY BucketTypes DEF ThrottleTypeOK
    <2>3. table' = Put(ip[w], State(ip[w]))
      BY <1>3 DEF StillBlocked
    <2>4. \A x \in Known' : table'[x].misses = BucketOf(x).misses
      BY <2>2, <2>3, PutMisses DEF Known
    <2>5. QED
      BY <2>1, <2>4, MissUnchanged
  <1>4. ASSUME NEW w \in Workers, Throttled(w) PROVE MissInv'
    <2> DEFINE b == State(ip[w])
               t == Put(ip[w], Judged(b))
    <2>1. /\ ip[w] \in Ips /\ b \in Buckets /\ Judged(b) \in Buckets
          /\ b.misses = BucketOf(ip[w]).misses
          /\ Judged(b).misses \in {0, b.misses}
          /\ ~Refused(b) => Judged(b) = b
      BY BucketTypes, BlockTypes DEF ThrottleTypeOK
    <2>2. table' = Swept(t) /\ ip' = ip
      BY <1>4 DEF Throttled
    <2>3. \A x \in Known' : x \in DOMAIN t /\ table'[x] = t[x]
      BY <2>2, SweptTypes DEF Known
    <2>4. \A x \in DOMAIN t : x # ip[w] => t[x].misses = BucketOf(x).misses
      BY <2>1, PutMisses
    <2>5. t[ip[w]].misses = Judged(b).misses
      BY <2>1, PutSelf
    <2>6. CASE Refused(b)
      <3>1. \A x \in Ips : OpenOf(x)' \subseteq OpenOf(x)
        BY <1>4, <2>6 DEF Throttled, OpenOf, OpenWorkers, ThrottleTypeOK
      <3>2. \A x \in Known' : table'[x].misses \in {0, BucketOf(x).misses}
        BY <2>1, <2>3, <2>4, <2>5
      <3>3. QED
        BY <3>1, <3>2, MissUnchanged
    <2>7. CASE ~Refused(b)
      <3>1. \A x \in Ips : x # ip[w] => OpenOf(x)' = OpenOf(x)
        BY <1>4 DEF Throttled, OpenOf, OpenWorkers, ThrottleTypeOK
      <3>2. b.misses \in Nat /\ b.misses < MissStep
        BY <2>1, <2>7, LimitsAssumption DEF Refused, TooManyMisses, Buckets
      <3>3. ASSUME NEW x \in Known'
            PROVE  table'[x].misses + Cardinality(OpenOf(x)')
                       < MissStep + Cardinality(Workers)
        <4>1. x \in Ips
          BY DEF ThrottleTypeOK
        <4>2. CASE x = ip[w]
          <5>1. table'[x].misses = b.misses
            BY <2>1, <2>3, <2>5, <2>7, <4>2
          <5>2. QED
            BY <3>2, <4>1, <5>1, OpenCount, OpenCountNext, LimitsAssumption
        <4>3. CASE x # ip[w]
          <5>1. table'[x].misses = BucketOf(x).misses
            BY <2>3, <2>4, <4>3
          <5>2. OpenOf(x)' = OpenOf(x)
            BY <3>1, <4>1, <4>3
          <5>3. QED
            BY <4>1, <5>1, <5>2, MissBound
        <4>4. QED
          BY <4>2, <4>3
      <3>4. QED
        BY <3>3 DEF MissInv
    <2>8. QED
      BY <2>6, <2>7
  <1>5. ASSUME NEW w \in Workers, Miss(w) PROVE MissInv'
    <2> DEFINE b == [BucketOf(ip[w]) EXCEPT !.misses = @ + 1]
    <2>1. ip[w] \in Ips /\ BucketOf(ip[w]) \in Buckets
      BY BucketTypes DEF ThrottleTypeOK
    <2>2. b \in Buckets /\ b.misses = BucketOf(ip[w]).misses + 1
      BY <2>1 DEF Buckets
    <2>3. table' = Put(ip[w], b) /\ ip' = ip
      BY <1>5 DEF Miss
    <2> HIDE DEF b
    <2>4. /\ w \in OpenOf(ip[w])
          /\ \A x \in Ips : OpenOf(x)' = OpenOf(x) \ {w}
      BY <1>5, <2>1 DEF Miss, OpenOf, OpenWorkers, ThrottleTypeOK
    <2>5. ASSUME NEW x \in Known'
          PROVE  table'[x].misses + Cardinality(OpenOf(x)')
                     < MissStep + Cardinality(Workers)
      <3>1. x \in Ips /\ OpenOf(x)' = OpenOf(x) \ {w}
        BY <2>4 DEF ThrottleTypeOK
      <3>2. BucketOf(x).misses \in Nat
        BY <3>1, BucketTypes DEF Buckets
      <3>3. CASE x = ip[w]
        <4>1. table'[x].misses = BucketOf(x).misses + 1
          BY <2>1, <2>2, <2>3, <3>3, PutSelf
        <4>2. Cardinality(OpenOf(x)') = Cardinality(OpenOf(x)) - 1
          BY <2>4, <3>1, <3>3, OpenCount, FS_RemoveElement
        <4>3. QED
          BY <3>1, <3>2, <4>1, <4>2, OpenCount, MissBound
      <3>4. CASE x # ip[w]
        <4>1. table'[x].misses = BucketOf(x).misses
          BY <2>1, <2>2, <2>3, <3>4, PutMisses DEF Known
        <4>2. w \notin OpenOf(x)
          BY <3>4 DEF OpenOf
        <4>3. OpenOf(x)' = OpenOf(x)
          BY <3>1, <4>2
        <4>4. QED
          BY <3>1, <4>1, <4>3, MissBound
      <3>5. QED
        BY <3>3, <3>4
    <2>6. QED
      BY <2>5 DEF MissInv
  <1>6. ASSUME NEW w \in Workers, PlainOk(w) PROVE MissInv'
    <2> DEFINE b == BucketOf(ip[w])
               c == IF TooMany(b) THEN b ELSE [b EXCEPT !.offences = 0, !.misses = 0]
    <2>1. ip[w] \in Ips /\ b \in Buckets
      BY BucketTypes DEF ThrottleTypeOK
    <2>2. c \in Buckets /\ c.misses \in {0, b.misses}
      <3>1. 0 \in 0..MaxOffences
        BY LimitsAssumption
      <3>2. ASSUME NEW o \in 0..MaxOffences
            PROVE  LET d == [b EXCEPT !.offences = o, !.misses = 0] IN
                   d \in Buckets /\ d.misses = 0
        BY <2>1 DEF Buckets
      <3>3. QED
        BY <2>1, <3>1, <3>2
    <2>3. table' = Put(ip[w], c)
      BY <1>6 DEF PlainOk
    <2> HIDE DEF c
    <2>4. \A x \in Known' : table'[x].misses \in {0, BucketOf(x).misses}
      BY <2>1, <2>2, <2>3, PutMisses DEF Known
    <2>5. \A x \in Ips : OpenOf(x)' \subseteq OpenOf(x)
      BY <1>6 DEF PlainOk, OpenOf, OpenWorkers, ThrottleTypeOK
    <2>6. QED
      BY <2>4, <2>5, MissUnchanged
  <1>7. CASE Tick
    <2>1. \A x \in Known' : table'[x].misses = BucketOf(x).misses
      BY <1>7, OlderTypes DEF Tick, Known, BucketOf, ThrottleTypeOK
    <2>2. \A x \in Ips : OpenOf(x)' \subseteq OpenOf(x)
      BY <1>7 DEF Tick, OpenOf, OpenWorkers
    <2>3. QED
      BY <2>1, <2>2, MissUnchanged
  <1>8. CASE UNCHANGED throttleVars
    <2>1. \A x \in Known' : table'[x].misses = BucketOf(x).misses
      BY <1>8 DEF throttleVars, Known, BucketOf
    <2>2. \A x \in Ips : OpenOf(x)' \subseteq OpenOf(x)
      BY <1>8 DEF throttleVars, OpenOf, OpenWorkers
    <2>3. QED
      BY <2>1, <2>2, MissUnchanged
  <1>9. QED
    BY <1>1, <1>2, <1>3, <1>4, <1>5, <1>6, <1>7, <1>8 DEF ThrottleNext, Request

\* However many workers are between the check and the count, the misses of an
\* address never reach the step by more than the slots allow.
THEOREM MissesStayBounded == ThrottleSpec => []MissesBounded
  <1>1. ThrottleInit => MissInv
    BY DEF ThrottleInit, MissInv, Known
  <1>2. ThrottleTypeOK /\ ThrottleTypeOK' /\ MissInv /\ [ThrottleNext]_throttleVars => MissInv'
    BY MissStepHolds
  <1>3. ThrottleTypeOK /\ MissInv => MissesBounded
    <2> SUFFICES ASSUME ThrottleTypeOK, MissInv, NEW a \in Known
                 PROVE  table[a].misses < MissStep + Cardinality(Workers)
      BY DEF MissesBounded
    <2>1. a \in Ips /\ table[a].misses \in Nat
      BY DEF ThrottleTypeOK, Buckets
    <2>2. table[a].misses + Cardinality(OpenOf(a)) < MissStep + Cardinality(Workers)
      BY DEF MissInv
    <2>3. QED
      BY <2>1, <2>2, OpenCount, LimitsAssumption
  <1>4. QED
    BY <1>1, <1>2, <1>3, TypeCorrect, PTL DEF ThrottleSpec
---------------------------------------------------------------------------
(* The block of Watched.                                                   *)

\* The table remembers the block while Watched is in sight, and sees Watched
\* no longer ago, and fewer addresses after it, than the history does.
Remembered ==
    /\ Watched \in Known
    /\ table[Watched].left = block
    /\ table[Watched].idle <= silent
    /\ table[Watched].later \subseteq since
BlockInv ==
    block > 0 /\ asking =>
        Remembered /\ silent <= Idle /\ Cardinality(since) < BucketLimit

LEMMA StaysAsking ==
  ASSUME ThrottleTypeOK, asking' = (asking /\ InSight), asking'
  PROVE  asking /\ InSight
  BY Zenon

\* A bucket that is written back keeps the block of its address.
LEMMA PutKeepsBlock ==
  ASSUME ThrottleTypeOK, BlockInv, NEW a \in Ips, NEW b \in Buckets,
         b.left = BucketOf(a).left, table' = Put(a, b), Seen(a), Unblocked
  PROVE  BlockInv'
  <1> SUFFICES ASSUME block' > 0, asking'
               PROVE  Remembered' /\ silent' <= Idle /\ Cardinality(since') < BucketLimit
    BY DEF BlockInv, Idle
  <1>1. block' = block /\ asking /\ InSight
    BY StaysAsking DEF Unblocked
  <1>2. Remembered
    BY <1>1 DEF BlockInv
  <1>3. silent' <= Idle /\ Cardinality(since') < BucketLimit
    BY <1>1 DEF InSight
  <1>4. Watched \in DOMAIN Put(a, b)
    BY <1>2, PutTypes DEF Remembered
  <1>5. CASE a = Watched
    <2>1. BucketOf(a) = table[Watched] /\ silent' = 0
      BY <1>2, <1>5 DEF Remembered, BucketOf, Seen
    <2>2. /\ Put(a, b)[Watched].left = b.left
          /\ Put(a, b)[Watched].idle = 0 /\ Put(a, b)[Watched].later = {}
      BY <1>5, PutSelf
    <2>3. QED
      BY <1>1, <1>2, <1>3, <1>4, <2>1, <2>2 DEF Remembered, Known
  <1>6. CASE a # Watched
    <2>1. Watched \in Known \ {a} /\ silent' = silent /\ since' = since \cup {a}
      BY <1>2, <1>6 DEF Remembered, Seen
    <2>2. /\ Put(a, b)[Watched].left = table[Watched].left
          /\ Put(a, b)[Watched].idle = table[Watched].idle
          /\ Put(a, b)[Watched].later = table[Watched].later \cup {a}
      BY <2>1, PutOther
    <2>3. QED
      BY <1>1, <1>2, <1>3, <1>4, <2>1, <2>2 DEF Remembered, Known
  <1>7. QED
    BY <1>5, <1>6

\* The sweep keeps an address that is in sight.
LEMMA SweepKeeps ==
  ASSUME NEW t, Watched \in DOMAIN t, NEW S \in SUBSET Ips,
         t[Watched].idle <= Idle, t[Watched].later \subseteq S,
         Cardinality(S) < BucketLimit
  PROVE  Watched \in DOMAIN Swept(t) /\ Swept(t)[Watched] = t[Watched]
  <1> DEFINE after == Fresh(t) \cap t[Watched].later
  <1>1. IsFiniteSet(S)
    BY SetsAssumption, FS_Subset
  <1>2. after \in SUBSET S
    OBVIOUS
  <1>3. /\ Cardinality(after) \in Nat /\ Cardinality(S) \in Nat
        /\ Cardinality(after) <= Cardinality(S)
    BY <1>1, <1>2, FS_Subset, FS_CardinalityType
  <1>4. Cardinality(after) < BucketLimit
    <2> HIDE DEF after
    <2>1. QED
      BY <1>3, LimitsAssumption
  <1>5. Watched \in Fresh(t)
    BY DEF Fresh
  <1>6. Watched \in Latest(t)
    BY <1>4, <1>5 DEF Latest
  <1>7. QED
    BY <1>6, SweptTypes

LEMMA ThrottledKeepsBlock ==
  ASSUME ThrottleTypeOK, BlockInv, NEW w \in Workers, Throttled(w)
  PROVE  BlockInv'
  <1> DEFINE b == State(ip[w])
             t == Put(ip[w], Judged(b))
  <1>1. /\ ip[w] \in Ips /\ Judged(b) \in Buckets
        /\ b.left = BucketOf(ip[w]).left /\ b.left = 0
    BY BucketTypes, BlockTypes DEF ThrottleTypeOK, Throttled
  <1>2. /\ table' = Swept(t) /\ Seen(ip[w]) /\ Blocks(ip[w], b)
    BY DEF Throttled
  <1>3. /\ ip[w] \in DOMAIN t /\ t[ip[w]].idle = 0 /\ t[ip[w]].later = {}
        /\ t[ip[w]].left = Judged(b).left
    BY <1>1, PutSelf
  <1> SUFFICES ASSUME block' > 0, asking'
               PROVE  Remembered' /\ silent' <= Idle /\ Cardinality(since') < BucketLimit
    BY DEF BlockInv, Idle
  <1>4. CASE ip[w] = Watched /\ Blocking /\ Refused(b)
    <2>1. block' = Judged(b).left /\ silent' = 0 /\ since' = {}
      BY <1>2, <1>4 DEF Blocks, Seen
    <2>2. Cardinality(since') = 0 /\ 0 < BucketLimit /\ 0 <= Idle
      BY <2>1, FS_EmptySet, LimitsAssumption DEF Idle
    <2>3. Watched \in DOMAIN Swept(t) /\ Swept(t)[Watched] = t[Watched]
      <3>1. /\ Watched \in DOMAIN t /\ t[Watched].idle <= Idle
            /\ t[Watched].later \subseteq {} /\ Cardinality({}) < BucketLimit
        BY <1>3, <1>4, <2>1, <2>2
      <3>2. QED
        BY <3>1, SweepKeeps
    <2>4. QED
      BY <1>2, <1>3, <1>4, <2>1, <2>2, <2>3 DEF Remembered, Known
  <1>5. CASE ~(ip[w] = Watched /\ Blocking /\ Refused(b))
    <2>1. block' = block /\ asking /\ InSight
      BY <1>2, <1>5, StaysAsking DEF Blocks, Unblocked
    <2>2. Remembered /\ silent' <= Idle /\ Cardinality(since') < BucketLimit
      BY <2>1 DEF BlockInv, InSight
    <2>3. ip[w] # Watched
      BY <1>1, <2>1, <2>2 DEF Remembered, BucketOf
    <2>4. Watched \in Known \ {ip[w]} /\ silent' = silent /\ since' = since \cup {ip[w]}
      BY <1>2, <2>2, <2>3 DEF Remembered, Seen
    <2>5. /\ Watched \in DOMAIN t
          /\ t[Watched].left = table[Watched].left
          /\ t[Watched].idle = table[Watched].idle
          /\ t[Watched].later = table[Watched].later \cup {ip[w]}
      BY <1>1, <2>4, PutOther
    <2>6. table[Watched].idle \in Nat /\ silent \in Nat /\ Idle \in Nat
      BY <2>4, LimitsAssumption DEF ThrottleTypeOK, Buckets, Idle
    <2>7. /\ since' \in SUBSET Ips /\ t[Watched].later \subseteq since'
          /\ t[Watched].idle <= Idle
      BY <1>1, <2>2, <2>4, <2>5, <2>6 DEF Remembered, ThrottleTypeOK
    <2> HIDE DEF t
    <2>8. Watched \in DOMAIN Swept(t) /\ Swept(t)[Watched] = t[Watched]
      BY <2>2, <2>5, <2>7, SweepKeeps
    <2>9. QED
      BY <1>2, <2>1, <2>2, <2>4, <2>5, <2>7, <2>8 DEF Remembered, Known
  <1>6. QED
    BY <1>4, <1>5

LEMMA TickKeepsBlock ==
  ASSUME ThrottleTypeOK, BlockInv, Tick
  PROVE  BlockInv'
  <1> SUFFICES ASSUME block' > 0, asking'
               PROVE  Remembered' /\ silent' <= Idle /\ Cardinality(since') < BucketLimit
    BY DEF BlockInv, Idle
  <1>1. asking /\ InSight
    BY StaysAsking DEF Tick
  <1>2. block > 0 /\ block' = Less(block)
    BY DEF Tick, Less, ThrottleTypeOK
  <1>3. Remembered
    BY <1>1, <1>2 DEF BlockInv
  <1>4. /\ Watched \in Known /\ table[Watched] \in Buckets
        /\ Known' = Known /\ table'[Watched] = Older(table[Watched])
    BY <1>3 DEF Remembered, Tick, ThrottleTypeOK, Known
  <1>5. /\ table'[Watched].left = Less(table[Watched].left)
        /\ table'[Watched].later = table[Watched].later
        /\ table'[Watched].idle = Upto(table[Watched].idle + 1, Idle + 1)
    BY <1>4, OlderTypes
  <1>6. table'[Watched].idle <= silent'
    <2>1. table[Watched].idle \in Nat /\ silent \in Nat /\ Idle \in Nat
      BY <1>4, LimitsAssumption DEF ThrottleTypeOK, Buckets, Idle
    <2>2. silent' = Upto(silent + 1, Idle + 1) /\ table[Watched].idle <= silent
      BY <1>3 DEF Tick, Remembered
    <2>3. QED
      BY <1>5, <2>1, <2>2 DEF Upto
  <1>7. QED
    BY <1>1, <1>2, <1>3, <1>4, <1>5, <1>6 DEF Remembered, InSight, Tick

\* No sweep, window, late success or crowd below the limit lifts a block while
\* the blocked address keeps asking.
THEOREM BlockIsKept == ThrottleSpec => []BlockKept
  <1>1. ThrottleInit => BlockInv
    BY DEF ThrottleInit, BlockInv
  <1>2. ThrottleTypeOK /\ BlockInv /\ [ThrottleNext]_throttleVars => BlockInv'
    <2> SUFFICES ASSUME ThrottleTypeOK, BlockInv, [ThrottleNext]_throttleVars PROVE BlockInv'
      OBVIOUS
    <2>1. CASE UNCHANGED <<table, block, asking, silent, since>>
      BY <2>1 DEF BlockInv, Remembered, Known, Idle
    <2>2. ASSUME NEW w \in Workers,
                 BadRequest(w) \/ Payload(w) \/ Fails(w) \/ FreeSlot(w)
                    \/ (\E a \in Ips : Connect(w, a))
          PROVE BlockInv'
      BY <2>1, <2>2 DEF BadRequest, Payload, Fails, FreeSlot, Connect, history
    <2>3. ASSUME NEW w \in Workers, StillBlocked(w) PROVE BlockInv'
      <3>1. ip[w] \in Ips
        BY DEF ThrottleTypeOK
      <3>2. QED
        BY <2>3, <3>1, BucketTypes, PutKeepsBlock DEF StillBlocked
    <2>4. ASSUME NEW w \in Workers, Miss(w) PROVE BlockInv'
      <3> DEFINE b == [BucketOf(ip[w]) EXCEPT !.misses = @ + 1]
      <3>1. ip[w] \in Ips /\ BucketOf(ip[w]) \in Buckets
        BY BucketTypes DEF ThrottleTypeOK
      <3>2. b \in Buckets /\ b.left = BucketOf(ip[w]).left
        BY <3>1 DEF Buckets
      <3>3. QED
        BY <2>4, <3>1, <3>2, PutKeepsBlock DEF Miss
    <2>5. ASSUME NEW w \in Workers, PlainOk(w) PROVE BlockInv'
      <3> DEFINE b == BucketOf(ip[w])
                 c == IF TooMany(b) THEN b ELSE [b EXCEPT !.offences = 0, !.misses = 0]
      <3>1. ip[w] \in Ips /\ b \in Buckets
        BY BucketTypes DEF ThrottleTypeOK
      <3>2. c \in Buckets /\ c.left = b.left
        <4>1. 0 \in 0..MaxOffences
          BY LimitsAssumption
        <4>2. ASSUME NEW o \in 0..MaxOffences
              PROVE  LET d == [b EXCEPT !.offences = o, !.misses = 0] IN
                     d \in Buckets /\ d.left = b.left
          BY <3>1 DEF Buckets
        <4>3. QED
          BY <3>1, <4>1, <4>2
      <3>3. table' = Put(ip[w], c) /\ Seen(ip[w]) /\ Unblocked
        BY <2>5 DEF PlainOk
      <3> HIDE DEF c
      <3>4. QED
        BY <3>1, <3>2, <3>3, PutKeepsBlock
    <2>6. CASE UNCHANGED throttleVars
      BY <2>1, <2>6 DEF throttleVars
    <2>7. QED
      BY <2>2, <2>3, <2>4, <2>5, <2>6, ThrottledKeepsBlock, TickKeepsBlock
         DEF ThrottleNext, Request
  <1>3. BlockInv => BlockKept
    BY DEF BlockInv, BlockKept, Remembered
  <1>4. QED
    BY <1>1, <1>2, <1>3, TypeCorrect, PTL DEF ThrottleSpec

-----------------------------------------------------------------------------
(* The honeypot.                                                           *)

WithinLimits == active <= MaxConn /\ \A i \in Peers : byIp[i] <= PerIp
GuardInv == GuardTypeOK /\ CountersExact /\ WithinLimits

LEMMA HeldIsFinite ==
    /\ IsFiniteSet(Held)
    /\ \A i \in Peers : IsFiniteSet(HeldOf(i))
  BY ConnsAssumption, FS_Subset DEF Held, HeldOf

\* The shape of the state is kept by every step of every thread.
LEMMA GuardTypeStep == GuardTypeOK /\ [GuardNext]_guardVars => GuardTypeOK'
  <1> SUFFICES ASSUME GuardTypeOK, [GuardNext]_guardVars PROVE GuardTypeOK'
    OBVIOUS
  <1> USE LimitAssumption DEF GuardTypeOK, Become, Log, States
  <1>1. ASSUME NEW p \in Ports, NEW c \in Conns, Accept(p, c) PROVE GuardTypeOK'
    BY <1>1 DEF Accept
  <1>2. ASSUME NEW p \in Ports, Take(p) PROVE GuardTypeOK'
    BY <1>2 DEF Take
  <1>3. ASSUME NEW p \in Ports, Refuse(p) PROVE GuardTypeOK'
    BY <1>3 DEF Refuse
  <1>4. ASSUME NEW p \in Ports, StartWorker(p) PROVE GuardTypeOK'
    BY <1>4 DEF StartWorker
  <1>5. ASSUME NEW p \in Ports, StartFails(p) PROVE GuardTypeOK'
    BY <1>5 DEF StartFails
  <1>6. ASSUME NEW c \in Conns, Read(c) PROVE GuardTypeOK'
    BY <1>6 DEF Read
  <1>7. ASSUME NEW c \in Conns, Finish(c) PROVE GuardTypeOK'
    BY <1>7 DEF Finish
  <1>8. ASSUME NEW c \in Conns, Drop(c) PROVE GuardTypeOK'
    BY <1>8 DEF Drop, Fewer
  <1>9. CASE UNCHANGED guardVars
    BY <1>9 DEF guardVars
  <1>10. QED
    BY <1>1, <1>2, <1>3, <1>4, <1>5, <1>6, <1>7, <1>8, <1>9
       DEF GuardNext, Listener, Worker

THEOREM GuardTypeCorrect == GuardSpec => []GuardTypeOK
  <1>1. GuardInit => GuardTypeOK
    BY DEF GuardInit, GuardTypeOK, States
  <1>2. QED
    BY <1>1, GuardTypeStep, PTL DEF GuardSpec

LEMMA OneMore ==
  ASSUME NEW S, IsFiniteSet(S), NEW c, c \notin S, NEW T, T = S \cup {c}
  PROVE  Cardinality(T) = Cardinality(S) + 1
  BY FS_AddElement

LEMMA OneLess ==
  ASSUME NEW S, IsFiniteSet(S), NEW c, c \in S, NEW T, T = S \ {c}
  PROVE  Cardinality(T) = Cardinality(S) - 1
  BY FS_RemoveElement

\* A step that moves no connection into or out of the held states.
LEMMA SameHeld ==
  ASSUME GuardInv, active' = active, byIp' = byIp, from' = from,
         Held' = Held
  PROVE  CountersExact' /\ WithinLimits'
  BY DEF GuardInv, CountersExact, WithinLimits, HeldOf

\* take() adds the connection to the held ones and counts it, if it may.
LEMMA TakeStep ==
  ASSUME GuardInv, NEW p \in Ports, Take(p),
         NEW c \in Conns, NEW i \in Peers, c = holds[p], i = from[c]
  PROVE  CountersExact' /\ WithinLimits'
  <1>1. /\ c \notin Held /\ c \notin HeldOf(i)
        /\ active \in Nat /\ byIp \in [Peers -> Nat]
    BY DEF Take, GuardInv, GuardTypeOK, Held, HeldOf
  <1>2. Held' = Held \cup {c}
    BY <1>1 DEF Take, Become, Held, GuardInv, GuardTypeOK
  <1>3. HeldOf(i)' = HeldOf(i) \cup {c}
    BY <1>1, <1>2 DEF Take, HeldOf
  <1>4. \A j \in Peers : j # i => HeldOf(j)' = HeldOf(j)
    BY <1>1, <1>2 DEF Take, HeldOf
  <1>5. /\ Cardinality(Held') = Cardinality(Held) + 1
        /\ Cardinality(HeldOf(i)') = Cardinality(HeldOf(i)) + 1
    <2>1. IsFiniteSet(Held) /\ IsFiniteSet(HeldOf(i))
      BY HeldIsFinite
    <2>2. Cardinality(Held') = Cardinality(Held) + 1
      BY <1>1, <1>2, <2>1, OneMore
    <2>3. Cardinality(HeldOf(i)') = Cardinality(HeldOf(i)) + 1
      BY <1>1, <1>3, <2>1, OneMore
    <2>4. QED
      BY <2>2, <2>3
  <1>6. /\ active' = active + 1
        /\ byIp' = [byIp EXCEPT ![i] = @ + 1]
        /\ active < MaxConn /\ byIp[i] < PerIp
    BY DEF Take, MayTake
  <1>7. CountersExact'
    <2>1. active' = Cardinality(Held')
      BY <1>5, <1>6 DEF GuardInv, CountersExact
    <2>2. ASSUME NEW j \in Peers PROVE byIp'[j] = Cardinality(HeldOf(j)')
      <3>1. byIp[j] = Cardinality(HeldOf(j))
        BY DEF GuardInv, CountersExact
      <3>2. CASE j = i
        BY <1>1, <1>5, <1>6, <3>1, <3>2
      <3>3. CASE j # i
        <4>1. HeldOf(j)' = HeldOf(j)
          BY <1>4, <3>3
        <4>2. byIp'[j] = byIp[j]
          BY <1>1, <1>6, <3>3
        <4>3. QED
          BY <3>1, <4>1, <4>2
      <3>4. QED
        BY <3>2, <3>3
    <2>3. QED
      BY <2>1, <2>2 DEF CountersExact
  <1>8. WithinLimits'
    BY <1>1, <1>6, LimitAssumption DEF GuardInv, WithinLimits
  <1>9. QED
    BY <1>7, <1>8

\* drop() takes the connection away and counts it down; the floor at zero is
\* never reached, because the counters are exact.
LEMMA DropStep ==
  ASSUME GuardInv, NEW c \in Conns, Drop(c), NEW i \in Peers, i = from[c]
  PROVE  CountersExact' /\ WithinLimits'
  <1>1. /\ c \in Held /\ c \in HeldOf(i)
        /\ active \in Nat /\ byIp \in [Peers -> Nat]
    BY DEF Drop, GuardInv, GuardTypeOK, Held, HeldOf
  <1>2. Held' = Held \ {c}
    BY <1>1 DEF Drop, Become, Held, GuardInv, GuardTypeOK
  <1>3. HeldOf(i)' = HeldOf(i) \ {c}
    BY <1>1, <1>2 DEF Drop, HeldOf
  <1>4. \A j \in Peers : j # i => HeldOf(j)' = HeldOf(j)
    BY <1>1, <1>2 DEF Drop, HeldOf
  <1>5. /\ Cardinality(Held') = Cardinality(Held) - 1
        /\ Cardinality(HeldOf(i)') = Cardinality(HeldOf(i)) - 1
    <2>1. IsFiniteSet(Held) /\ IsFiniteSet(HeldOf(i))
      BY HeldIsFinite
    <2>2. Cardinality(Held') = Cardinality(Held) - 1
      BY <1>1, <1>2, <2>1, OneLess
    <2>3. Cardinality(HeldOf(i)') = Cardinality(HeldOf(i)) - 1
      BY <1>1, <1>3, <2>1, OneLess
    <2>4. QED
      BY <2>2, <2>3
  <1>6. Cardinality(Held) # 0 /\ Cardinality(HeldOf(i)) # 0
    BY <1>1, HeldIsFinite, FS_EmptySet
  <1>7. /\ active = Cardinality(Held)
        /\ \A j \in Peers : byIp[j] = Cardinality(HeldOf(j))
    BY DEF GuardInv, CountersExact
  <1>8. active' = active - 1 /\ byIp' = [byIp EXCEPT ![i] = byIp[i] - 1]
    <2>1. active' = Fewer(active) /\ byIp' = [byIp EXCEPT ![i] = Fewer(byIp[i])]
      BY DEF Drop
    <2>2. active > 0 /\ byIp[i] > 0
      BY <1>1, <1>6, <1>7
    <2>3. QED
      BY <2>1, <2>2 DEF Fewer
  <1>9. CountersExact'
    <2>1. active' = Cardinality(Held')
      BY <1>5, <1>7, <1>8
    <2>2. ASSUME NEW j \in Peers PROVE byIp'[j] = Cardinality(HeldOf(j)')
      <3>1. byIp[j] = Cardinality(HeldOf(j))
        BY <1>7
      <3>2. CASE j = i
        BY <1>1, <1>5, <1>8, <3>1, <3>2
      <3>3. CASE j # i
        <4>1. HeldOf(j)' = HeldOf(j)
          BY <1>4, <3>3
        <4>2. byIp'[j] = byIp[j]
          BY <1>1, <1>8, <3>3
        <4>3. QED
          BY <3>1, <4>1, <4>2
      <3>4. QED
        BY <3>2, <3>3
    <2>3. QED
      BY <2>1, <2>2 DEF CountersExact
  <1>10. WithinLimits'
    BY <1>1, <1>8, LimitAssumption DEF GuardInv, WithinLimits
  <1>11. QED
    BY <1>9, <1>10

LEMMA GuardInvHolds == GuardSpec => []GuardInv
  <1>1. GuardInit => GuardInv
    <2> SUFFICES ASSUME GuardInit PROVE GuardInv
      OBVIOUS
    <2>1. GuardTypeOK
      BY DEF GuardInit, GuardTypeOK, States
    <2>2. Held = {} /\ \A i \in Peers : HeldOf(i) = {}
      BY DEF GuardInit, Held, HeldOf
    <2>3. CountersExact
      BY <2>2, FS_EmptySet DEF GuardInit, CountersExact
    <2>4. WithinLimits
      BY LimitAssumption DEF GuardInit, WithinLimits
    <2>5. QED
      BY <2>1, <2>3, <2>4 DEF GuardInv
  <1>2. GuardInv /\ [GuardNext]_guardVars => GuardInv'
    <2> SUFFICES ASSUME GuardInv, [GuardNext]_guardVars PROVE CountersExact' /\ WithinLimits'
      BY GuardTypeStep DEF GuardInv
    <2> USE DEF GuardInv, GuardTypeOK, Become, Held
    <2>1. ASSUME NEW p \in Ports, NEW c \in Conns, Accept(p, c)
          PROVE CountersExact' /\ WithinLimits'
      BY <2>1, SameHeld DEF Accept
    <2>2. ASSUME NEW p \in Ports, Refuse(p) PROVE CountersExact' /\ WithinLimits'
      BY <2>2, SameHeld DEF Refuse
    <2>3. ASSUME NEW p \in Ports, StartWorker(p)
          PROVE CountersExact' /\ WithinLimits'
      BY <2>3, SameHeld DEF StartWorker
    <2>4. ASSUME NEW p \in Ports, StartFails(p)
          PROVE CountersExact' /\ WithinLimits'
      BY <2>4, SameHeld DEF StartFails
    <2>5. ASSUME NEW c \in Conns, Read(c) PROVE CountersExact' /\ WithinLimits'
      BY <2>5, SameHeld DEF Read
    <2>6. ASSUME NEW c \in Conns, Finish(c) PROVE CountersExact' /\ WithinLimits'
      BY <2>6, SameHeld DEF Finish
    <2>7. CASE UNCHANGED guardVars
      BY <2>7, SameHeld DEF guardVars
    <2>8. ASSUME NEW p \in Ports, Take(p) PROVE CountersExact' /\ WithinLimits'
      <3>1. holds[p] \in Conns /\ from[holds[p]] \in Peers
        BY <2>8 DEF Take
      <3>2. QED
        BY <2>8, <3>1, TakeStep
    <2>9. ASSUME NEW c \in Conns, Drop(c) PROVE CountersExact' /\ WithinLimits'
      <3>1. from[c] \in Peers
        OBVIOUS
      <3>2. QED
        BY <2>9, <3>1, DropStep
    <2>10. QED
      BY <2>1, <2>2, <2>3, <2>4, <2>5, <2>6, <2>7, <2>8, <2>9
         DEF GuardNext, Listener, Worker
  <1>3. QED
    BY <1>1, <1>2, PTL DEF GuardSpec

\* No slot is lost or given back twice by a worker, whatever runs beside it.
THEOREM NoSlotIsLost == GuardSpec => []CountersExact
  <1>1. GuardInv => CountersExact
    BY DEF GuardInv
  <1>2. QED
    BY <1>1, GuardInvHolds, PTL

\* However listeners and workers interleave, the sockets open at a time never
\* exceed the two limits of the configuration.
THEOREM OpenStaysWithinLimits == GuardSpec => []LimitsHold
  <1>1. GuardInv => LimitsHold
    <2> SUFFICES ASSUME GuardInv PROVE LimitsHold
      OBVIOUS
    <2>1. Open \subseteq Held /\ \A i \in Peers : OpenFrom(i) \subseteq HeldOf(i)
      BY DEF Open, OpenFrom, Held, HeldOf
    <2>2. /\ Cardinality(Open) \in Nat /\ Cardinality(Open) <= Cardinality(Held)
          /\ Cardinality(Held) \in Nat
      BY <2>1, HeldIsFinite, FS_Subset, FS_CardinalityType
    <2>3. ASSUME NEW i \in Peers
          PROVE  /\ Cardinality(OpenFrom(i)) \in Nat
                 /\ Cardinality(OpenFrom(i)) <= Cardinality(HeldOf(i))
                 /\ Cardinality(HeldOf(i)) \in Nat
      BY <2>1, HeldIsFinite, FS_Subset, FS_CardinalityType
    <2>4. QED
      BY <2>2, <2>3, LimitAssumption
         DEF GuardInv, LimitsHold, CountersExact, WithinLimits
  <1>2. QED
    BY <1>1, GuardInvHolds, PTL

\* A connection that is over left a line, unless its thread never started: no
\* state leads to "ended" or "closed" without a line.
THEOREM EveryTouchIsLogged == GuardSpec => []TouchIsLogged
  <1>1. GuardInit => TouchIsLogged
    BY DEF GuardInit, TouchIsLogged
  <1>2. GuardTypeOK /\ TouchIsLogged /\ [GuardNext]_guardVars => TouchIsLogged'
    <2> SUFFICES ASSUME GuardTypeOK, TouchIsLogged, [GuardNext]_guardVars PROVE TouchIsLogged'
      OBVIOUS
    <2> USE DEF GuardTypeOK, TouchIsLogged, Become, Log
    <2>1. ASSUME NEW p \in Ports, NEW c \in Conns, Accept(p, c)
          PROVE TouchIsLogged'
      BY <2>1 DEF Accept
    <2>2. ASSUME NEW p \in Ports, Take(p) PROVE TouchIsLogged'
      BY <2>2 DEF Take
    <2>3. ASSUME NEW p \in Ports, Refuse(p) PROVE TouchIsLogged'
      BY <2>3 DEF Refuse
    <2>4. ASSUME NEW p \in Ports, StartWorker(p) \/ StartFails(p)
          PROVE TouchIsLogged'
      BY <2>4 DEF StartWorker, StartFails
    <2>5. ASSUME NEW c \in Conns, Read(c) PROVE TouchIsLogged'
      BY <2>5 DEF Read
    <2>6. ASSUME NEW c \in Conns, Finish(c) PROVE TouchIsLogged'
      BY <2>6 DEF Finish
    <2>7. ASSUME NEW c \in Conns, Drop(c) PROVE TouchIsLogged'
      BY <2>7 DEF Drop
    <2>8. CASE UNCHANGED guardVars
      BY <2>8 DEF guardVars
    <2>9. QED
      BY <2>1, <2>2, <2>3, <2>4, <2>5, <2>6, <2>7, <2>8
         DEF GuardNext, Listener, Worker
  <1>3. QED
    BY <1>1, <1>2, GuardTypeCorrect, PTL DEF GuardSpec
=============================================================================
