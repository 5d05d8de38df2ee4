---------------------------- MODULE SubThrottle ----------------------------
(***************************************************************************)
(* The throttle of the subscription server (Storage/remote/sub_server.py). *)
(*                                                                         *)
(* One worker thread per request, at most as many as there are slots.  A   *)
(* worker asks throttled() first and records a miss or a success when it   *)
(* answers; both touch the table of buckets under BUCKET_LOCK, and any     *)
(* number of other workers may run in between.  throttled() also sweeps    *)
(* the table, unless the address is blocked.                               *)
(*                                                                         *)
(* Times are kept as the ticks passed since, or left until, an event; the  *)
(* order of two sights within a tick, as the addresses seen later.  The    *)
(* block of one address, Watched, is remembered beside the table to say    *)
(* what the table may forget.                                              *)
(***************************************************************************)
EXTENDS Naturals, FiniteSets

CONSTANTS
    Ips,            \* client addresses
    Workers,        \* MAX_CLIENTS slots, one worker thread each
    RateLimit,      \* RATE_LIMIT requests in a window
    Window,         \* RATE_WINDOW in ticks
    MissStep,       \* NOT_FOUND_STEP misses before a block
    BlockStep,      \* BLOCK_STEP in ticks
    BlockMax,       \* BLOCK_MAX in ticks
    MaxOffences,    \* the cap of block_for (code: 8)
    BucketLimit,    \* BUCKET_LIMIT addresses the sweep keeps
    Blocking,       \* BLOCKING
    Watched         \* the address whose block is remembered

ASSUME LimitsAssumption ==
    /\ RateLimit \in Nat /\ Window \in Nat /\ MissStep \in Nat \ {0}
    /\ BlockStep \in Nat /\ BlockMax \in Nat /\ MaxOffences \in Nat
    /\ BucketLimit \in Nat \ {0}
    /\ Blocking \in BOOLEAN
ASSUME SetsAssumption ==
    IsFiniteSet(Ips) /\ IsFiniteSet(Workers) /\ Watched \in Ips

VARIABLES
    table,      \* BUCKETS, a function from the known addresses to buckets
    place,      \* where each worker is
    ip,         \* the address it serves
    block,      \* ticks left of the last block of Watched
    asking,     \* Watched was never out of sight since that block began
    silent,     \* ticks since Watched was seen
    since       \* other addresses seen after Watched

history == <<block, asking, silent, since>>
throttleVars == <<table, place, ip, block, asking, silent, since>>

Idle == 2 * Window
\* free: no request; held: the slot is taken, throttled() not asked yet;
\* open: let in, not answered yet; over: answered, the slot not released yet
Places == {"free", "held", "open", "over"}
\* Ages stop one tick after the last one that is compared, counts likewise.
Upto(n, bound) == IF n < bound THEN n ELSE bound
Buckets == [age : 0..Window, count : 0..(RateLimit + 1), idle : 0..(Idle + 1),
            left : 0..BlockMax, misses : Nat, offences : 0..MaxOffences,
            later : SUBSET Ips]
New == [age |-> 0, count |-> 0, idle |-> 0, left |-> 0, misses |-> 0,
        offences |-> 0, later |-> {}]

ThrottleInit ==
    /\ table = [a \in {} |-> New]
    /\ place = [w \in Workers |-> "free"]
    /\ ip \in [Workers -> {Watched}]
    /\ block = 0 /\ asking = FALSE /\ silent = 0 /\ since = {}

Known == DOMAIN table
BucketOf(a) == IF a \in Known THEN table[a] ELSE New

\* The table with bucket b for a, which is seen now, after all others.
Put(a, b) ==
    [x \in Known \cup {a} |->
        IF x = a THEN [b EXCEPT !.idle = 0, !.later = {}]
        ELSE [table[x] EXCEPT !.later = @ \cup {a}]]

---------------------------------------------------------------------------
(* The table of buckets.                                                   *)

\* throttle_state: the bucket as it is after this request was counted.
State(a) ==
    LET b == BucketOf(a)
        over == b.age >= Window IN
    [b EXCEPT !.age = IF over THEN 0 ELSE @,
              !.count = Upto((IF over THEN 0 ELSE @) + 1, RateLimit + 1)]

\* penalty_of
Penalty(b) ==
    LET step == BlockStep * 2 ^ (IF b.offences > 1 THEN b.offences - 1 ELSE 0) IN
    IF step \in 0..BlockMax THEN step ELSE BlockMax

\* block_for
BlockFor(b) ==
    LET more == [b EXCEPT !.offences = Upto(@ + 1, MaxOffences)] IN
    [more EXCEPT !.left = Penalty(more)]

TooMany(b) == b.count > RateLimit
\* A variation: one miss more.
TooManyMissesLate(b) == ~TooMany(b) /\ b.misses > MissStep
TooManyMisses(b) == ~TooMany(b) /\ b.misses >= MissStep
Refused(b) == TooMany(b) \/ TooManyMisses(b)

\* throttled() after throttle_state, for an address that is not blocked.
Judged(b) ==
    IF ~Blocking \/ ~Refused(b) THEN b
    ELSE IF TooMany(b) THEN BlockFor(b)
    ELSE [BlockFor(b) EXCEPT !.misses = 0]

\* sweep: the buckets idle for over two windows go, then the ones seen longest
\* ago as long as there are more than BucketLimit.
Fresh(t) == {x \in DOMAIN t : t[x].idle <= Idle}
Latest(t) == {x \in Fresh(t) : Cardinality(Fresh(t) \cap t[x].later) < BucketLimit}
Swept(t) == [x \in Latest(t) |-> t[x]]

---------------------------------------------------------------------------
(* What is remembered of Watched.  It is out of sight when the table may   *)
(* forget it: after two windows of silence, or when BucketLimit others     *)
(* have been seen after it.                                                *)

InSight == silent' <= Idle /\ Cardinality(since') < BucketLimit

Seen(a) ==
    /\ silent' = IF a = Watched THEN 0 ELSE silent
    /\ since' = IF a = Watched THEN {} ELSE since \cup {a}

Unblocked == block' = block /\ asking' = (asking /\ InSight)

Blocks(a, b) ==
    IF a = Watched /\ Blocking /\ Refused(b)
    THEN block' = Judged(b).left /\ asking' = TRUE
    ELSE Unblocked

---------------------------------------------------------------------------
(* One request: process_request, do_GET, send_plain,                       *)
(* process_request_thread.                                                 *)

Move(w, s, t) == place[w] = s /\ place' = [place EXCEPT ![w] = t]

\* A slot is free; without one the request is answered 503 and forgotten.
Connect(w, a) ==
    /\ Move(w, "free", "held")
    /\ ip' = [ip EXCEPT ![w] = a]
    /\ UNCHANGED <<table, history>>

\* The request line is refused, or never comes.
BadRequest(w) ==
    /\ Move(w, "held", "over")
    /\ UNCHANGED <<table, ip, history>>

\* throttled() in the middle of a block: the request is counted, nothing swept.
StillBlocked(w) ==
    LET a == ip[w] IN
    /\ State(a).left > 0
    /\ Move(w, "held", "over")
    /\ table' = Put(a, State(a))
    /\ Seen(a) /\ Unblocked
    /\ UNCHANGED ip

Throttled(w) ==
    LET a == ip[w]
        b == State(a)
        t == Put(a, Judged(b)) IN
    /\ b.left = 0
    /\ Move(w, "held", IF Refused(b) THEN "over" ELSE "open")
    /\ table' = Swept(t)
    /\ Seen(a) /\ Blocks(a, b)
    /\ UNCHANGED ip

\* 404 and 403: record_miss(ip, True), which creates a bucket if the sweep
\* of another worker has taken it.
Miss(w) ==
    LET a == ip[w] IN
    /\ Move(w, "open", "over")
    /\ table' = Put(a, [BucketOf(a) EXCEPT !.misses = @ + 1])
    /\ Seen(a) /\ Unblocked
    /\ UNCHANGED ip

\* A variation: a success lifts the block with the offences.
PlainOkForgives(w) ==
    LET a == ip[w] IN
    /\ Move(w, "open", "over")
    /\ table' = Put(a, [BucketOf(a) EXCEPT !.offences = 0, !.misses = 0, !.left = 0])
    /\ Seen(a) /\ Unblocked
    /\ UNCHANGED ip

\* 200 through send_plain (json, info, health): record_miss(ip, False).
PlainOk(w) ==
    LET a == ip[w]
        b == BucketOf(a) IN
    /\ Move(w, "open", "over")
    /\ table' = Put(a, IF TooMany(b) THEN b
                       ELSE [b EXCEPT !.offences = 0, !.misses = 0])
    /\ Seen(a) /\ Unblocked
    /\ UNCHANGED ip

\* 200 with the links themselves, which does not go through send_plain:
\* nothing is recorded.
Payload(w) ==
    /\ Move(w, "open", "over")
    /\ UNCHANGED <<table, ip, history>>

\* 400, or the handler ends with an exception: nothing is recorded either.
Fails(w) ==
    /\ Move(w, "open", "over")
    /\ UNCHANGED <<table, ip, history>>

\* The address no longer matters and takes its first value.
FreeSlot(w) ==
    /\ Move(w, "over", "free")
    /\ ip' = [ip EXCEPT ![w] = Watched]
    /\ UNCHANGED <<table, history>>

Less(n) == IF n > 0 THEN n - 1 ELSE 0

Older(b) == [b EXCEPT !.age = Upto(@ + 1, Window), !.idle = Upto(@ + 1, Idle + 1),
                      !.left = Less(@)]

Tick ==
    /\ table' = [a \in Known |-> Older(table[a])]
    /\ block' = Less(block)
    /\ silent' = Upto(silent + 1, Idle + 1)
    /\ UNCHANGED <<place, ip, since>>
    /\ asking' = (asking /\ InSight)

Request(w) == BadRequest(w) \/ StillBlocked(w) \/ Throttled(w) \/ Miss(w)
               \/ PlainOk(w) \/ Payload(w) \/ Fails(w) \/ FreeSlot(w)

ThrottleNext ==
    \/ \E w \in Workers : Request(w) \/ (\E a \in Ips : Connect(w, a))
    \/ Tick

ThrottleSpec == ThrottleInit /\ [][ThrottleNext]_throttleVars

---------------------------------------------------------------------------
(* Properties.                                                             *)

ThrottleTypeOK ==
    /\ Known \subseteq Ips
    /\ \A a \in Known : table[a] \in Buckets
    /\ place \in [Workers -> Places]
    /\ ip \in [Workers -> Ips]
    /\ block \in 0..BlockMax /\ asking \in BOOLEAN
    /\ silent \in 0..(Idle + 1) /\ since \subseteq Ips

OpenWorkers == {w \in Workers : place[w] = "open"}
OpenOf(a) == {w \in OpenWorkers : ip[w] = a}

\* The check and the count are apart: requests let in before the step was
\* reached still add their misses.  At most one per slot can, so an address
\* never has more misses than the step and one less than there are slots.
\* (sub_server.py:139-175, 540-558)
MissesBounded ==
    \A a \in Known : table[a].misses < MissStep + Cardinality(Workers)

\* A blocked address that keeps asking stays refused for the whole block:
\* no sweep, reset or late success of another worker lifts it.
BlockKept ==
    block > 0 /\ asking => Watched \in Known /\ table[Watched].left = block
=============================================================================
