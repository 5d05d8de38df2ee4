------------------------------- MODULE Limiter -------------------------------
(***************************************************************************)
(* The budgets of the bot (BOT/ratelimit.py) with the replay mark that     *)
(* stands before the expensive ones (BOT/audit.py).  A key is a user in a  *)
(* scope.  Each has a bucket: when its window began, what it let in since, *)
(* when it was last asked for.  Buckets idle for two windows are swept,    *)
(* and so are the longest idle ones when there are too many; keys asked    *)
(* for in the same tick go in any order.                                   *)
(* Times are ages in ticks, counted no further than anything looks.        *)
(* After them, whom the bot obeys (BOT/app.py, BOT/store.py).              *)
(***************************************************************************)
EXTENDS Integers, FiniteSets, FiniteSetsExt

CONSTANTS
  Keys,        \* users, each in one scope
  Watched,     \* the one whose history is kept
  Cap,         \* the limit of the scope
  Span,        \* its window
  Window,      \* WINDOW, by which the sweep measures every scope
  MaxEntries,  \* MAX_ENTRIES
  Replay       \* REPLAY_WINDOW

LimiterConstants ==
  /\ Watched \in Keys
  /\ Cap \in Nat \ {0} /\ Span \in Nat \ {0} /\ MaxEntries \in Nat \ {0}
  /\ Window \in Nat \ {0} /\ Span <= 2 * Window
  /\ Replay \in Nat \ {0}

VARIABLES
  buckets,  \* the bucket of each key that has one
  mark,     \* age of the last expensive try of Watched
  let,      \* history: how many of its taps were let in up to each age below Span
  gone      \* history: age of the last removal of its bucket by overflow

limiterVars == <<buckets, mark, let, gone>>

\* No scope is wider than two windows; the expensive callbacks have exactly two.
IdleOneWindow == Window
Idle == 2 * Window
Ages == 0..(Span - 1)
Bucket == [age : 0..Span, count : Nat, idle : 0..(Idle + 1)]

LimiterTypeOK ==
  /\ DOMAIN buckets \subseteq Keys
  /\ \A k \in DOMAIN buckets : buckets[k] \in Bucket
  /\ Cardinality(DOMAIN buckets) <= MaxEntries
  /\ mark \in 0..Replay
  /\ let \in [Ages -> 0..(2 * Cap)]
  /\ gone \in 0..Span

LimiterInit ==
  /\ buckets = << >>
  /\ mark = Replay
  /\ let = [a \in Ages |-> 0]
  /\ gone = Span

-----------------------------------------------------------------------------
\* The bucket of k as Limiter.allow() leaves it, before the sweep: a window
\* that is over starts anew.
WindowOver(b) == b.age >= Span
Counted(k) ==
  IF k \notin DOMAIN buckets \/ WindowOver(buckets[k])
  THEN [age |-> 0, count |-> 1, idle |-> 0]
  ELSE [buckets[k] EXCEPT !.count = @ + 1, !.idle = 0]

\* Limiter.sweep(): first the idle, then the overflow, the longest idle first.
\* The key that is asked for was seen last.
Fresh(k) == buckets[k].idle <= Idle
Overflow(keys) == Cardinality(keys) > MaxEntries
Swept(k, keys) ==
  IF ~Overflow(keys) THEN {keys}
  ELSE {s \in kSubset(MaxEntries, keys) :
          /\ k \in s
          /\ \A in \in s \ {k}, out \in keys \ s : buckets[in].idle <= buckets[out].idle}

\* BOUND: a count only matters up to the limit; past it, it stays.
Asked(k) ==
  LET keys == {x \in DOMAIN buckets : x # k /\ Fresh(x)} \cup {k}
  IN \E s \in Swept(k, keys) :
       /\ buckets' = [x \in s |->
                        IF x = k THEN [Counted(k) EXCEPT !.count = IF @ > Cap THEN Cap + 1 ELSE @]
                                 ELSE buckets[x]]
       /\ gone' = IF Watched \in keys \ s THEN 0 ELSE gone

LetIn(k) == Counted(k).count <= Cap

\* BOUND: the history counts no further than any property looks.
OneMore == [a \in Ages |-> IF let[a] < 2 * Cap THEN let[a] + 1 ELSE let[a]]

\* A budget without a replay mark: messages, inline queries, navigation.
Ask(k) ==
  /\ Asked(k)
  /\ let' = IF k = Watched /\ LetIn(k) THEN OneMore ELSE let
  /\ UNCHANGED mark

\* An expensive callback: a repeat is refused before the budget is asked, and
\* is the latest try all the same.
FirstTime == mark >= Replay

AskExpensive ==
  /\ mark' = 0
  /\ IF FirstTime
     THEN /\ Asked(Watched)
          /\ let' = IF LetIn(Watched) THEN OneMore ELSE let
     ELSE UNCHANGED <<buckets, let, gone>>

Older(age, bound) == IF age < bound THEN age + 1 ELSE bound

Tick ==
  /\ buckets' = [k \in DOMAIN buckets |->
                   [buckets[k] EXCEPT !.age = Older(@, Span), !.idle = Older(@, Idle + 1)]]
  /\ mark' = Older(mark, Replay)
  /\ let' = [a \in Ages |-> IF a = 0 THEN 0 ELSE let[a - 1]]
  /\ gone' = Older(gone, Span)

LimiterNext ==
  \/ \E k \in Keys : Ask(k)
  \/ AskExpensive
  \/ Tick

-----------------------------------------------------------------------------
(* Properties.                                                             *)

\* In no span of time as long as the window is a key let in more often than
\* in two full windows that touch, less the tap that opened the first: the
\* windows start with a tap and not with the clock.  Only an overflow of the
\* table can forget what was counted; the idle sweep never does.
TwoWindowsAtMost == gone = Span => let[Span - 1] <= 2 * Cap - 1

-----------------------------------------------------------------------------
(* The owner.  ADMIN_ID of the environment file names the owner; where it   *)
(* does not, the first person to write in the first minutes of a start      *)
(* claims the bot, and the state file keeps the claim.  A save is a file    *)
(* beside the state file, moved over it; the process may die between any    *)
(* two steps of one.                                                        *)

CONSTANTS
    People,    \* those who write to the bot
    Nobody,    \* no owner: 0 in the code
    MaxStarts, \* bound of the model: starts of the bot
    MaxSlips   \* bound of the model: saves that fail and files that are damaged

\* A person is neither nobody nor the state of a file.
AccessConstants ==
    /\ {Nobody, "absent", "broken"} \cap People = {}
    /\ MaxStarts \in Nat /\ MaxSlips \in Nat

VARIABLES
    named,    \* ADMIN_ID of the environment file
    disk,     \* the owner the state file names, "absent" or "broken"
    beside,   \* the file a save moves over it, or "absent"
    owner,    \* the owner in memory
    up, fresh,\* does the bot run, and is its claim window open?
    work,     \* what the bot does: "idle" or the step of a save
    waiting,  \* whose message the save belongs to
    obeyed,   \* history: those the bot has obeyed
    starts, slips

accessVars == <<named, disk, beside, owner, up, fresh, work, waiting, obeyed, starts, slips>>
fileVars == <<disk, beside>>

Absent == "absent"
Broken == "broken"

AccessInit ==
    /\ named \in People \cup {Nobody}
    /\ disk = Absent /\ beside = Absent
    /\ owner = Nobody /\ up = FALSE /\ fresh = FALSE
    /\ work = "idle" /\ waiting = Nobody
    /\ obeyed = {} /\ starts = 0 /\ slips = 0

\* Bot.admin_id: the environment goes first.
Admin == IF named # Nobody THEN named ELSE owner

\* Store.load: a file that is not there or cannot be read is a new state.
Loaded == IF disk \in {Absent, Broken} THEN Nobody ELSE disk
StartBot ==
    /\ ~up /\ starts < MaxStarts
    /\ up' = TRUE /\ fresh' = TRUE /\ owner' = Loaded
    /\ starts' = starts + 1
    /\ UNCHANGED <<named, fileVars, work, waiting, obeyed, slips>>

WindowCloses ==
    /\ up /\ fresh /\ work = "idle" /\ fresh' = FALSE
    /\ UNCHANGED <<named, fileVars, owner, up, work, waiting, obeyed, starts, slips>>

\* claim_open, in a private chat.
ClaimOpen == Admin = Nobody /\ owner = Nobody /\ fresh

\* guard_admin: the first to write claims, and is obeyed when the claim is
\* saved; the owner is obeyed; everybody else is told that access is denied.
\* The saves of the owner's own actions write the same claim.
Message(who, private) ==
    /\ up /\ work = "idle"
    /\ \/ /\ ClaimOpen /\ private
          /\ owner' = who /\ work' = "write" /\ waiting' = who
          /\ UNCHANGED obeyed
       \/ /\ who = Admin
          /\ work' \in {"idle", "write"} /\ waiting' = who
          /\ obeyed' = obeyed \cup {who}
          /\ UNCHANGED owner
    /\ UNCHANGED <<named, fileVars, up, fresh, starts, slips>>

\* A variation: the state file itself is opened for writing.
WriteInPlace ==
    /\ work = "write"
    /\ beside' = owner /\ disk' = Broken /\ work' = "move"
    /\ UNCHANGED <<named, owner, up, fresh, waiting, obeyed, starts, slips>>

\* Store.save: the file beside is written and flushed, then moved.
WriteBeside ==
    /\ work = "write"
    /\ beside' = owner /\ disk' = disk /\ work' = "move"
    /\ UNCHANGED <<named, owner, up, fresh, waiting, obeyed, starts, slips>>

MoveOver ==
    /\ work = "move"
    /\ disk' = beside /\ beside' = Absent /\ work' = "idle"
    /\ obeyed' = obeyed \cup {waiting}
    /\ UNCHANGED <<named, owner, up, fresh, waiting, starts, slips>>

\* StoreError: the file beside goes, the memory keeps the claim, the message
\* is not obeyed.
SaveFails ==
    /\ work \in {"write", "move"} /\ slips < MaxSlips
    /\ slips' = slips + 1
    /\ beside' = Absent /\ work' = "idle"
    /\ UNCHANGED <<named, disk, owner, up, fresh, waiting, obeyed, starts>>

Crash ==
    /\ up
    /\ up' = FALSE /\ fresh' = FALSE /\ owner' = Nobody
    /\ work' = "idle" /\ waiting' = Nobody
    /\ UNCHANGED <<named, fileVars, obeyed, starts, slips>>

Damage ==
    /\ disk # Absent /\ slips < MaxSlips
    /\ slips' = slips + 1 /\ disk' = Broken
    /\ UNCHANGED <<named, beside, owner, up, fresh, work, waiting, obeyed, starts>>

AccessNext ==
    \/ StartBot \/ WindowCloses \/ WriteBeside \/ MoveOver \/ SaveFails \/ Crash \/ Damage
    \/ \E who \in People, private \in BOOLEAN : Message(who, private)

AccessTypeOK ==
    /\ named \in People \cup {Nobody} /\ owner \in People \cup {Nobody}
    /\ disk \in People \cup {Nobody, Absent, Broken}
    /\ beside \in People \cup {Nobody, Absent}
    /\ work \in {"idle", "write", "move"}
    /\ obeyed \subseteq People

\* The bot never obeys two people: a claim that was obeyed is found again
\* after a death of the process between any two steps, as long as the file
\* system neither refused a save nor damaged the file (store.py:97 Store.save,
\* app.py:525 Bot.guard_admin).
OneOwner == slips = 0 => Cardinality(obeyed) <= 1
=============================================================================
