------------------------------- MODULE Lookups -------------------------------
(* Looking for news: the tag of the latest release with its two caches      *)
(* (BOT/releases.py), the refs of the checkout and the update screen that   *)
(* is made of both (BOT/update.py, BOT/app.py).  Lookups run in threads and *)
(* hold the lock of the caches only while they read or write them; GitHub   *)
(* answers with the latest release, with an ETag that names it or without   *)
(* one, says 304 when the ETag it is shown names the latest, or fails.  An  *)
(* answer without an ETag is kept under the ETag of the body before it.     *)
(*                                                                          *)
(* A git fetch takes its time: it reads the head of the branch somewhere in *)
(* between, and its term starts at its end.  One that was given up with its *)
(* route runs on; git itself refuses it when another one moved the ref.     *)
(*                                                                          *)
(* Times are countdowns; those of an entry start when its lookup ends.      *)
(*                                                                          *)
(* Then the cache of the engine's install script as the debug panel shows   *)
(* and renews it (BOT/dbg.py, BOT/scripts.py, BOT/freeturn.py) and as the   *)
(* agent lists, probes and fetches it (Storage/remote/freeturn_agent.py).   *)
(* A copy is kept under its digest, so a new one leaves the others in       *)
(* place.  The panel keeps one record of the script, and a press fetches    *)
(* what that record says, however old, and whatever the message whose       *)
(* button was pressed shows: drawing a screen may fail, and the old one     *)
(* stays there with its buttons.  Checksums of the release are listed too,  *)
(* but never cached and never fetched.                                      *)
EXTENDS Integers, FiniteSets, Sequences

CONSTANTS
  Tags,      \* what tag_name may say
  Plain,     \* the tags without a "v", which only the update of the bot takes
  Lookers,   \* the threads
  OkTtl,     \* OK_TTL
  FailTtl,   \* FAIL_TTL
  Slow,      \* how long one request may take
  FetchTtl,  \* FETCH_TTL, of git fetch
  FetchSlow, \* GIT_TIMEOUT: how long a fetch may take
  MaxNews    \* bound: the releases and pushes that happen

LookupConstants ==
  /\ Plain \subseteq Tags
  /\ {OkTtl, FailTtl, Slow, FetchTtl, FetchSlow, MaxNews} \subseteq Nat /\ OkTtl > 0
  /\ {"no tag", "no body"} \cap Tags = {}

VARIABLES
  latest,    \* the latest release
  age,       \* history: for how long a tag has not been the latest, capped
  cached,    \* CACHE of each kind of lookup
  body,      \* RAW_CACHE: the last body
  etag,      \* ... and the release that the ETag kept with it names
  misled,    \* history: a 304 brought back a body that its ETag does not name
  looker,    \* what each thread is at
  told,      \* history: the last answer since the clock ticked
  pushed,    \* how often the branch was pushed to
  refs,      \* which push origin/<branch> of the checkout shows
  refsLeft,  \* for how long no fetch is made
  fetch,     \* the git fetch at work
  refsAge,   \* history: for how long refs has not been the head of the branch, capped
  news       \* what happened on GitHub

lookVars == <<latest, age, cached, body, etag, misled, looker, told, pushed, refs,
              refsLeft, fetch, refsAge, news>>
hub == <<latest, pushed, news>>
caches == <<cached, body, etag>>
branch == <<refs, refsLeft, fetch, refsAge>>

Kinds == {"pinned", "any"}
NoTag == "no tag"
NoBody == "no body"
Idle == [at |-> "idle"]
Entry(tag, left) == [tag |-> tag, left |-> left]
Old == OkTtl + Slow
Past == FetchSlow + FetchTtl + 1

LookInit ==
  /\ latest \in Tags
  /\ age = [t \in Tags |-> IF t = latest THEN 0 ELSE Old]
  /\ cached = [k \in Kinds |-> Entry(NoTag, 0)]
  /\ body = Entry(NoBody, 0) /\ etag = NoTag /\ misled = FALSE
  /\ looker = [l \in Lookers |-> Idle]
  /\ told = NoTag
  /\ pushed = 0 /\ refs = 0 /\ refsLeft = 0 /\ refsAge = 0 /\ fetch = Idle
  /\ news = 0

-----------------------------------------------------------------------------
(* releases.py                                                             *)

\* tag_of and any_tag_of.
Parsed(kind, tag) == IF tag \in Tags /\ (kind = "any" \/ tag \notin Plain) THEN tag ELSE NoTag

\* A variation: what is read from the body is good for a whole term.
RenewedLeft == OkTtl

\* A tag read from the body lives as long as the body.
BodyLeft == body.left

\* cached_lookup, under the lock: an entry that lives, or one made of a body that
\* does; else a request goes out, with the ETag of the body there is.
Look(l, kind) ==
  /\ looker[l] = Idle
  /\ IF cached[kind].left > 0 THEN told' = cached[kind].tag /\ UNCHANGED <<cached, looker>>
     ELSE IF body.left > 0
     THEN /\ told' = Parsed(kind, body.tag)
          /\ cached' = [cached EXCEPT ![kind] = Entry(told', BodyLeft)]
          /\ UNCHANGED looker
     ELSE /\ looker' = [looker EXCEPT ![l] =
                 [at |-> "asking", kind |-> kind, prior |-> body.tag, shows |-> etag,
                  left |-> Slow]]
          /\ told' = NoTag /\ UNCHANGED cached
  /\ UNCHANGED <<hub, age, body, etag, misled, branch>>

\* fetch_raw: 304 and the prior body; a body with its ETag; one without, to
\* which the prior ETag is kept; or nothing.
Answers(l) ==
  /\ looker[l].at = "asking"
  /\ \E got \in {latest, looker[l].prior, NoBody}, names \in {latest, looker[l].shows} :
       /\ \/ got = looker[l].prior /\ looker[l].shows = latest /\ names = latest
          \/ got = latest /\ looker[l].shows # latest
          \/ got = NoBody
       /\ looker' = [looker EXCEPT ![l] = [at |-> "answered", kind |-> @.kind, got |-> got,
                                           names |-> names, left |-> @.left]]
       /\ misled' = (misled \/ got \notin {latest, NoBody})
  /\ UNCHANGED <<hub, age, caches, told, branch>>

\* The thread takes the lock again.  Whoever comes last stays.
Store(l) ==
  /\ looker[l].at = "answered"
  /\ LET kind == looker[l].kind
         tag == Parsed(kind, looker[l].got)
         left == IF tag # NoTag THEN OkTtl ELSE FailTtl
     IN  /\ told' = tag
         /\ cached' = [cached EXCEPT ![kind] = Entry(tag, left)]
         /\ body' = IF tag # NoTag THEN Entry(tag, left) ELSE body
         /\ etag' = IF tag # NoTag THEN looker[l].names ELSE etag
  /\ looker' = [looker EXCEPT ![l] = Idle]
  /\ UNCHANGED <<hub, age, misled, branch>>

-----------------------------------------------------------------------------
(* update.py                                                               *)

FetchedOnlyIf(ok) == ok

Awaited == fetch # Idle /\ fetch.awaited

\* _fetch_remote: nothing is asked within the term of the last fetch, unless an
\* update is applied.
FetchStart ==
  /\ ~Awaited
  /\ fetch' = [at |-> "asking", awaited |-> TRUE, saw |-> 0, since |-> 0, left |-> FetchSlow]
  /\ UNCHANGED <<hub, age, caches, misled, looker, told, refs, refsLeft, refsAge>>

FetchReads ==
  /\ fetch.at = "asking"
  /\ fetch' = [fetch EXCEPT !.at = "read", !.saw = pushed]
  /\ UNCHANGED <<hub, age, caches, misled, looker, told, refs, refsLeft, refsAge>>

\* A fetch that fails, with nothing read or after the ref was moved, is an error
\* and starts no term; neither does one whose route was given up.
FetchEnd ==
  /\ fetch # Idle
  /\ \E ok, moved \in BOOLEAN :
       /\ (ok => moved) /\ (moved => fetch.at = "read")
       /\ refs' = IF moved THEN fetch.saw ELSE refs
       /\ refsAge' = IF moved THEN fetch.since ELSE refsAge
       /\ refsLeft' = IF FetchedOnlyIf(ok) /\ fetch.awaited THEN FetchTtl ELSE refsLeft
  /\ fetch' = Idle
  /\ UNCHANGED <<hub, age, caches, misled, looker, told>>

\* The time limit of the route.
FetchGivenUp ==
  /\ fetch # Idle
  /\ fetch' = [fetch EXCEPT !.awaited = FALSE]
  /\ UNCHANGED <<hub, age, caches, misled, looker, told, refs, refsLeft, refsAge>>

-----------------------------------------------------------------------------
(* GitHub and the time.                                                    *)

\* A release is published, or withdrawn so that an earlier one is the latest.
Publish(t) ==
  /\ t # latest /\ news < MaxNews
  /\ news' = news + 1
  /\ latest' = t
  /\ age' = [age EXCEPT ![t] = 0]
  /\ UNCHANGED <<caches, misled, looker, told, pushed, branch>>

Push ==
  /\ news < MaxNews
  /\ news' = news + 1 /\ pushed' = pushed + 1
  /\ UNCHANGED <<latest, age, caches, misled, looker, told, branch>>

Less(e) == [e EXCEPT !.left = IF @ > 0 THEN @ - 1 ELSE 0]
Upto(n, most) == IF n < most THEN n + 1 ELSE n

\* A read head grows old, and a fetch that is waited for comes to its time limit.
Later(f) ==
  [f EXCEPT !.left = IF @ > 0 THEN @ - 1 ELSE 0,
            !.since = IF f.at = "asking" \/ f.saw = pushed THEN 0 ELSE Upto(@, Past)]

LookTick ==
  /\ \A l \in Lookers : looker[l] # Idle => looker[l].left > 0
  /\ Awaited => fetch.left > 0
  /\ fetch' = IF fetch = Idle THEN Idle ELSE Later(fetch)
  /\ cached' = [k \in Kinds |-> Less(cached[k])]
  /\ body' = Less(body)
  /\ looker' = [l \in Lookers |-> IF looker[l] = Idle THEN Idle ELSE Less(looker[l])]
  /\ age' = [t \in Tags |-> IF t = latest THEN 0 ELSE Upto(age[t], Old)]
  /\ refsLeft' = IF refsLeft > 0 THEN refsLeft - 1 ELSE 0
  /\ refsAge' = IF refs = pushed THEN 0 ELSE Upto(refsAge, Past)
  /\ told' = NoTag
  /\ UNCHANGED <<hub, etag, misled, refs>>

\* The bot starts again: both caches are in its memory, and git dies with it.
Restarted ==
  /\ cached' = [k \in Kinds |-> Entry(NoTag, 0)]
  /\ body' = Entry(NoBody, 0) /\ etag' = NoTag /\ misled' = FALSE
  /\ looker' = [l \in Lookers |-> Idle]
  /\ refsLeft' = 0 /\ fetch' = Idle
  /\ told' = NoTag
  /\ UNCHANGED <<hub, age, refs, refsAge>>

\* The two halves of a check of the update screen share nothing but the time.
ReleaseNext ==
  \/ \E l \in Lookers : (\E k \in Kinds : Look(l, k)) \/ Answers(l) \/ Store(l)
  \/ LookTick \/ Restarted
  \/ \E t \in Tags : Publish(t)

CommitNext ==
  FetchStart \/ FetchReads \/ FetchEnd \/ FetchGivenUp \/ LookTick \/ Restarted \/ Push

-----------------------------------------------------------------------------
(* Properties.                                                             *)

LookTypeOK ==
  /\ latest \in Tags /\ age \in [Tags -> 0..Old] /\ age[latest] = 0
  /\ \A k \in Kinds : cached[k].tag \in Tags \cup {NoTag} /\ cached[k].left \in 0..(OkTtl + FailTtl)
  /\ body.tag \in Tags \cup {NoBody} /\ body.left \in 0..OkTtl
  /\ \A l \in Lookers : looker[l].at \in {"idle", "asking", "answered"}
  /\ told \in Tags \cup {NoTag}
  /\ etag \in Tags \cup {NoTag} /\ misled \in BOOLEAN
  /\ fetch.at \in {"idle", "asking", "read"}
  /\ refs \in 0..pushed /\ refsLeft \in 0..FetchTtl /\ refsAge \in 0..Past
  /\ news \in 0..MaxNews

\* A lookup never answers with a release that has not been the latest for
\* one term and one request, whichever of the two caches it comes from and
\* in whatever order the threads come back (releases.py:141 cached_lookup).  The
\* exception is a 304 for an ETag that was kept over an answer without one
\* (releases.py:109): it brings back that answer, however old.
FreshTag == told # NoTag /\ ~misled => age[told] < Old

\* While the update screen asks nobody, the head of the branch it shows is older
\* by no more than what the term has run and what the fetch took: the term
\* starts at the end of the fetch, the head is read in between (update.py:530
\* _fetch_remote).
FreshRefs == refsLeft > 0 => refsAge <= FetchSlow + FetchTtl - refsLeft

\* Neither the tag nor the head on the update screen is older than its term and
\* what it took to ask.
NewsIsFresh == FreshTag /\ FreshRefs

-----------------------------------------------------------------------------
(* The cache of the script.                                                 *)

CONSTANTS
  Scripts,    \* the install scripts, each one its digest
  Page,       \* a body that is not the install script
  NoDigest,   \* no answer, no copy, no digest asked for
  NoScreen,   \* no message with the button of a fetch
  MaxQuirks   \* bound of the model: what happens upstream and goes wrong

CacheConstants == Page \notin Scripts /\ NoDigest \notin Scripts \cup {Page} /\ MaxQuirks \in Nat

VARIABLES
  copies,     \* the files of the cache, the newest first
  published,  \* what the address serves
  record,     \* the record of the panel: its copy and what was probed
  shown,      \* the record that the message with the button shows
  chore,      \* what the panel is at
  fetchers,   \* the fetching agents: the digest each was given, what the message of its
              \* press showed, and whether the panel's record was that one still
  quirks

cacheVars == <<copies, published, record, shown, chore, fetchers, quirks>>

Free == [at |-> "free"]
Bodies == Scripts \cup {Page}
Looking == [at |-> "look", list |-> <<>>, probe |-> <<>>]

CacheInit ==
  /\ copies = <<>> /\ published \in Bodies
  /\ record = [listed |-> FALSE, copy |-> NoDigest, remote |-> NoDigest]
  /\ shown = NoScreen
  /\ chore = Free /\ fetchers = {} /\ quirks = 0

Odd == quirks < MaxQuirks /\ quirks' = quirks + 1
Fine == UNCHANGED quirks

-----------------------------------------------------------------------------
(* scripts.py                                                               *)

\* Every copy is listed by one name, and the last of the list, the oldest, is
\* the one that merge finds by it.
Known(list) == IF list = <<>> THEN NoDigest ELSE list[Len(list)]

Merged(list, remote) == [listed |-> TRUE, copy |-> Known(list), remote |-> remote]

Changed(r) == r.copy # NoDigest /\ r.remote # NoDigest /\ r.remote # r.copy
Pending(r) == r.listed /\ (Changed(r) \/ r.copy = NoDigest)

-----------------------------------------------------------------------------
(* The agent.                                                               *)

\* write_cache: a file of the digest, whole or not at all; one that is there
\* is replaced.
Without(c) ==
  IF \E i \in DOMAIN copies : copies[i] = c
  THEN LET i == CHOOSE i \in DOMAIN copies : copies[i] = c
       IN  SubSeq(copies, 1, i - 1) \o SubSeq(copies, i + 1, Len(copies))
  ELSE copies

Written(new) == <<new>> \o Without(new)

\* download: the install script, and the one that was asked for.
Takes(want) == published \in Scripts /\ (want = NoDigest \/ want = published)

\* scripts_fetch of one agent, whoever still waits for it.
AgentFetches(f) ==
  /\ f \in fetchers
  /\ fetchers' = fetchers \ {f}
  /\ \/ copies' = (IF Takes(f.want) THEN Written(published) ELSE copies) /\ Fine
     \/ UNCHANGED copies /\ Odd
  /\ chore' = IF chore.at = "fetch" /\ chore.agent = f THEN Looking ELSE chore
  /\ UNCHANGED <<published, record, shown>>

\* An apply of the plan runs a script it knows the digest of, from the cache or
\* after a download.
EngineFetches ==
  /\ chore = Free
  /\ \E s \in Scripts :
       /\ \A i \in DOMAIN copies : copies[i] # s
       /\ copies' = Written(s)
  /\ UNCHANGED <<published, record, shown, chore, fetchers, quirks>>

-----------------------------------------------------------------------------
(* The panel.                                                               *)

\* render logs an edit or a message that fails, and goes on.
Draws(screen) == shown' = screen /\ Fine
DrawFails == UNCHANGED shown /\ Odd

\* scripts_action: a busy screen, then the check.
Check ==
  /\ chore = Free
  /\ Draws(NoScreen) \/ DrawFails
  /\ chore' = Looking
  /\ UNCHANGED <<copies, published, record, fetchers>>

\* A check that comes too soon after the last one only draws the screen.
TooSoon ==
  /\ chore = Free /\ shown # record
  /\ Draws(record)
  /\ UNCHANGED <<copies, published, record, chore, fetchers>>

\* The list and the probe run side by side; one that fails says nothing.
ListCopies ==
  /\ chore.at = "look" /\ chore.list = <<>>
  /\ \/ chore' = [chore EXCEPT !.list = <<copies>>] /\ Fine
     \/ chore' = [chore EXCEPT !.list = <<<<>>>>] /\ Odd
  /\ UNCHANGED <<copies, published, record, shown, fetchers>>

Probe ==
  /\ chore.at = "look" /\ chore.probe = <<>>
  /\ \/ chore' = [chore EXCEPT !.probe = <<published>>] /\ Fine
     \/ chore' = [chore EXCEPT !.probe = <<NoDigest>>] /\ Odd
  /\ UNCHANGED <<copies, published, record, shown, fetchers>>

Merge ==
  /\ chore.at = "look" /\ chore.list # <<>> /\ chore.probe # <<>>
  /\ record' = Merged(chore.list[1], chore.probe[1])
  /\ chore' = [at |-> "draw"]
  /\ UNCHANGED <<copies, published, shown, fetchers, quirks>>

Draw ==
  /\ chore.at = "draw"
  /\ Draws(record) \/ DrawFails
  /\ chore' = Free
  /\ UNCHANGED <<copies, published, record, fetchers>>

\* A variation: the press passes no digest on.
WantsAny == NoDigest

\* What a press asks the agent for.
Wanted == record.remote

\* scripts_fetch: with nothing pending, the cache is said to be up to date.
Press ==
  /\ chore = Free /\ shown # NoScreen
  /\ IF Pending(record)
     THEN /\ LET f == [want |-> Wanted, screen |-> shown, current |-> shown = record]
             IN  chore' = [at |-> "fetch", agent |-> f] /\ fetchers' = fetchers \cup {f}
          /\ Draws(NoScreen) \/ DrawFails
     ELSE /\ Draws(record) \/ DrawFails
          /\ UNCHANGED <<chore, fetchers>>
  /\ UNCHANGED <<copies, published, record>>

\* The time limit of the route: the panel is free, the agent goes on, and the
\* screen that says so has no button, if it comes through.
Cancelled ==
  /\ chore # Free /\ Odd
  /\ chore' = Free
  /\ shown' \in {shown, NoScreen}
  /\ UNCHANGED <<copies, published, record, fetchers>>

\* Upstream serves something else.
Serves(new) ==
  /\ new # published /\ Odd
  /\ published' = new
  /\ UNCHANGED <<copies, record, shown, chore, fetchers>>

CacheNext ==
  \/ (\E f \in fetchers : AgentFetches(f)) \/ EngineFetches
  \/ Check \/ TooSoon \/ ListCopies \/ Probe \/ Merge \/ Draw \/ Press \/ Cancelled
  \/ \E new \in Bodies : Serves(new)

-----------------------------------------------------------------------------
CacheTypeOK ==
  /\ copies \in Seq(Bodies) /\ Len(copies) <= 3 /\ published \in Bodies
  /\ record.listed \in BOOLEAN
  /\ {record.copy, record.remote} \subseteq Bodies \cup {NoDigest}
  /\ chore.at \in {"free", "look", "draw", "fetch"}
  /\ \A f \in fetchers : f.want \in Bodies \cup {NoDigest}
  /\ quirks \in 0..MaxQuirks

\* What is written for a press is what the record it was made from asks for.
AsListed(f, new) == Pending(f.screen) /\ f.screen.remote \in {NoDigest, new}

\* A fetch writes the body that the check saw upstream, as long as the message
\* whose button was pressed showed the check that the panel had made last: not
\* another one when upstream has changed since, and not by an agent that
\* outlived its panel.  A check that saw nothing upstream asks for no digest,
\* and then any script is taken; a body that is no script never is (dbg.py:544
\* scripts_fetch; README.md:87-88).
FetchedIsConfirmed ==
  [][copies' # copies =>
       /\ copies'[1] # Page
       /\ \A f \in fetchers \ fetchers' : f.current => AsListed(f, copies'[1])]_cacheVars
===============================================================================
