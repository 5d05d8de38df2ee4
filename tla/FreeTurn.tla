------------------------------- MODULE FreeTurn -------------------------------
(***************************************************************************)
(* The FreeTurn panel of the bot and the agent behind it.  The agent takes *)
(* the install script from its cache or from upstream, checks its digest,  *)
(* and runs it; the script owns the engine and its clients.  The panel     *)
(* keeps a link for every client, and the subscription serves those links. *)
(* A link names the client's id and the key of the engine; the transport,  *)
(* which the panel rewrites in place, is left out.                         *)
(* One route is at work at a time (ActionGate); a name that is typed in is *)
(* added beside it, outside the lock, and an agent that was given up may   *)
(* still be at work.  After it, the traffic of the clients.                *)
(***************************************************************************)
EXTENDS Integers, FiniteSets, FiniteSetsExt

CONSTANTS
    Names,      \* the clients that may be added
    MaxGen,     \* bound of the model: ids and keys handed out
    MaxFaults,  \* bound of the model: answers lost and restarts
    MaxChanges  \* bound of the model: changes of the files, with these faults

FreeTurnConstants == "owner" \notin Names /\ {MaxGen, MaxFaults, MaxChanges} \subseteq Nat

VARIABLES
    offered,    \* does the api name a release with a published digest?
    upstream,   \* what github serves for each version
    cache,      \* what the cache holds under the digest of each version
    ran,        \* what was last handed to bash
    installed, clients, key, readable,  \* the engine, and whether its link files are
    draft,      \* the version of the plan on the screen
    links,      \* the links of the panel, which the subscription serves
    saved,      \* the links of the state file
    keyOnce,    \* a key that was typed in and not yet applied
    call,       \* the calls of the agent that are under way
    gen, lost,  \* ids handed out; has an answer been lost since the last check?
    stray,      \* history: names whose link is an older one, and why
    mishaps

turnVars == <<offered, upstream, cache, ran, installed, clients, key,
              readable, draft, links, saved, keyOnce, call, gen, lost, stray, mishaps>>
netVars == <<offered, upstream>>
engineVars == <<installed, clients, key, readable>>
panelVars == <<draft, links, saved, keyOnce>>
pastVars == <<lost, stray>>

Versions == {"pinned", "fresh"}
Holders == Names \cup {"owner"}
NoLink == [id |-> 0, key |-> 0]
NoLinks == [n \in Holders |-> NoLink]
Gone == [n \in Holders |-> 0]

\* A call of the agent: its script was checked and is not yet run, or its
\* answer is on the way.  swapped: the file was damaged after the check;
\* old: the engine moved on after the answer.
Callers == {"route", "input", "orphan"}
Ops == {"apply", "check", "add", "open", "remove", "uninstall"}
NoCall == [at |-> "none", op |-> "check", name |-> "owner", version |-> "pinned",
           rekey |-> FALSE, told |-> NoLinks, swapped |-> FALSE, old |-> FALSE]
Answered(c) == call[c].at = "answered"

TurnInit ==
    /\ offered \in BOOLEAN
    /\ upstream = [v \in Versions |-> "good"]
    /\ cache = [v \in Versions |-> "none"] /\ ran = "none"
    /\ installed = FALSE /\ clients = Gone /\ key = 0 /\ readable \in BOOLEAN
    /\ draft = "latest"
    /\ links = NoLinks /\ saved = NoLinks
    /\ keyOnce = FALSE /\ gen = 0 /\ lost = FALSE /\ stray = {} /\ mishaps = 0
    /\ call = [c \in Callers |-> NoCall]

\* The api names a release and its install script has a published digest.
Published == offered

\* The tag a request means: the fixed build, or the newest release if its
\* digest is known.
Resolve(version) == IF version = "latest" /\ Published THEN "fresh" ELSE "pinned"

\* download: any host but github, a body over the limit, one that is not the
\* install script or has another digest, and nothing is written.
Download(v) ==
    /\ upstream[v] = "good"
    /\ cache' = [cache EXCEPT ![v] = "good"]

\* read_cache: a cached file is hashed on every read and a changed one
\* unlinked.
Cached(v) == cache[v] = "good"

\* script_source: from the cache, else from upstream.
Source(v) ==
    \/ Cached(v) /\ UNCHANGED cache
    \/ ~Cached(v) /\ Download(v)
Unsourced(v) ==
    /\ ~Cached(v)
    /\ cache' = [cache EXCEPT ![v] = "none"]

Link(n) == [id |-> clients'[n], key |-> key']
EngineLinks == [n \in Holders |-> IF readable /\ clients'[n] # 0 THEN Link(n) ELSE NoLink]

\* A variation: the links of a replaced key are kept.
LearnOld(told, rekey) ==
    links' = IF told # NoLinks THEN told ELSE links

\* The links after a check or an apply: what the engine reports, else what
\* was there, but for a key that was replaced.
Learn(told, rekey) ==
    links' = IF told # NoLinks THEN told ELSE IF rekey THEN NoLinks ELSE links

\* A button of the plan.
CycleVersion ==
    /\ call["route"] = NoCall
    /\ draft' = IF draft = "latest" THEN "pinned" ELSE "latest"
    /\ saved' = links
    /\ UNCHANGED <<netVars, cache, ran, engineVars, links, keyOnce, call, gen, pastVars, mishaps>>

\* stop, restart, the list of the clients, and every other save of the bot.
Save ==
    /\ saved' = links
    /\ UNCHANGED <<netVars, cache, ran, engineVars, draft, links, keyOnce, call, gen, pastVars,
                   mishaps>>

TypeKey ==
    /\ keyOnce' = TRUE /\ saved' = links
    /\ UNCHANGED <<netVars, cache, ran, engineVars, draft, links, call, gen, pastVars, mishaps>>

\* A button or a typed name: the bot names a version and its digest, and the
\* agent checks its copy of that script or gets one.  The owner is not
\* removed and not added.
Send(c, op, n) ==
    LET v == IF op = "apply" THEN Resolve(draft) ELSE "pinned" IN
    /\ call[c] = NoCall
    /\ c = "input" <=> op = "add"
    /\ op \in {"add", "remove"} => n # "owner"
    /\ op \notin {"add", "open", "remove"} => n = "owner"
    /\ \/ /\ Source(v)
          /\ call' = [call EXCEPT ![c] =
                 [NoCall EXCEPT !.at = "checked", !.op = op, !.name = n, !.version = v,
                                !.rekey = op = "apply" /\ keyOnce]]
       \/ Unsourced(v) /\ UNCHANGED call
    /\ UNCHANGED <<netVars, ran, engineVars, panelVars, gen, pastVars, mishaps>>

\* The engine after an apply: it creates the owner, and a key of its own
\* when none was sent.
Applied(rekey) ==
    /\ gen < MaxGen /\ gen' = gen + 1
    /\ installed' = TRUE
    /\ key' = IF rekey \/ key = 0 THEN gen + 1 ELSE key
    /\ clients' = [clients EXCEPT !["owner"] = IF @ = 0 THEN gen + 1 ELSE @]

\* What the script does.
Works(op, n, rekey) ==
    \/ op = "apply" /\ Applied(rekey)
    \/ /\ op = "add" /\ installed /\ clients[n] = 0
       /\ gen < MaxGen /\ gen' = gen + 1
       /\ clients' = [clients EXCEPT ![n] = gen + 1]
       /\ UNCHANGED <<installed, key>>
    \/ /\ op = "remove" /\ installed /\ clients[n] # 0
       /\ clients' = [clients EXCEPT ![n] = 0]
       /\ UNCHANGED <<installed, key, gen>>
    \/ /\ op = "uninstall" /\ installed
       /\ installed' = FALSE /\ clients' = Gone /\ key' = 0 /\ UNCHANGED gen
    \/ /\ op \in {"check", "open"} /\ installed
       /\ op = "open" => clients[n] # 0
       /\ UNCHANGED <<installed, clients, key, gen>>

\* What the script and, for an apply and a check, the agent report.
Report(op, n) ==
    IF op \in {"apply", "check"} THEN EngineLinks
    ELSE IF op \in {"add", "open"} THEN [NoLinks EXCEPT ![n] = Link(n)] ELSE NoLinks

\* bash opens the file that is under the checked name by now, escaped from
\* the sandbox or not.
Handed(k) == ran' = IF k.swapped /\ cache[k.version] = "changed" THEN "swapped" ELSE cache[k.version]

\* A key or the id of a client is no longer what it was.
Moved == key' # key \/ \E n \in Holders : clients[n] # 0 /\ clients'[n] # clients[n]
Aged == [c \in Callers |-> [call[c] EXCEPT !.old = @ \/ (Moved /\ Answered(c))]]

Run(c) ==
    LET k == call[c] IN
    /\ k.at = "checked" /\ cache[k.version] # "none"
    /\ Handed(k) /\ Works(k.op, k.name, k.rekey)
    /\ \/ /\ c # "orphan"
          /\ call' = [Aged EXCEPT ![c].at = "answered", ![c].told = Report(k.op, k.name)]
          /\ UNCHANGED <<lost, mishaps>>
       \/ /\ c = "orphan" /\ lost' = TRUE
          /\ call' = [Aged EXCEPT ![c] = NoCall]
          /\ UNCHANGED mishaps
       \/ \* no answer from the escaped run, and the agent runs it a second time
          /\ mishaps < MaxFaults /\ mishaps' = mishaps + 1
          /\ lost' = TRUE /\ call' = Aged
    /\ UNCHANGED <<netVars, cache, readable, panelVars, stray>>

\* The script says no, or does not start: an answer, and nothing has changed.
Refused(c) ==
    /\ call[c].at = "checked"
    /\ call' = [call EXCEPT ![c] = NoCall]
    /\ UNCHANGED <<netVars, cache, ran, engineVars, panelVars, gen, pastVars, mishaps>>

Hang(c) == call' = [call EXCEPT ![c] = NoCall]
Silent == UNCHANGED <<netVars, cache, ran, engineVars, gen, mishaps>>

\* The bot hears of an apply or a check.  A key that was typed meanwhile goes
\* with the one that was sent.
HearEngine(c) ==
    LET k == call[c]
        sure == ~k.old /\ (k.rekey \/ links' = k.told) IN
    /\ Answered(c) /\ k.op \in {"apply", "check"}
    /\ Learn(k.told, k.rekey)
    /\ keyOnce' = (keyOnce /\ k.op = "check")
    /\ saved' = links'
    /\ lost' = (lost /\ ~sure)
    /\ stray' = IF sure THEN {} ELSE stray
    /\ Hang(c) /\ Silent /\ UNCHANGED draft

\* remember_link compares the table with itself and so never saves.
Remember(n, link) ==
    links' = [links EXCEPT ![n] = link]

\* The bot hears of one client.  The screen of a client reads the counters
\* too, and saves the state if it could.
HearClient(c) ==
    LET k == call[c]
        others == stray \ ({k.name} \X {"restart", "overtaken"}) IN
    /\ Answered(c) /\ k.op \in {"add", "open"}
    /\ Remember(k.name, k.told[k.name])
    /\ (saved' = saved) \/ (k.op = "open" /\ saved' = links')
    /\ stray' = IF k.old THEN stray \cup {<<k.name, "overtaken">>} ELSE others
    /\ Hang(c) /\ Silent /\ UNCHANGED <<draft, keyOnce, lost>>

\* A removed client keeps its link in the table; a removed engine takes all.
HearRest(c) ==
    LET op == call[c].op IN
    /\ Answered(c)
    /\ \/ op = "remove" /\ UNCHANGED <<links, saved, stray>>
       \/ op = "uninstall" /\ links' = NoLinks /\ saved' = NoLinks /\ stray' = {}
    /\ lost' = (lost /\ (op # "uninstall" \/ call[c].old))
    /\ Hang(c) /\ Silent /\ UNCHANGED <<draft, keyOnce>>

\* The time limit of the bot: an answer is not heard, a script runs on.
GiveUp(c) ==
    /\ mishaps < MaxFaults /\ mishaps' = mishaps + 1
    /\ c # "orphan" /\ call[c] # NoCall
    /\ \/ Answered(c) /\ lost' = TRUE /\ Hang(c)
       \/ /\ ~Answered(c) /\ call["orphan"] = NoCall
          /\ call' = [call EXCEPT !["orphan"] = call[c], ![c] = NoCall]
          /\ UNCHANGED lost
    /\ UNCHANGED <<netVars, cache, ran, engineVars, panelVars, gen, stray>>

\* The debug screen fetches a script under the digest it found.
FetchScript ==
    /\ \E v \in Versions : Download(v)
    /\ UNCHANGED <<netVars, ran, engineVars, panelVars, call, gen, pastVars, mishaps>>

\* Upstream changes a file, a release appears, a cached file is damaged.
Outside ==
    /\ mishaps < MaxChanges /\ mishaps' = mishaps + 1
    /\ \/ \E v \in Versions : upstream' = [upstream EXCEPT ![v] = "changed"]
          /\ UNCHANGED <<offered, cache, call>>
       \/ offered' = ~offered /\ UNCHANGED <<upstream, cache, call>>
       \/ \E v \in Versions :
             /\ cache[v] # "none" /\ cache' = [cache EXCEPT ![v] = "changed"]
             /\ call' = [c \in Callers |-> [call[c] EXCEPT
                    !.swapped = @ \/ (call[c].at = "checked" /\ call[c].version = v)]]
             /\ UNCHANGED netVars
    /\ UNCHANGED <<ran, engineVars, panelVars, gen, pastVars>>

\* The bot starts again and reads the links of the state file; a script that
\* escaped the sandbox runs on.
Restart ==
    /\ mishaps < MaxFaults /\ mishaps' = mishaps + 1
    /\ links' = saved /\ keyOnce' = FALSE
    /\ lost' = (lost \/ \E c \in Callers : Answered(c))
    /\ stray' = stray \cup ({n \in Holders : links[n] # saved[n]} \X {"restart"})
    /\ \E k \in {NoCall} \cup {call[c] : c \in {d \in Callers : call[d].at = "checked"}} :
          call' = [c \in Callers |-> IF c = "orphan" THEN k ELSE NoCall]
    /\ UNCHANGED <<netVars, cache, ran, engineVars, draft, saved, gen>>

CallNext(ops) ==
    \/ \E op \in ops, n \in Holders : \E c \in {"route", "input"} : Send(c, op, n)
    \/ \E c \in Callers : Run(c) \/ Refused(c)
    \/ \E c \in {"route", "input"} : HearEngine(c) \/ HearClient(c) \/ HearRest(c) \/ GiveUp(c)
    \/ Restart

\* What the script does to the engine is the same wherever it comes from.
ScriptNext == CycleVersion \/ FetchScript \/ Outside \/ CallNext({"apply"})
TurnNext == TypeKey \/ Save \/ CallNext(Ops)

TurnTypeOK ==
    /\ offered \in BOOLEAN
    /\ upstream \in [Versions -> {"good", "changed"}]
    /\ cache \in [Versions -> {"none", "good", "changed"}]
    /\ draft \in {"latest", "pinned"}
    /\ DOMAIN links = Holders /\ DOMAIN saved = Holders /\ DOMAIN call = Callers
    /\ clients \in [Holders -> 0..MaxGen] /\ key \in 0..MaxGen /\ gen \in 0..MaxGen

\* The links of these clients of the engine open it: each has the client's
\* id and the engine's key.
OpenFor(these) ==
    \A n \in these :
        clients[n] # 0 /\ links[n] # NoLink => links[n].id = clients[n] /\ links[n].key = key

\* When no answer is on its way and none was lost, a link that the
\* subscription serves for a client of the engine opens it: after any number
\* of applies with new keys, removals and additions of the same name, beside
\* each other or not.  Two kinds of names are left out: those whose link was
\* not saved before a restart, and those whose answer was overtaken by a new
\* key or a removal (ftpanel.py:383-398 FtPanel.apply, 587 remember_link).
Quiet == ~lost /\ \A c \in Callers : ~Answered(c)
LinksOpenEngine ==
    Quiet => OpenFor({n \in Holders : \A why \in {"restart", "overtaken"} : <<n, why>> \notin stray})

\* bash is never given a script with another digest than the one asked for,
\* whatever upstream serves and whatever became of the cached file before
\* the agent checked it (README.md:87 "rechecked against its pinned sha256 on
\* every read"; freeturn_agent.py:353 script_source).
RunsVerified == ran # "changed"

\* The engine is the one asked for, and the links that are served open it.
EngineIsTrue == RunsVerified /\ LinksOpenEngine

-----------------------------------------------------------------------------
(* The byte counts of the clients (BOT/traffic.py and the screens of        *)
(* BOT/ftpanel.py that refresh them).  The counters of wireguard belong to  *)
(* a key and start anew with the interface; the panel adds them up by name, *)
(* in the state file, and shows what passed in all and today.  Received and *)
(* sent bytes go the same way: one of them is kept.                         *)

CONSTANTS
    Users,      \* the names clients may have
    MaxBytes,   \* bound of the model: bytes that pass
    MaxPeers,   \* bound of the model: keys handed out
    MaxDays,    \* bound of the model: days
    MaxResets   \* bound of the model: restarts of the interface and of the bot

TrafficConstants == MaxBytes \in Nat /\ MaxPeers \in Nat /\ MaxDays \in Nat /\ MaxResets \in Nat

VARIABLES
    peer,     \* the key of each client of the engine, 0 for none
    counter,  \* what wireguard counted for each key
    listed,   \* the clients the panel knows of, with their keys
    history,  \* what the state file holds for each name
    date,
    passed, today,  \* the bytes of each name, ever and on this date
    dealt, resets

trafficVars == <<peer, counter, listed, history, date, passed, today, dealt, resets>>
countVars == <<counter, passed, today>>

PeerKeys == 1..MaxPeers
Whole == [u \in {x \in Users : peer[x] # 0} |-> peer[u]]
Nothing == [rx |-> 0, day |-> 0, rx0 |-> 0]

TrafficInit ==
    /\ peer = [u \in Users |-> 0]
    /\ counter = [k \in PeerKeys |-> 0]
    /\ listed = << >> /\ history = << >>
    /\ date = 1
    /\ passed = [u \in Users |-> 0] /\ today = [u \in Users |-> 0]
    /\ dealt = 0 /\ resets = 0

\* A variation: yesterday's base is kept as long as the count has not fallen.
DayBaseKept(stored, rx) ==
    IF stored.day = 0 \/ rx < stored.rx0
    THEN [rx |-> rx, day |-> date, rx0 |-> rx]
    ELSE [rx |-> rx, day |-> date, rx0 |-> stored.rx0]

\* day_base: the count at the first look of a day, kept until the next.
DayBase(stored, rx) ==
    IF stored.day # date \/ rx < stored.rx0
    THEN [rx |-> rx, day |-> date, rx0 |-> rx]
    ELSE [rx |-> rx, day |-> stored.day, rx0 |-> stored.rx0]

\* wg-peers: the keys the interface has, each with its count.
Reported == {peer[x] : x \in Users} \ {0}
Live(k) == IF k \in Reported THEN counter[k] ELSE 0
Stored(u) == IF u \in DOMAIN history THEN history[u] ELSE Nothing

\* Traffic.usage for a client: a count never falls below the stored one.
Usage(u, k) == DayBase(Stored(u), Max({Live(k), Stored(u).rx}))

\* refresh_traffic: only the clients the panel lists have a row, and the rows
\* are the new history; without wireguard's answer nothing changes.
Refresh(list) ==
    \/ history' = [u \in DOMAIN list |-> Usage(u, list[u])]
    \/ UNCHANGED history

\* day_rx, on the screen of a client.
ShownToday(u) == Max({history[u].rx - history[u].rx0, 0})

Flow(u) ==
    /\ peer[u] # 0
    /\ MapThenSumSet(LAMBDA x : passed[x], Users) < MaxBytes
    /\ counter' = [counter EXCEPT ![peer[u]] = @ + 1]
    /\ passed' = [passed EXCEPT ![u] = @ + 1]
    /\ today' = [today EXCEPT ![u] = @ + 1]
    /\ UNCHANGED <<peer, listed, history, date, dealt, resets>>

ResetCounters ==
    /\ resets < MaxResets /\ resets' = resets + 1
    /\ counter' = [k \in PeerKeys |-> 0]
    /\ UNCHANGED <<peer, listed, history, date, passed, today, dealt>>

NewDay ==
    /\ date < MaxDays /\ date' = date + 1
    /\ today' = [u \in Users |-> 0]
    /\ UNCHANGED <<peer, counter, listed, history, passed, dealt, resets>>

\* add_client: the list is read again, or has the new client at its end.
Join(u) ==
    /\ peer[u] = 0 /\ dealt < MaxPeers
    /\ dealt' = dealt + 1
    /\ peer' = [peer EXCEPT ![u] = dealt + 1]
    /\ listed' \in {[x \in {y \in Users : peer'[y] # 0} |-> peer'[x]],
                    [x \in DOMAIN listed \cup {u} |-> IF x \in DOMAIN listed THEN listed[x]
                                                      ELSE peer'[x]]}
    /\ UNCHANGED <<countVars, history, date, resets>>

\* remove_client: the list is read again, or loses the name; the history is
\* left to the next refresh.
Leave(u) ==
    /\ peer[u] # 0
    /\ peer' = [peer EXCEPT ![u] = 0]
    /\ listed' \in {[x \in {y \in Users : peer'[y] # 0} |-> peer'[x]],
                    [x \in DOMAIN listed \ {u} |-> listed[x]]}
    /\ UNCHANGED <<countVars, history, date, dealt, resets>>

\* The screen of the clients; that of the traffic reads the list only when it
\* has none.
ReadClients == listed' = Whole /\ Refresh(Whole) /\ UNCHANGED <<peer, countVars, date, dealt, resets>>
ReadTraffic ==
    /\ listed' = IF listed = << >> THEN Whole ELSE listed
    /\ Refresh(listed')
    /\ UNCHANGED <<peer, countVars, date, dealt, resets>>

\* The screen of a client, which adds that client to a list that lacks it.
OpenUser(u) ==
    /\ peer[u] # 0
    /\ listed' = [x \in DOMAIN listed \cup {u} |-> IF x \in DOMAIN listed THEN listed[x]
                                                   ELSE peer[x]]
    /\ Refresh(listed')
    /\ UNCHANGED <<peer, countVars, date, dealt, resets>>

\* uninstall drops the engine and the list.
DropEngine ==
    /\ listed' = << >> /\ peer' = [u \in Users |-> 0]
    /\ UNCHANGED <<countVars, history, date, dealt, resets>>

RestartPanel ==
    /\ resets < MaxResets /\ resets' = resets + 1
    /\ listed' = << >>
    /\ UNCHANGED <<peer, countVars, history, date, dealt>>

TrafficNext ==
    \/ \E u \in Users : Flow(u) \/ Join(u) \/ Leave(u) \/ OpenUser(u)
    \/ ResetCounters \/ NewDay \/ ReadClients \/ ReadTraffic \/ DropEngine \/ RestartPanel

TrafficTypeOK ==
    /\ peer \in [Users -> 0..MaxPeers]
    /\ counter \in [PeerKeys -> 0..MaxBytes]
    /\ DOMAIN listed \subseteq Users /\ DOMAIN history \subseteq Users
    /\ \A u \in DOMAIN history : history[u] \in [rx : 0..MaxBytes, day : 1..MaxDays, rx0 : 0..MaxBytes]

\* What the panel shows for a name has passed: in all no more than ever did,
\* and today no more than on this date, whatever order looks, new days,
\* restarts of the interface and a name given to a new client come in
\* (traffic.py:291 Traffic.day_base, 237 Traffic.usage).
CountsAreReal ==
    \A u \in DOMAIN history :
        /\ history[u].rx <= passed[u]
        /\ history[u].day = date => ShownToday(u) <= today[u]
===============================================================================
