--------------------------- MODULE BotMemoryProofs ---------------------------
(***************************************************************************)
(* Proofs about what the bot keeps between two messages, for any people,   *)
(* clients, names, fields and number of messages.                          *)
(*                                                                         *)
(* A behaviour of BotMemory moves one part, so there is one inductive      *)
(* invariant for each of the parts and a step lemma for it; the            *)
(* composition needs only that a part which rests keeps its invariant.     *)
(***************************************************************************)
EXTENDS BotMemory, FiniteSetTheorems, SequenceTheorems, TLAPS

-----------------------------------------------------------------------------
(* The inductive invariants, one for each part.                            *)

\* What one owner rests on.  Where the environment names nobody, the file
\* names whoever was obeyed, the bot in memory has what the file says, and a
\* save that is under way carries the claim of the person it waits for.
OwnerInv ==
    /\ AccessTypeOK
    /\ up \in BOOLEAN /\ slips \in Nat /\ (work # "idle" => waiting \in People)
    /\ slips = 0 /\ named # Nobody =>
           /\ obeyed \subseteq {named}
           /\ work # "idle" => waiting = named
    /\ slips = 0 /\ named = Nobody =>
           /\ disk \in People \cup {"absent"}
           /\ obeyed \subseteq {disk}
           /\ up /\ disk # "absent" => owner = disk
           /\ up /\ disk = "absent" /\ work = "idle" => owner = Nobody
           /\ work # "idle" => up /\ waiting = owner /\ owner \in People
           /\ work = "move" => beside = owner

\* What is on its way between the bot and the engine.
TurnLinks == [Turn!Holders -> [id : Nat, key : Nat]]
CallRec == [at : {"none", "checked", "answered"}, op : Turn!Ops, name : Turn!Holders,
            version : Turn!Versions, rekey : BOOLEAN, told : TurnLinks,
            swapped : BOOLEAN, old : BOOLEAN]
CallsInv ==
    /\ draft \in {"latest", "pinned"}
    /\ call \in [Turn!Callers -> CallRec]
    /\ \A c \in Turn!Callers : call[c].at # "none" =>
           /\ call[c].op \in {"add", "remove"} => call[c].name # "owner"
           /\ call[c].rekey => call[c].op = "apply"
    /\ call["input"].at # "none" => call["input"].op = "add"
    /\ call["route"].at # "none" => call["route"].op # "add"
    /\ call["orphan"].at # "answered"

\* A script that was checked is still the one that was asked for, unless its
\* file was damaged since.
ScriptInv ==
    /\ ran \in {"none", "good", "swapped"}
    /\ upstream \in [Turn!Versions -> {"good", "changed"}]
    /\ cache \in [Turn!Versions -> {"none", "good", "changed"}]
    /\ \A c \in Turn!Callers : call[c].at = "checked" /\ ~call[c].swapped =>
           cache[call[c].version] # "changed"

\* The engine has a key and an owner exactly while it is installed.
EngineShape ==
    /\ gen \in Nat /\ key \in Nat /\ clients \in [Turn!Holders -> Nat]
    /\ \/ installed = TRUE /\ key # 0 /\ clients["owner"] # 0
       \/ installed = FALSE /\ key = 0 /\ clients = Turn!Gone

TrueLink(l, n) == clients[n] # 0 /\ l.id = clients[n] /\ l.key = key
\* The link opens the engine after the step.
NowTrue(l, n) == clients'[n] # 0 /\ l.id = clients'[n] /\ l.key = key'
Kept(n) == \A why \in {"restart", "overtaken"} : <<n, why>> \notin stray

\* An answer that the engine has not outrun is true.
AnswersInv ==
    /\ \A c \in Turn!Callers : call[c].old => call[c].at = "answered"
    /\ \A c \in Turn!Callers : call[c].at = "answered" /\ ~call[c].old =>
           \A n \in Turn!Holders :
              call[c].told[n] # Turn!NoLink => TrueLink(call[c].told[n], n)
    /\ call["route"].at = "answered" /\ call["route"].old => lost

\* A link of the table is true, or the answer that takes it away is on its way.
Rekeyed == call["route"].at = "answered" /\ call["route"].rekey
Adding(n) == call["input"].at = "answered" /\ call["input"].name = n
Removing == call["route"].at = "answered" /\ call["route"].op = "uninstall"
TableInv ==
    ~lost => \A n \in Turn!Holders : Kept(n) /\ clients[n] # 0 /\ links[n] # Turn!NoLink =>
                 TrueLink(links[n], n) \/ Rekeyed \/ Adding(n)
\* Without an engine the owner has no link.
OwnerLinkInv ==
    ~lost /\ ~installed /\ Kept("owner") => links["owner"] = Turn!NoLink \/ Removing

engineState == <<installed, clients, key, gen>>
SameAnswer(c) ==
    /\ call'[c].at = "answered" <=> call[c].at = "answered"
    /\ call[c].at = "answered" =>
           /\ call'[c].op = call[c].op /\ call'[c].name = call[c].name
           /\ call'[c].rekey = call[c].rekey /\ call'[c].told = call[c].told
           /\ call'[c].old = call[c].old
    /\ call'[c].old => call'[c].at = "answered"

PanelInv ==
    /\ lost \in BOOLEAN /\ keyOnce \in BOOLEAN
    /\ links \in TurnLinks /\ saved \in TurnLinks
    /\ EngineShape /\ AnswersInv /\ TableInv /\ OwnerLinkInv

EngineInv == CallsInv /\ ScriptInv /\ PanelInv

\* What true counts rest on: a key belongs to one name and is new when it is
\* handed out, a listed client has the key of the engine, and the bytes of a
\* name since the first look of the day have passed since that look.
PeersInv ==
    /\ date \in Nat \ {0} /\ dealt \in 0..MaxPeers
    /\ peer \in [Users -> 0..dealt]
    /\ counter \in [Turn!PeerKeys -> Nat]
    /\ passed \in [Users -> Nat] /\ today \in [Users -> Nat]
    /\ \A u, v \in Users : peer[u] = peer[v] /\ peer[u] # 0 => u = v
    /\ \A k \in Turn!PeerKeys : k > dealt => counter[k] = 0
    /\ \A u \in Users : peer[u] # 0 => counter[peer[u]] <= passed[u]

TrueList(table) ==
    DOMAIN table \subseteq Users /\ \A u \in DOMAIN table : table[u] = peer[u] /\ peer[u] # 0

TrueCount(h, u) ==
    /\ h \in [rx : Nat, day : Nat, rx0 : Nat]
    /\ h.rx <= passed[u] /\ h.rx0 <= h.rx
    /\ h.day <= date
    /\ h.day = date => /\ h.rx <= h.rx0 + today[u]
                       /\ peer[u] # 0 => counter[peer[u]] <= h.rx0 + today[u]

TrueHistory == DOMAIN history \subseteq Users /\ \A u \in DOMAIN history : TrueCount(history[u], u)

CountsInv == PeersInv /\ TrueList(listed) /\ TrueHistory

\* What one effect rests on: the deliveries of a pick say the same, and after
\* it was applied each finds a stamp that outlives the window, or a token of
\* an earlier process.
Answered(d) ==
    \/ d.what.token.secret < secret
    \/ \E r \in recent : r.stamp = Inline!Stamp(d.what) /\ r.left >= Twice - age[d.pick]

Known(t) == t \in Inline!Tokens /\ t.secret <= secret

TokensInv ==
    /\ secret \in 0..MaxBoots
    /\ registry \in Seq({t \in Inline!Tokens : t.secret = secret})
    /\ \A t \in buttons : Known(t)
    /\ \A a \in articles : Known(a.token)
    /\ \A d \in sent : Known(d.what.token)

IsMark(r) == r = [stamp |-> r.stamp, left |-> r.left] /\ r.left \in 1..Twice

TalliesInv ==
    /\ tally \in Seq(Nat) /\ age \in Seq(0..Twice) /\ Len(age) = Len(tally)
    /\ \A r \in recent : IsMark(r)
    /\ \A d \in sent : /\ d.pick \in DOMAIN tally
                       /\ tally[d.pick] > 0 /\ age[d.pick] < Twice => Answered(d)
    /\ \A d, e \in sent : d.pick = e.pick => d.what = e.what

PicksInv == TokensInv /\ TalliesInv

\* What the budget of Watched rests on, in the ages that no overflow has made it forget:
\* since its window began it was let in no more often than it was counted, the tap that
\* opened the window is as old as the window, in the window before at most as many were
\* let in as had a window less its first tap, and none since it was last seen.
BudgetInv ==
    /\ LimiterTypeOK /\ IsFiniteSet(DOMAIN buckets)
    /\ Watched \notin DOMAIN buckets => \A a \in Ages : a < gone => let[a] = 0
    /\ Watched \in DOMAIN buckets =>
         LET b == buckets[Watched]
         IN  /\ b.count >= 1
             /\ b.age = Span => b.idle >= 1
             /\ \A a \in Ages : a < gone =>
                  /\ a < b.idle => let[a] = 0
                  /\ a < b.age => let[a] <= b.count - 1 /\ let[a] <= Cap - 1
                  /\ a >= b.age => /\ let[b.age] <= b.count /\ let[b.age] <= Cap
                                   /\ let[a] <= let[b.age] + Cap - 1

\* What no repetition rests on: an event that is still quiet is remembered with the age it
\* has, and the events of a kind are as far apart as its cooldown.
CentreInv ==
    /\ repeated = FALSE
    /\ source \in [Centre!Kinds -> 0..Centre!Widest]
    /\ since \in [Centre!Events -> 0..Centre!Widest]
    /\ DOMAIN seen \subseteq Centre!Events /\ IsFiniteSet(DOMAIN seen)
    /\ \A e \in DOMAIN seen : since[e] = seen[e] /\ source[e[1]] <= seen[e]
    /\ \A e \in Centre!Events \ DOMAIN seen : since[e] >= Around[e[1]]
    /\ \A e, f \in DOMAIN seen :
         e # f /\ e[1] = f[1] /\ seen[e] <= seen[f] /\ seen[f] < Centre!Widest =>
             seen[e] + Cooldown[e[1]] <= seen[f]

-----------------------------------------------------------------------------
(* The owner.                                                              *)

LEMMA OwnerStep == OwnerInv /\ AccessNext => OwnerInv'
  <1> SUFFICES ASSUME OwnerInv, AccessNext PROVE OwnerInv'
    OBVIOUS
  <1> USE MemoryConstants DEF OwnerInv, AccessTypeOK, AccessConstants, fileVars,
          Absent, Broken
  <1>1. CASE StartBot
    BY <1>1 DEF StartBot, Loaded
  <1>2. CASE WindowCloses
    BY <1>2 DEF WindowCloses
  <1>3. CASE WriteBeside
    BY <1>3 DEF WriteBeside
  <1>4. CASE MoveOver
    <2> USE <1>4 DEF MoveOver
    <2>1. AccessTypeOK' /\ up' \in BOOLEAN /\ slips' \in Nat /\ work' = "idle"
      OBVIOUS
    <2>2. slips = 0 /\ named # Nobody => obeyed' \subseteq {named}
      OBVIOUS
    <2>3. ASSUME slips = 0, named = Nobody
          PROVE  /\ disk' \in People /\ disk' = owner /\ waiting = owner
                 /\ obeyed' \subseteq {disk'}
      <3>1. beside = owner /\ waiting = owner /\ owner \in People /\ up
        BY <2>3
      <3>2. obeyed \subseteq {owner}
        BY <2>3, <3>1
      <3>3. QED
        BY <3>1, <3>2
    <2>4. QED
      BY <2>1, <2>2, <2>3
  <1>5. CASE SaveFails
    BY <1>5 DEF SaveFails
  <1>6. CASE Crash
    BY <1>6 DEF Crash
  <1>7. CASE Damage
    BY <1>7 DEF Damage
  <1>8. ASSUME NEW who \in People, NEW private \in BOOLEAN, Message(who, private)
        PROVE  OwnerInv'
    BY <1>8 DEF Message, ClaimOpen, Admin
  <1>9. QED
    BY <1>1, <1>2, <1>3, <1>4, <1>5, <1>6, <1>7, <1>8 DEF AccessNext

LEMMA SameSize == ASSUME NEW S PROVE Cardinality(S) = Cardinality(S)
  BY DEF Cardinality, Cardinality, IsFiniteSet, IsFiniteSet

LEMMA OwnerIsOne == OwnerInv => OneOwner
  <1> SUFFICES ASSUME OwnerInv, slips = 0 PROVE Cardinality(obeyed) <= 1
    BY SameSize DEF OneOwner, OneOwner
  <1>1. \E x : obeyed \subseteq {x}
    BY DEF OwnerInv
  <1>2. PICK x : obeyed \subseteq {x}
    BY <1>1
  <1>3. IsFiniteSet({x}) /\ Cardinality({x}) = 1
    BY FS_Singleton
  <1>4. Cardinality(obeyed) <= Cardinality({x})
    BY <1>2, <1>3, FS_Subset
  <1>5. QED
    BY <1>3, <1>4

-----------------------------------------------------------------------------
(* The FreeTurn engine and its links.                                      *)

EngineNext == Turn!TurnNext \/ Turn!ScriptNext

LEMMA NoCallIsCall == Turn!NoCall \in CallRec /\ Turn!NoLinks \in TurnLinks /\ Turn!NoCall.at = "none"
  BY DEF Turn!NoCall, Turn!NoLinks, Turn!NoLink, CallRec, TurnLinks, Turn!Ops, Turn!Versions, Turn!Holders

\* A call that is hung up leaves the others as they are.
LEMMA HungUp ==
  ASSUME CallsInv, NEW c \in Turn!Callers, call' = [call EXCEPT ![c] = Turn!NoCall],
         draft' \in {"latest", "pinned"}
  PROVE  CallsInv'
  BY NoCallIsCall DEF CallsInv, Turn!Callers

\* What happens to a call: it is sent, and its script was checked.
LEMMA SentIsChecked ==
  ASSUME CallsInv, ScriptInv, NEW c \in {"route", "input"}, NEW op \in Turn!Ops,
         NEW n \in Turn!Holders, Turn!Send(c, op, n)
  PROVE  CallsInv' /\ ScriptInv'
  <1> DEFINE v == IF op = "apply" THEN Turn!Resolve(draft) ELSE "pinned"
             k == [Turn!NoCall EXCEPT !.at = "checked", !.op = op, !.name = n, !.version = v,
                                      !.rekey = op = "apply" /\ keyOnce]
  <1>1. v \in Turn!Versions
    BY DEF Turn!Resolve, Turn!Versions
  <1>2. /\ c = "input" <=> op = "add"
        /\ op \in {"add", "remove"} => n # "owner"
        /\ c \in Turn!Callers /\ UNCHANGED <<draft, upstream, ran>>
        /\ \/ Turn!Source(v) /\ call' = [call EXCEPT ![c] = k]
           \/ Turn!Unsourced(v) /\ UNCHANGED call
    BY DEF Turn!Send, Turn!Callers, Turn!netVars, Turn!panelVars
  <1>3. /\ k \in CallRec /\ k.at = "checked" /\ k.op = op /\ k.name = n /\ k.version = v
        /\ ~k.swapped /\ (k.rekey => op = "apply")
    BY <1>1, NoCallIsCall DEF CallRec, Turn!NoCall
  <1> HIDE DEF v, k
  <1>4. CASE Turn!Source(v) /\ call' = [call EXCEPT ![c] = k]
    <2>1. CallsInv'
      BY <1>2, <1>3, <1>4 DEF CallsInv, Turn!Callers
    <2>2. /\ cache' \in [Turn!Versions -> {"none", "good", "changed"}] /\ cache'[v] = "good"
          /\ \A w \in Turn!Versions : cache[w] # "changed" => cache'[w] # "changed"
      BY <1>1, <1>4 DEF ScriptInv, Turn!Source, Turn!Cached, Turn!Download
    <2>3. QED
      BY <1>2, <1>3, <1>4, <2>1, <2>2 DEF ScriptInv, CallsInv, CallRec
  <1>5. CASE Turn!Unsourced(v) /\ UNCHANGED call
    <2>1. /\ cache' \in [Turn!Versions -> {"none", "good", "changed"}]
          /\ \A w \in Turn!Versions : cache[w] # "changed" => cache'[w] # "changed"
      BY <1>1, <1>5 DEF ScriptInv, Turn!Unsourced
    <2>2. QED
      BY <1>2, <1>5, <2>1 DEF ScriptInv, CallsInv, CallRec
  <1>6. QED
    BY <1>2, <1>4, <1>5

\* What bash opens is what was checked, or the file was damaged in between.
LEMMA HandedIsChecked ==
  ASSUME CallsInv, ScriptInv, NEW c \in Turn!Callers, call[c].at = "checked", Turn!Handed(call[c])
  PROVE  ran' \in {"none", "good", "swapped"}
  <1>1. call[c].version \in Turn!Versions /\ call[c].swapped \in BOOLEAN
    BY DEF CallsInv, CallRec
  <1>2. cache[call[c].version] \in {"none", "good", "changed"}
    BY <1>1 DEF ScriptInv
  <1>3. QED
    BY <1>1, <1>2 DEF ScriptInv, Turn!Handed

LEMMA AgedCalls ==
  ASSUME CallsInv
  PROVE  /\ Turn!Aged \in [Turn!Callers -> CallRec]
         /\ \A c \in Turn!Callers :
              /\ Turn!Aged[c].at = call[c].at /\ Turn!Aged[c].op = call[c].op
              /\ Turn!Aged[c].name = call[c].name /\ Turn!Aged[c].rekey = call[c].rekey
              /\ Turn!Aged[c].told = call[c].told /\ Turn!Aged[c].version = call[c].version
              /\ Turn!Aged[c].swapped = call[c].swapped
              /\ Turn!Aged[c].old <=> call[c].old \/ (Turn!Moved /\ call[c].at = "answered")
  BY DEF CallsInv, CallRec, Turn!Aged, Turn!Answered

\* What the script does to the engine.
LEMMA EngineWorks ==
  ASSUME CallsInv, EngineShape, NEW c \in Turn!Callers, call[c].at = "checked",
         Turn!Works(call[c].op, call[c].name, call[c].rekey)
  PROVE  EngineShape'
  <1> DEFINE n == call[c].name
  <1>1. n \in Turn!Holders /\ "owner" \in Turn!Holders
        /\ (call[c].op \in {"add", "remove"} => n # "owner")
    BY DEF CallsInv, CallRec, Turn!Holders
  <1> HIDE DEF n
  <1>2. CASE Turn!Applied(call[c].rekey)
    BY <1>1, <1>2 DEF Turn!Applied, EngineShape
  <1>3. CASE /\ installed /\ gen' = gen + 1 /\ n # "owner"
             /\ clients' = [clients EXCEPT ![n] = gen + 1] /\ UNCHANGED <<installed, key>>
    BY <1>1, <1>3 DEF EngineShape
  <1>4. CASE /\ installed /\ n # "owner" /\ clients' = [clients EXCEPT ![n] = 0]
             /\ UNCHANGED <<installed, key, gen>>
    BY <1>1, <1>4 DEF EngineShape
  <1>5. CASE installed' = FALSE /\ clients' = Turn!Gone /\ key' = 0 /\ UNCHANGED gen
    BY <1>5 DEF EngineShape, Turn!Gone
  <1>6. CASE UNCHANGED <<installed, clients, key, gen>>
    BY <1>6 DEF EngineShape
  <1>7. QED
    BY <1>1, <1>2, <1>3, <1>4, <1>5, <1>6 DEF Turn!Works, n

\* What it then reports is true.
LEMMA ReportIsTrue ==
  ASSUME EngineShape', NEW op, NEW n \in Turn!Holders, op \in {"add", "open"} => clients'[n] # 0
  PROVE  /\ Turn!Report(op, n) \in TurnLinks
         /\ \A m \in Turn!Holders :
              Turn!Report(op, n)[m] # Turn!NoLink => NowTrue(Turn!Report(op, n)[m], m)
  <1>1. key' \in Nat /\ clients' \in [Turn!Holders -> Nat]
    BY DEF EngineShape
  <1>2. CASE op \in {"apply", "check"}
    BY <1>1, <1>2 DEF Turn!Report, Turn!EngineLinks, Turn!Link, Turn!NoLink, TurnLinks, TrueLink, NowTrue
  <1>3. CASE op \in {"add", "open"}
    BY <1>1, <1>3
    DEF Turn!Report, Turn!Link, Turn!NoLinks, Turn!NoLink, TurnLinks, TrueLink, NowTrue
  <1>4. CASE op \notin {"apply", "check", "add", "open"}
    BY <1>4 DEF Turn!Report, Turn!NoLinks, Turn!NoLink, TurnLinks
  <1>5. QED
    BY <1>2, <1>3, <1>4

\* The calls after a run of the script.
RunAnswers(c) ==
    /\ c # "orphan" /\ UNCHANGED lost
    /\ call' = [Turn!Aged EXCEPT ![c].at = "answered",
                                 ![c].told = Turn!Report(call[c].op, call[c].name)]
RunUnheard(c) == lost' = TRUE /\ (call' = [Turn!Aged EXCEPT ![c] = Turn!NoCall] \/ call' = Turn!Aged)

LEMMA RunCases ==
  ASSUME NEW c \in Turn!Callers, Turn!Run(c)
  PROVE  /\ call[c].at = "checked" /\ Turn!Handed(call[c])
         /\ Turn!Works(call[c].op, call[c].name, call[c].rekey)
         /\ RunAnswers(c) \/ RunUnheard(c)
         /\ UNCHANGED <<upstream, cache, draft, links, saved, keyOnce, stray>>
  BY DEF Turn!Run, RunAnswers, RunUnheard, Turn!netVars, Turn!panelVars

\* A client that was added or opened has an id.
LEMMA WorkedHasId ==
  ASSUME CallsInv, EngineShape, NEW c \in Turn!Callers, call[c].at = "checked",
         Turn!Works(call[c].op, call[c].name, call[c].rekey),
         call[c].op \in {"add", "open"}
  PROVE  clients'[call[c].name] # 0
  BY DEF Turn!Works, CallsInv, CallRec, EngineShape

LEMMA CallsRun ==
  ASSUME CallsInv, ScriptInv, PanelInv, NEW c \in Turn!Callers, Turn!Run(c)
  PROVE  CallsInv' /\ ScriptInv'
  <1> DEFINE told == Turn!Report(call[c].op, call[c].name)
  <1>1. told \in TurnLinks
    BY RunCases, EngineWorks, ReportIsTrue, WorkedHasId DEF PanelInv, CallsInv, CallRec
  <1> HIDE DEF told
  <1>2. ran' \in {"none", "good", "swapped"} /\ UNCHANGED <<upstream, cache, draft>>
    BY RunCases, HandedIsChecked
  <1>3. CASE RunAnswers(c)
    <2>1. /\ call' \in [Turn!Callers -> CallRec]
          /\ \A d \in Turn!Callers : /\ call'[d].op = call[d].op /\ call'[d].name = call[d].name
                                     /\ call'[d].rekey = call[d].rekey
                                     /\ call'[d].version = call[d].version
                                     /\ call'[d].swapped = call[d].swapped
                                     /\ call'[d].at = IF d = c THEN "answered" ELSE call[d].at
          /\ c # "orphan" /\ call[c].at = "checked"
      <3>1. /\ Turn!Aged \in [Turn!Callers -> CallRec] /\ c # "orphan" /\ call[c].at = "checked"
            /\ \A d \in Turn!Callers :
                 call'[d] = IF d = c THEN [Turn!Aged[c] EXCEPT !.at = "answered", !.told = told]
                                     ELSE Turn!Aged[d]
            /\ DOMAIN call' = Turn!Callers /\ call' = [d \in Turn!Callers |-> call'[d]]
        BY <1>3, AgedCalls, RunCases DEF RunAnswers, CallRec, told
      <3>2. [Turn!Aged[c] EXCEPT !.at = "answered", !.told = told] \in CallRec
        BY <1>1, <3>1 DEF CallRec
      <3>3. call' \in [Turn!Callers -> CallRec]
        BY <3>1, <3>2
      <3>4. /\ call'[c].at = "answered" /\ call'[c].op = Turn!Aged[c].op
            /\ call'[c].name = Turn!Aged[c].name /\ call'[c].rekey = Turn!Aged[c].rekey
            /\ call'[c].version = Turn!Aged[c].version /\ call'[c].swapped = Turn!Aged[c].swapped
        BY <3>1 DEF CallRec
      <3>5. QED
        BY <3>1, <3>3, <3>4, AgedCalls
    <2>2. CallsInv'
      BY <1>2, <2>1 DEF CallsInv, Turn!Callers
    <2>3. \A d \in Turn!Callers : call'[d].at = "checked" /\ ~call'[d].swapped =>
             cache'[call'[d].version] # "changed"
      BY <1>2, <2>1 DEF ScriptInv
    <2>4. QED
      BY <1>2, <2>2, <2>3 DEF ScriptInv
  <1>4. CASE RunUnheard(c)
    <2>1. /\ call' \in [Turn!Callers -> CallRec]
          /\ \A d \in Turn!Callers :
               \/ call'[d] = Turn!NoCall
               \/ /\ call'[d].op = call[d].op /\ call'[d].name = call[d].name
                  /\ call'[d].rekey = call[d].rekey /\ call'[d].version = call[d].version
                  /\ call'[d].swapped = call[d].swapped /\ call'[d].at = call[d].at
      BY <1>4, AgedCalls, NoCallIsCall DEF RunUnheard
    <2>2. QED
      BY <1>2, <2>1, NoCallIsCall DEF CallsInv, ScriptInv, Turn!Callers
  <1>5. QED
    BY <1>3, <1>4, RunCases

LEMMA CallsHeard ==
  ASSUME CallsInv, ScriptInv, NEW c \in {"route", "input"},
         Turn!HearEngine(c) \/ Turn!HearClient(c) \/ Turn!HearRest(c) \/ Turn!GiveUp(c)
  PROVE  CallsInv' /\ ScriptInv'
  <1>1. UNCHANGED <<draft, upstream, cache, ran>> /\ c \in Turn!Callers
    BY DEF Turn!HearEngine, Turn!HearClient, Turn!HearRest, Turn!GiveUp, Turn!Silent, Turn!netVars,
           Turn!panelVars, Turn!Callers
  <1>2. CASE call' = [call EXCEPT ![c] = Turn!NoCall]
    BY <1>1, <1>2, HungUp, NoCallIsCall DEF ScriptInv, CallsInv
  <1>3. CASE /\ call[c].at # "answered"
             /\ call' = [call EXCEPT !["orphan"] = call[c], ![c] = Turn!NoCall]
    <2>1. "orphan" \in Turn!Callers /\ c # "orphan"
      BY DEF Turn!Callers
    <2>2. \A d \in Turn!Callers : call'[d] = IF d = c THEN Turn!NoCall
                                             ELSE IF d = "orphan" THEN call[c] ELSE call[d]
      BY <1>3, <2>1 DEF CallsInv
    <2>3. call' \in [Turn!Callers -> CallRec]
      BY <1>1, <1>3, NoCallIsCall DEF CallsInv
    <2>4. CallsInv'
      BY <1>1, <1>3, <2>2, <2>3, NoCallIsCall DEF CallsInv, Turn!Callers
    <2>5. QED
      <3>1. ASSUME NEW d \in Turn!Callers, call'[d].at = "checked", ~call'[d].swapped
            PROVE  cache[call'[d].version] # "changed"
        <4>1. \E e \in Turn!Callers : call'[d] = call[e]
          BY <1>1, <2>1, <2>2, <3>1, NoCallIsCall
        <4>2. QED
          BY <3>1, <4>1 DEF ScriptInv
      <3>2. QED
        BY <1>1, <2>4, <3>1 DEF ScriptInv
  <1>4. QED
    BY <1>2, <1>3
    DEF Turn!HearEngine, Turn!HearClient, Turn!HearRest, Turn!GiveUp, Turn!Hang, Turn!Answered

LEMMA ScriptStep ==
  ASSUME CallsInv, ScriptInv, PanelInv, EngineNext
  PROVE  CallsInv' /\ ScriptInv'
  <1>1. CASE Turn!CycleVersion \/ Turn!TypeKey \/ Turn!Save
    BY <1>1 DEF Turn!CycleVersion, Turn!TypeKey, Turn!Save, CallsInv, ScriptInv, Turn!netVars
  <1>2. CASE Turn!FetchScript
    BY <1>2 DEF Turn!FetchScript, Turn!Download, CallsInv, ScriptInv, Turn!netVars, Turn!panelVars,
                CallRec
  <1>3. CASE Turn!Outside
    <2>1. UNCHANGED <<ran, draft>>
      BY <1>3 DEF Turn!Outside, Turn!panelVars
    <2>2. CASE UNCHANGED <<cache, call>>
      BY <1>3, <2>1, <2>2 DEF Turn!Outside, CallsInv, ScriptInv, Turn!netVars
    <2>3. ASSUME NEW v \in Turn!Versions, cache' = [cache EXCEPT ![v] = "changed"],
                 call' = [c \in Turn!Callers |-> [call[c] EXCEPT
                    !.swapped = @ \/ (call[c].at = "checked" /\ call[c].version = v)]],
                 UNCHANGED upstream
          PROVE  CallsInv' /\ ScriptInv'
      <3>1. /\ call' \in [Turn!Callers -> CallRec]
            /\ \A c \in Turn!Callers :
                 /\ call'[c].at = call[c].at /\ call'[c].op = call[c].op
                 /\ call'[c].name = call[c].name /\ call'[c].rekey = call[c].rekey
                 /\ call'[c].version = call[c].version
                 /\ call'[c].swapped <=>
                      call[c].swapped \/ (call[c].at = "checked" /\ call[c].version = v)
        BY <2>3 DEF CallsInv, CallRec
      <3>2. CallsInv'
        BY <2>1, <3>1 DEF CallsInv, Turn!Callers
      <3>3. \A w \in Turn!Versions : cache'[w] = IF w = v THEN "changed" ELSE cache[w]
        BY <2>3 DEF ScriptInv
      <3>4. \A c \in Turn!Callers : call[c].version \in Turn!Versions
        BY DEF CallsInv, CallRec
      <3>5. \A c \in Turn!Callers : call'[c].at = "checked" /\ ~call'[c].swapped =>
               cache'[call'[c].version] # "changed"
        BY <3>1, <3>3, <3>4 DEF ScriptInv
      <3>6. QED
        BY <2>1, <2>3, <3>2, <3>5 DEF ScriptInv
    <2>4. QED
      BY <1>3, <2>2, <2>3 DEF Turn!Outside, Turn!netVars
  <1>4. ASSUME NEW c \in Turn!Callers, Turn!Refused(c) PROVE CallsInv' /\ ScriptInv'
    BY <1>4, HungUp, NoCallIsCall
    DEF Turn!Refused, CallsInv, ScriptInv, Turn!netVars, Turn!panelVars
  <1>5. CASE Turn!Restart
    <2>1. UNCHANGED <<ran, draft, cache, upstream>>
      BY <1>5 DEF Turn!Restart, Turn!netVars
    <2>2. PICK k : /\ k = Turn!NoCall \/ \E d \in Turn!Callers : call[d].at = "checked" /\ k = call[d]
                   /\ call' = [c \in Turn!Callers |-> IF c = "orphan" THEN k ELSE Turn!NoCall]
      BY <1>5 DEF Turn!Restart
    <2>3. k \in CallRec /\ k.at # "answered"
      BY <2>2, NoCallIsCall DEF CallsInv
    <2>4. call' \in [Turn!Callers -> CallRec]
      BY <2>2, <2>3, NoCallIsCall
    <2>5. CallsInv'
      BY <2>1, <2>2, <2>3, <2>4, NoCallIsCall DEF CallsInv, Turn!Callers
    <2>6. QED
      BY <2>1, <2>2, <2>5, NoCallIsCall DEF ScriptInv
  <1>6. ASSUME NEW op \in Turn!Ops, NEW n \in Turn!Holders, NEW c \in {"route", "input"},
               Turn!Send(c, op, n)
        PROVE  CallsInv' /\ ScriptInv'
    BY <1>6, SentIsChecked
  <1>7. ASSUME NEW c \in Turn!Callers, Turn!Run(c) PROVE CallsInv' /\ ScriptInv'
    BY <1>7, CallsRun
  <1>8. "apply" \in Turn!Ops
    BY DEF Turn!Ops
  <1>9. QED
    BY <1>1, <1>2, <1>3, <1>4, <1>5, <1>6, <1>7, <1>8, CallsHeard
    DEF EngineNext, Turn!TurnNext, Turn!ScriptNext, Turn!CallNext

\* A step that leaves the engine, the links and the answers alone.
LEMMA PanelRests ==
  ASSUME PanelInv, UNCHANGED <<engineState, links, lost, stray>>,
         keyOnce' \in BOOLEAN, saved' \in TurnLinks,
         \A d \in Turn!Callers : SameAnswer(d)
  PROVE  PanelInv'
  <1>1. EngineShape'
    BY DEF PanelInv, EngineShape, engineState
  <1>3. "route" \in Turn!Callers /\ "input" \in Turn!Callers
    BY DEF Turn!Callers
  <1>4. AnswersInv'
    BY <1>3 DEF PanelInv, AnswersInv, SameAnswer, TrueLink, engineState
  <1>5. Rekeyed' <=> Rekeyed
    BY <1>3 DEF Rekeyed, SameAnswer
  <1>6. Removing' <=> Removing
    BY <1>3 DEF Removing, SameAnswer
  <1>7. \A n : Adding(n)' <=> Adding(n)
    BY <1>3 DEF Adding, SameAnswer
  <1>8. TableInv'
    BY <1>5, <1>7 DEF PanelInv, TableInv, Kept, TrueLink, engineState
  <1>9. OwnerLinkInv'
    BY <1>6 DEF PanelInv, OwnerLinkInv, Kept, engineState
  <1>10. QED
    BY <1>1, <1>4, <1>8, <1>9 DEF PanelInv

\* The script runs: a key it replaces, a client it adds and an engine it
\* takes away are named by its answer, or the answer is lost.
LEMMA PanelRuns ==
  ASSUME CallsInv, PanelInv, NEW c \in Turn!Callers, Turn!Run(c)
  PROVE  PanelInv'
  <1> DEFINE k == call[c]
  <1>1. /\ k.at = "checked" /\ Turn!Works(k.op, k.name, k.rekey)
        /\ RunAnswers(c) \/ RunUnheard(c)
        /\ UNCHANGED <<links, saved, keyOnce, stray>>
    BY RunCases
  <1>2. EngineShape' /\ EngineShape
    BY <1>1, EngineWorks DEF PanelInv
  <1>3. /\ k.name \in Turn!Holders /\ ~k.old
        /\ c = "input" => k.op = "add"
        /\ c = "route" => k.op # "add"
        /\ k.rekey => k.op = "apply"
    BY <1>1 DEF CallsInv, CallRec, PanelInv, AnswersInv
  <1>4. lost' \in BOOLEAN /\ keyOnce' \in BOOLEAN /\ links' \in TurnLinks /\ saved' \in TurnLinks
    BY <1>1 DEF PanelInv, RunAnswers, RunUnheard
  <1>5. \A m \in Turn!Holders : Turn!Report(k.op, k.name)[m] # Turn!NoLink =>
             NowTrue(Turn!Report(k.op, k.name)[m], m)
    BY <1>1, <1>2, <1>3, ReportIsTrue, WorkedHasId DEF PanelInv
  <1>6. \A d \in Turn!Callers : d # c =>
          /\ call'[d].at = call[d].at /\ call'[d].op = call[d].op /\ call'[d].name = call[d].name
          /\ call'[d].rekey = call[d].rekey /\ call'[d].told = call[d].told
          /\ call'[d].old <=> call[d].old \/ (Turn!Moved /\ call[d].at = "answered")
    BY <1>1, AgedCalls DEF RunAnswers, RunUnheard
  <1>7. /\ RunAnswers(c) => /\ call'[c].at = "answered" /\ call'[c].op = k.op
                            /\ call'[c].name = k.name /\ call'[c].rekey = k.rekey
                            /\ call'[c].told = Turn!Report(k.op, k.name)
                            /\ ~call'[c].old /\ c # "orphan" /\ lost' = lost
        /\ RunUnheard(c) => call'[c].at # "answered" /\ ~call'[c].old /\ lost' = TRUE
    <2>1. Turn!Aged[c].op = k.op /\ Turn!Aged[c].name = k.name /\ Turn!Aged[c].rekey = k.rekey
          /\ Turn!Aged \in [Turn!Callers -> CallRec] /\ Turn!Aged[c].at = "checked"
          /\ ~Turn!Aged[c].old
      BY <1>1, <1>3, AgedCalls
    <2>2. QED
      BY <2>1 DEF RunAnswers, RunUnheard, Turn!NoCall, CallRec
  <1>8. \A m \in Turn!Holders : \A l : ~Turn!Moved /\ TrueLink(l, m) => NowTrue(l, m)
    BY DEF Turn!Moved, TrueLink, NowTrue
  <1>9. k.op = "add" => ~Turn!Moved
    BY <1>1, <1>2, <1>3 DEF Turn!Works, Turn!Moved, EngineShape
  <1>10. AnswersInv'
    <2>1. \A d \in Turn!Callers : call'[d].old => call'[d].at = "answered"
      BY <1>1, <1>6, <1>7 DEF PanelInv, AnswersInv
    <2>2. ASSUME NEW d \in Turn!Callers, call'[d].at = "answered", ~call'[d].old,
                 NEW n \in Turn!Holders, call'[d].told[n] # Turn!NoLink
          PROVE  NowTrue(call'[d].told[n], n)
      <3>1. CASE d = c
        BY <1>1, <1>5, <1>7, <2>2, <3>1
      <3>2. CASE d # c
        BY <1>6, <1>8, <2>2, <3>2 DEF PanelInv, AnswersInv
      <3>3. QED
        BY <3>1, <3>2
    <2>3. call'["route"].at = "answered" /\ call'["route"].old => lost'
      <3>1. CASE c = "route"
        BY <1>1, <1>7, <3>1
      <3>2. CASE c # "route" /\ RunAnswers(c)
        BY <1>3, <1>6, <1>7, <1>9, <3>2 DEF Turn!Callers, PanelInv, AnswersInv
      <3>3. CASE RunUnheard(c)
        BY <1>7, <3>3
      <3>4. QED
        BY <1>1, <3>1, <3>2, <3>3
    <2>4. QED
      BY <2>1, <2>2, <2>3 DEF AnswersInv, TrueLink, NowTrue
  <1>11. TableInv'
    <2> SUFFICES ASSUME ~lost', NEW n \in Turn!Holders, Kept(n)', clients'[n] # 0,
                        links'[n] # Turn!NoLink
                 PROVE  NowTrue(links'[n], n) \/ Rekeyed' \/ Adding(n)'
      BY <1>1 DEF TableInv, TrueLink, NowTrue
    <2>1. RunAnswers(c) /\ ~lost /\ Kept(n) /\ links[n] # Turn!NoLink
      BY <1>1, <1>7 DEF Kept
    <2>2. clients[n] # 0 => TrueLink(links[n], n) \/ Rekeyed \/ Adding(n)
      BY <2>1 DEF PanelInv, TableInv
    <2>3. CASE c = "input"
      <3>1. k.op = "add" /\ installed /\ clients' = [clients EXCEPT ![k.name] = gen + 1]
            /\ UNCHANGED key
        BY <1>1, <1>3, <2>3 DEF Turn!Works
      <3>2. n = k.name => Adding(n)'
        BY <1>7, <2>1, <2>3 DEF Adding
      <3>3. n # k.name => ~Adding(n) /\ clients'[n] = clients[n]
        BY <1>1, <1>2, <2>3, <3>1 DEF Adding, EngineShape
      <3>4. Rekeyed => Rekeyed'
        BY <1>6, <2>3 DEF Rekeyed, Turn!Callers
      <3>5. QED
        BY <1>1, <2>2, <3>1, <3>2, <3>3, <3>4 DEF TrueLink, NowTrue
    <2>4. CASE c = "route"
      <3>1. ~Rekeyed /\ ~Removing /\ (Adding(n) => Adding(n)')
        BY <1>1, <1>6, <2>4 DEF Rekeyed, Removing, Adding, Turn!Callers
      <3>2. CASE k.op = "apply" /\ k.rekey
        BY <1>7, <2>1, <2>4, <3>2 DEF Rekeyed
      <3>3. CASE k.op = "apply" /\ ~k.rekey
        <4>1. Turn!Applied(k.rekey)
          BY <1>1, <3>3 DEF Turn!Works
        <4>2. CASE installed
          <5>1. UNCHANGED <<clients, key>>
            BY <1>2, <3>3, <4>1, <4>2 DEF Turn!Applied, EngineShape
          <5>2. QED
            BY <1>1, <2>2, <3>1, <5>1 DEF TrueLink, NowTrue
        <4>3. CASE ~installed
          <5>1. n = "owner"
            BY <1>2, <4>1, <4>3 DEF Turn!Applied, EngineShape, Turn!Gone
          <5>2. QED
            BY <2>1, <3>1, <4>3, <5>1 DEF PanelInv, OwnerLinkInv
        <4>4. QED
          BY <4>2, <4>3
      <3>4. CASE k.op # "apply"
        <4>1. clients'[n] = clients[n] /\ key' = key
          BY <1>1, <1>2, <1>3, <2>4, <3>4 DEF Turn!Works, EngineShape, Turn!Gone
        <4>2. QED
          BY <1>1, <2>2, <3>1, <4>1 DEF TrueLink, NowTrue
      <3>5. QED
        BY <3>2, <3>3, <3>4
    <2>5. QED
      BY <1>7, <2>1, <2>3, <2>4 DEF Turn!Callers
  <1>12. OwnerLinkInv'
    <2> SUFFICES ASSUME ~lost', ~installed', Kept("owner")'
                 PROVE  links["owner"] = Turn!NoLink \/ Removing'
      BY <1>1 DEF OwnerLinkInv
    <2>1. RunAnswers(c)
      BY <1>1, <1>7
    <2>2. k.op = "uninstall"
      BY <1>1 DEF Turn!Works, Turn!Applied
    <2>3. c = "route"
      BY <1>3, <1>7, <2>1, <2>2 DEF Turn!Callers
    <2>4. QED
      BY <1>7, <2>1, <2>2, <2>3 DEF Removing
  <1>13. QED
    BY <1>2, <1>4, <1>10, <1>11, <1>12 DEF PanelInv

\* A call that is hung up: the other answers are as they were.
LEMMA OthersRest ==
  ASSUME CallsInv, PanelInv, NEW c \in Turn!Callers, call' = [call EXCEPT ![c] = Turn!NoCall],
         UNCHANGED <<engineState>>, lost => lost' \/ c = "route"
  PROVE  /\ AnswersInv' /\ EngineShape'
         /\ \A d \in Turn!Callers : d # c => SameAnswer(d)
         /\ call'[c].at = "none"
  <1>1. call'[c] = Turn!NoCall /\ \A d \in Turn!Callers : d # c => call'[d] = call[d]
    BY DEF CallsInv
  <1>2. ~Turn!NoCall.old /\ Turn!NoCall.at = "none"
    BY DEF Turn!NoCall
  <1>3. EngineShape'
    BY DEF PanelInv, EngineShape, engineState
  <1>4. AnswersInv'
    BY <1>1, <1>2 DEF PanelInv, AnswersInv, TrueLink, engineState, Turn!Callers
  <1>5. \A d \in Turn!Callers : d # c => SameAnswer(d)
    BY <1>1 DEF SameAnswer, PanelInv, AnswersInv
  <1>6. QED
    BY <1>1, <1>2, <1>3, <1>4, <1>5

\* An answer about the engine: it is the whole truth, or the links stay, or
\* it was overtaken, and then another one is lost.
LEMMA EngineHeard ==
  ASSUME CallsInv, PanelInv, NEW c \in {"route", "input"}, Turn!HearEngine(c)
  PROVE  PanelInv'
  <1> DEFINE k == call["route"]
             sure == ~k.old /\ (k.rekey \/ links' = k.told)
  <1>1. c = "route" /\ k.at = "answered" /\ k.op \in {"apply", "check"}
    BY DEF Turn!HearEngine, Turn!Answered, CallsInv
  <1>2. /\ links' = IF k.told # Turn!NoLinks THEN k.told
                    ELSE IF k.rekey THEN Turn!NoLinks ELSE links
        /\ keyOnce' \in BOOLEAN /\ saved' = links' /\ lost' = (lost /\ ~sure)
        /\ stray' = (IF sure THEN {} ELSE stray)
        /\ call' = [call EXCEPT !["route"] = Turn!NoCall]
        /\ UNCHANGED engineState
    BY <1>1 DEF Turn!HearEngine, Turn!Learn, Turn!Hang, Turn!Silent, engineState, Turn!engineVars
  <1>3. k.told \in TurnLinks /\ k.rekey \in BOOLEAN /\ k.old \in BOOLEAN
        /\ "route" \in Turn!Callers
    BY DEF CallsInv, CallRec, Turn!Callers
  <1>4. links' \in TurnLinks /\ saved' \in TurnLinks /\ lost' \in BOOLEAN
    BY <1>2, <1>3, NoCallIsCall DEF PanelInv
  <1>5. /\ AnswersInv' /\ EngineShape' /\ SameAnswer("input") /\ call'["route"].at = "none"
    BY <1>2, <1>3, OthersRest DEF Turn!Callers
  <1>6. CASE sure
    <2>1. links' = k.told
      BY <1>2, <1>6
    <2>2. \A n \in Turn!Holders : links'[n] # Turn!NoLink => TrueLink(links'[n], n)
      BY <1>1, <1>3, <1>6, <2>1 DEF PanelInv, AnswersInv
    <2>3. \A n \in Turn!Holders : links'[n] # Turn!NoLink => NowTrue(links'[n], n)
      BY <1>2, <2>2 DEF TrueLink, NowTrue, engineState
    <2>4. TableInv'
      BY <2>3 DEF TableInv, TrueLink, NowTrue
    <2>5. ~installed' => links'["owner"] = Turn!NoLink
      BY <1>2, <2>2 DEF TrueLink, NowTrue, PanelInv, EngineShape, Turn!Gone, engineState, Turn!Holders
    <2>6. OwnerLinkInv'
      BY <2>5 DEF OwnerLinkInv
    <2>7. QED
      BY <1>2, <1>4, <1>5, <2>4, <2>6 DEF PanelInv
  <1>7. CASE ~sure
    <2>1. lost' = lost /\ stray' = stray
      BY <1>2, <1>7 DEF PanelInv
    <2>2. ~lost => ~k.rekey /\ links' = links
      BY <1>1, <1>2, <1>3, <1>7 DEF PanelInv, AnswersInv
    <2>3. \A n : Adding(n) => Adding(n)'
      BY <1>5 DEF Adding, SameAnswer
    <2>4. TableInv'
      BY <1>2, <2>1, <2>2, <2>3 DEF PanelInv, TableInv, Kept, TrueLink, Rekeyed, engineState
    <2>5. OwnerLinkInv'
      BY <1>1, <1>2, <2>1, <2>2 DEF PanelInv, OwnerLinkInv, Kept, Removing, engineState
    <2>6. QED
      BY <1>2, <1>4, <1>5, <2>4, <2>5 DEF PanelInv
  <1>8. QED
    BY <1>6, <1>7

\* An answer about a client: its link is true, or it was overtaken.
LEMMA ClientHeard ==
  ASSUME CallsInv, PanelInv, NEW c \in {"route", "input"}, Turn!HearClient(c)
  PROVE  PanelInv'
  <1> DEFINE k == call[c]
  <1>0. PICK m \in Turn!Holders : m = k.name
    BY DEF CallsInv, CallRec, Turn!Callers
  <1>1. /\ k.at = "answered" /\ c \in Turn!Callers
        /\ (c = "route" /\ k.op = "open") \/ (c = "input" /\ k.op = "add" /\ m # "owner")
        /\ ~k.rekey /\ m \in Turn!Holders /\ k.told \in TurnLinks /\ k.old \in BOOLEAN
    BY <1>0 DEF Turn!HearClient, Turn!Answered, CallsInv, CallRec, Turn!Callers
  <1>2. /\ links' = [links EXCEPT ![m] = k.told[m]]
        /\ saved' = saved \/ saved' = links'
        /\ stray' = (IF k.old THEN stray \cup {<<m, "overtaken">>}
                     ELSE stray \ ({m} \X {"restart", "overtaken"}))
        /\ call' = [call EXCEPT ![c] = Turn!NoCall]
        /\ UNCHANGED <<lost, keyOnce, engineState>>
    BY <1>0 DEF Turn!HearClient, Turn!Remember, Turn!Hang, Turn!Silent, engineState, Turn!engineVars
  <1>3. links' \in TurnLinks /\ saved' \in TurnLinks
    BY <1>1, <1>2 DEF PanelInv, TurnLinks
  <1>4. /\ AnswersInv' /\ EngineShape' /\ call'[c].at = "none"
        /\ \A d \in Turn!Callers : d # c => SameAnswer(d)
    BY <1>1, <1>2, OthersRest
  <1>5. /\ ~lost /\ Kept(m)' => ~k.old
        /\ \A n : n # m /\ Kept(n)' => Kept(n)
    <2>1. c = "route" /\ k.old => lost
      BY <1>1 DEF PanelInv, AnswersInv
    <2>2. k.old => <<m, "overtaken">> \in stray'
      BY <1>2
    <2>3. \A n, why : n # m /\ <<n, why>> \in stray => <<n, why>> \in stray'
      <3>1. CASE k.old
        BY <1>2, <3>1
      <3>2. CASE ~k.old
        BY <1>2, <3>2
      <3>3. QED
        BY <3>1, <3>2
    <2>4. QED
      BY <2>1, <2>2, <2>3 DEF Kept
  <1>6. ~k.old /\ k.told[m] # Turn!NoLink => TrueLink(k.told[m], m)
    <2>1. AnswersInv
      BY DEF PanelInv
    <2>2. QED
      BY <1>1, <2>1, Zenon DEF AnswersInv
  <1>7. links'[m] = k.told[m] /\ \A n \in Turn!Holders : n # m => links'[n] = links[n]
    BY <1>1, <1>2 DEF PanelInv, TurnLinks
  <1>8. /\ Rekeyed => Rekeyed'
        /\ Removing => Removing'
        /\ \A n : n # m /\ Adding(n) => Adding(n)'
    BY <1>0, <1>1, <1>4 DEF Rekeyed, Removing, Adding, SameAnswer, Turn!Callers
  <1>9. TableInv'
    <2> SUFFICES ASSUME ~lost', NEW n \in Turn!Holders, Kept(n)', clients'[n] # 0,
                        links'[n] # Turn!NoLink
                 PROVE  NowTrue(links'[n], n) \/ Rekeyed' \/ Adding(n)'
      BY DEF TableInv, TrueLink, NowTrue
    <2>1. CASE n = m
      <3>1. ~k.old
        <4>1. ~lost
          BY <1>2
        <4>2. QED
          BY <1>5, <2>1, <4>1 DEF Kept
      <3>2. TrueLink(k.told[m], m)
        BY <1>6, <1>7, <2>1, <3>1
      <3>3. QED
        BY <1>2, <1>7, <2>1, <3>2 DEF TrueLink, NowTrue, engineState
    <2>2. CASE n # m
      <3>1. TrueLink(links[n], n) \/ Rekeyed \/ Adding(n)
        BY <1>2, <1>5, <1>7, <2>2 DEF PanelInv, TableInv, engineState
      <3>2. QED
        BY <1>2, <1>7, <1>8, <2>2, <3>1 DEF TrueLink, NowTrue, engineState
    <2>3. QED
      BY <2>1, <2>2
  <1>10. OwnerLinkInv'
    <2> SUFFICES ASSUME ~lost', ~installed', Kept("owner")'
                 PROVE  links'["owner"] = Turn!NoLink \/ Removing'
      BY DEF OwnerLinkInv
    <2>1. "owner" \in Turn!Holders /\ ~installed /\ ~lost /\ clients["owner"] = 0
      BY <1>2 DEF Turn!Holders, engineState, PanelInv, EngineShape, Turn!Gone
    <2>2. CASE m = "owner"
      <3>1. ~k.old
        BY <1>5, <2>1, <2>2 DEF Kept
      <3>2. k.told[m] = Turn!NoLink
        BY <1>6, <2>1, <2>2, <3>1 DEF TrueLink
      <3>3. QED
        BY <1>7, <2>1, <2>2, <3>2
    <2>3. CASE m # "owner"
      BY <1>5, <1>7, <1>8, <2>1, <2>3 DEF PanelInv, OwnerLinkInv
    <2>4. QED
      BY <2>2, <2>3
  <1>11. QED
    BY <1>2, <1>3, <1>4, <1>9, <1>10 DEF PanelInv

LEMMA RestHeard ==
  ASSUME CallsInv, PanelInv, NEW c \in {"route", "input"}, Turn!HearRest(c)
  PROVE  PanelInv'
  <1>1. c = "route" /\ "route" \in Turn!Callers /\ call["route"].at = "answered"
    BY DEF Turn!HearRest, Turn!Answered, CallsInv, Turn!Callers
  <1>2. /\ call' = [call EXCEPT !["route"] = Turn!NoCall]
        /\ UNCHANGED <<engineState, keyOnce>>
    BY <1>1 DEF Turn!HearRest, Turn!Hang, Turn!Silent, engineState, Turn!engineVars
  <1>3. lost' \in BOOLEAN
    BY DEF Turn!HearRest
  <1>4. /\ AnswersInv' /\ EngineShape' /\ SameAnswer("input") /\ call'["route"].at = "none"
    BY <1>1, <1>2, OthersRest DEF Turn!Callers
  <1>5. \A n : Adding(n) => Adding(n)'
    BY <1>4 DEF Adding, SameAnswer
  <1>6. CASE call["route"].op = "remove" /\ UNCHANGED <<links, saved, stray>>
    <2>1. lost' = lost /\ ~Removing /\ ~Rekeyed
      BY <1>1, <1>6 DEF Turn!HearRest, PanelInv, Removing, Rekeyed, CallsInv
    <2>2. TableInv'
      BY <1>2, <1>5, <1>6, <2>1 DEF PanelInv, TableInv, Kept, TrueLink, engineState
    <2>3. OwnerLinkInv'
      BY <1>2, <1>6, <2>1 DEF PanelInv, OwnerLinkInv, Kept, engineState
    <2>4. QED
      BY <1>2, <1>3, <1>4, <1>6, <2>2, <2>3 DEF PanelInv
  <1>7. CASE links' = Turn!NoLinks /\ saved' = Turn!NoLinks
    <2>1. TableInv' /\ OwnerLinkInv'
      BY <1>7 DEF TableInv, OwnerLinkInv, Turn!NoLinks, Turn!Holders
    <2>2. QED
      BY <1>2, <1>3, <1>4, <1>7, <2>1, NoCallIsCall DEF PanelInv
  <1>8. QED
    BY <1>1, <1>6, <1>7 DEF Turn!HearRest

LEMMA GivenUp ==
  ASSUME CallsInv, PanelInv, NEW c \in {"route", "input"}, Turn!GiveUp(c)
  PROVE  PanelInv'
  <1>1. c \in Turn!Callers /\ c # "orphan" /\ "orphan" \in Turn!Callers
        /\ UNCHANGED <<engineState, links, saved, keyOnce, stray>>
    BY DEF Turn!GiveUp, Turn!Callers, engineState, Turn!engineVars, Turn!panelVars
  <1>2. CASE call[c].at = "answered" /\ lost' = TRUE /\ call' = [call EXCEPT ![c] = Turn!NoCall]
    <2>1. AnswersInv' /\ EngineShape'
      BY <1>1, <1>2, OthersRest
    <2>2. TableInv' /\ OwnerLinkInv'
      BY <1>2 DEF TableInv, OwnerLinkInv
    <2>3. QED
      BY <1>1, <1>2, <2>1, <2>2 DEF PanelInv
  <1>3. CASE /\ call[c].at # "answered" /\ UNCHANGED lost
             /\ call' = [call EXCEPT !["orphan"] = call[c], ![c] = Turn!NoCall]
    <2>1. \A d \in Turn!Callers : call'[d] = IF d = c THEN Turn!NoCall
                                             ELSE IF d = "orphan" THEN call[c] ELSE call[d]
      BY <1>1, <1>3 DEF CallsInv
    <2>2. ~Turn!NoCall.old /\ Turn!NoCall.at = "none"
      BY DEF Turn!NoCall
    <2>3. \A d \in Turn!Callers : call[d].old => call[d].at = "answered"
      BY DEF PanelInv, AnswersInv
    <2>4. call["orphan"].at # "answered"
      BY DEF CallsInv
    <2>5. \A d \in Turn!Callers : SameAnswer(d)
      BY <1>1, <1>3, <2>1, <2>2, <2>3, <2>4 DEF SameAnswer
    <2>6. QED
      BY <1>1, <1>3, <2>5, PanelRests DEF PanelInv
  <1>4. QED
    BY <1>2, <1>3 DEF Turn!GiveUp, Turn!Hang, Turn!Answered

\* The links of the state file: those that differ are strays, and an answer
\* that was on its way is lost.
LEMMA PanelRestarts == ASSUME CallsInv, PanelInv, Turn!Restart PROVE PanelInv'
  <1>1. /\ links' = saved /\ UNCHANGED <<saved, engineState>> /\ keyOnce' = FALSE
        /\ lost' = (lost \/ \E c \in Turn!Callers : call[c].at = "answered")
        /\ stray' = stray \cup ({n \in Turn!Holders : links[n] # saved[n]} \X {"restart"})
    BY DEF Turn!Restart, Turn!Answered, engineState, Turn!engineVars
  <1>2. \A c \in Turn!Callers : call'[c].at # "answered" /\ ~call'[c].old
    <2>1. PICK k : /\ k = Turn!NoCall \/ \E d \in Turn!Callers : call[d].at = "checked" /\ k = call[d]
                   /\ call' = [c \in Turn!Callers |-> IF c = "orphan" THEN k ELSE Turn!NoCall]
      BY DEF Turn!Restart
    <2>2. k.at # "answered" /\ ~k.old /\ Turn!NoCall.at # "answered" /\ ~Turn!NoCall.old
      BY <2>1 DEF Turn!NoCall, PanelInv, AnswersInv
    <2>3. QED
      BY <2>1, <2>2
  <1>3. EngineShape' /\ AnswersInv'
    BY <1>1, <1>2 DEF PanelInv, EngineShape, AnswersInv, engineState, Turn!Callers
  <1>4. lost' \in BOOLEAN
    BY <1>1 DEF PanelInv
  <1>5. ASSUME ~lost' PROVE ~lost /\ ~Rekeyed /\ ~Removing /\ \A n : ~Adding(n)
    BY <1>1, <1>5 DEF Rekeyed, Removing, Adding, Turn!Callers
  <1>6. \A n \in Turn!Holders : Kept(n)' => Kept(n) /\ links'[n] = links[n]
    BY <1>1 DEF Kept
  <1>7. TableInv'
    BY <1>1, <1>5, <1>6 DEF PanelInv, TableInv, TrueLink, engineState
  <1>8. OwnerLinkInv'
    BY <1>1, <1>5, <1>6 DEF PanelInv, OwnerLinkInv, engineState, Turn!Holders
  <1>9. QED
    BY <1>1, <1>3, <1>4, <1>7, <1>8 DEF PanelInv

LEMMA PanelStep == ASSUME CallsInv, PanelInv, EngineNext PROVE PanelInv'
  <1>1. \A d \in Turn!Callers : call[d].old => call[d].at = "answered"
    BY DEF PanelInv, AnswersInv
  <1>2. CASE Turn!CycleVersion \/ Turn!TypeKey \/ Turn!Save \/ Turn!FetchScript
    <2>1. UNCHANGED <<engineState, links, lost, stray, call>>
      BY <1>2 DEF Turn!CycleVersion, Turn!TypeKey, Turn!Save, Turn!FetchScript, engineState,
                  Turn!engineVars, Turn!pastVars, Turn!panelVars
    <2>2. keyOnce' \in BOOLEAN /\ saved' \in TurnLinks
      BY <1>2 DEF PanelInv, Turn!CycleVersion, Turn!TypeKey, Turn!Save, Turn!FetchScript,
                  Turn!panelVars
    <2>3. \A d \in Turn!Callers : SameAnswer(d)
      BY <1>1, <2>1 DEF SameAnswer
    <2>4. QED
      BY <2>1, <2>2, <2>3, PanelRests
  <1>3. CASE Turn!Outside
    <2>1. UNCHANGED <<engineState, links, lost, stray, keyOnce, saved>>
      BY <1>3 DEF Turn!Outside, engineState, Turn!engineVars, Turn!pastVars, Turn!panelVars
    <2>2. \A d \in Turn!Callers : SameAnswer(d)
      <3>1. CASE UNCHANGED call
        BY <1>1, <3>1 DEF SameAnswer
      <3>2. ASSUME NEW v \in Turn!Versions,
                   call' = [c \in Turn!Callers |-> [call[c] EXCEPT
                    !.swapped = @ \/ (call[c].at = "checked" /\ call[c].version = v)]]
            PROVE  \A d \in Turn!Callers : SameAnswer(d)
        BY <1>1, <3>2 DEF SameAnswer, CallsInv, CallRec
      <3>3. QED
        BY <1>3, <3>1, <3>2 DEF Turn!Outside
    <2>3. QED
      BY <2>1, <2>2, PanelRests DEF PanelInv
  <1>4. ASSUME NEW c \in Turn!Callers, Turn!Refused(c) PROVE PanelInv'
    <2>1. UNCHANGED <<engineState, links, lost, stray, keyOnce, saved>> /\ call[c].at = "checked"
          /\ call' = [call EXCEPT ![c] = Turn!NoCall]
      BY <1>4 DEF Turn!Refused, engineState, Turn!engineVars, Turn!pastVars, Turn!panelVars
    <2>2. \A d \in Turn!Callers : SameAnswer(d)
      BY <1>1, <2>1 DEF SameAnswer, CallsInv, Turn!NoCall
    <2>3. QED
      BY <2>1, <2>2, PanelRests DEF PanelInv
  <1>5. ASSUME NEW op \in Turn!Ops, NEW n \in Turn!Holders, NEW c \in {"route", "input"},
               Turn!Send(c, op, n)
        PROVE  PanelInv'
    <2>1. UNCHANGED <<engineState, links, lost, stray, keyOnce, saved>>
          /\ call[c] = Turn!NoCall /\ c \in Turn!Callers
      BY <1>5 DEF Turn!Send, engineState, Turn!engineVars, Turn!pastVars, Turn!panelVars, Turn!Callers
    <2>2. \A d \in Turn!Callers : d # c => call'[d] = call[d]
      BY <1>5 DEF Turn!Send, CallsInv
    <2>3. call'[c].at # "answered" /\ ~call'[c].old /\ call[c].at # "answered"
      <3> DEFINE v == IF op = "apply" THEN Turn!Resolve(draft) ELSE "pinned"
                 k == [Turn!NoCall EXCEPT !.at = "checked", !.op = op, !.name = n, !.version = v,
                                          !.rekey = op = "apply" /\ keyOnce]
      <3>1. call' = call \/ call' = [call EXCEPT ![c] = k]
        BY <1>5 DEF Turn!Send
      <3>2. k.at = "checked" /\ ~k.old
        BY DEF Turn!NoCall
      <3>3. call \in [Turn!Callers -> CallRec] /\ Turn!NoCall.at = "none" /\ ~Turn!NoCall.old
        BY DEF CallsInv, Turn!NoCall
      <3> HIDE DEF k
      <3>4. QED
        BY <2>1, <3>1, <3>2, <3>3
    <2>4. \A d \in Turn!Callers : SameAnswer(d)
      BY <1>1, <2>2, <2>3 DEF SameAnswer
    <2>5. QED
      BY <2>1, <2>4, PanelRests DEF PanelInv
  <1>6. "apply" \in Turn!Ops
    BY DEF Turn!Ops
  <1>7. QED
    BY <1>2, <1>3, <1>4, <1>5, <1>6, PanelRuns, EngineHeard, ClientHeard, RestHeard, GivenUp,
       PanelRestarts
    DEF EngineNext, Turn!TurnNext, Turn!ScriptNext, Turn!CallNext

LEMMA EngineIsSo == EngineInv => Turn!EngineIsTrue
  <1> SUFFICES ASSUME EngineInv PROVE Turn!EngineIsTrue
    OBVIOUS
  <1>1. Turn!RunsVerified
    BY DEF EngineInv, ScriptInv, Turn!RunsVerified
  <1>2. ASSUME Turn!Quiet PROVE ~lost /\ ~Rekeyed /\ \A n : ~Adding(n)
    BY <1>2 DEF Turn!Quiet, Turn!Answered, Rekeyed, Adding, Turn!Callers
  <1>3. Turn!LinksOpenEngine
    BY <1>2 DEF EngineInv, PanelInv, TableInv, Kept, TrueLink, Turn!LinksOpenEngine, Turn!OpenFor
  <1>4. QED
    BY <1>1, <1>3 DEF Turn!EngineIsTrue

-----------------------------------------------------------------------------
(* The byte counts.                                                        *)

LEMMA BytesMax ==
  ASSUME NEW a \in Int, NEW b \in Int
  PROVE  Turn!Max({a, b}) = IF a >= b THEN a ELSE b
  BY DEF Turn!Max

LEMMA WholeIsTrue == PeersInv => TrueList(Turn!Whole)
  BY DEF PeersInv, TrueList, Turn!Whole

\* A look at a client of the engine counts no more than has passed.
LEMMA UsageIsTrue ==
  ASSUME CountsInv, NEW u \in Users, peer[u] # 0
  PROVE  TrueCount(Turn!Usage(u, peer[u]), u)
  <1> DEFINE live == Turn!Live(peer[u])
             old == Turn!Stored(u)
             rx == Turn!Max({live, old.rx})
  <1>1. peer[u] \in Turn!PeerKeys /\ peer[u] \in Turn!Reported
    BY MemoryConstants DEF CountsInv, PeersInv, Turn!PeerKeys, Turn!Reported, Turn!TrafficConstants
  <1>2. live = counter[peer[u]] /\ live \in Nat /\ live <= passed[u] /\ passed[u] \in Nat
        /\ today[u] \in Nat /\ date \in Nat \ {0}
    BY <1>1 DEF CountsInv, PeersInv, Turn!Live
  <1>3. TrueCount(old, u)
    BY <1>2 DEF CountsInv, TrueHistory, Turn!Stored, Turn!Nothing, TrueCount
  <1>4. rx = IF live >= old.rx THEN live ELSE old.rx
    <2>1. live \in Int /\ old.rx \in Int
      BY <1>2, <1>3 DEF TrueCount
    <2>2. QED
      BY <2>1, BytesMax
  <1>5. Turn!Usage(u, peer[u]) = Turn!DayBase(old, rx)
    BY DEF Turn!Usage
  <1> HIDE DEF live, old, rx
  <1>6. TrueCount(Turn!DayBase(old, rx), u)
    BY <1>2, <1>3, <1>4 DEF TrueCount, Turn!DayBase
  <1>7. QED
    BY <1>5, <1>6

LEMMA RefreshIsTrue ==
  ASSUME CountsInv, NEW given, TrueList(given), Turn!Refresh(given),
         UNCHANGED <<peer, counter, passed, today, date>>
  PROVE  TrueHistory'
  <1>1. CASE UNCHANGED history
    BY <1>1 DEF CountsInv, TrueHistory, TrueCount
  <1>2. CASE history' = [u \in DOMAIN given |-> Turn!Usage(u, given[u])]
    <2>1. DOMAIN history' \subseteq Users
      BY <1>2 DEF TrueList
    <2>2. ASSUME NEW u \in DOMAIN history' PROVE TrueCount(history[u], u)'
      <3>1. u \in Users /\ peer[u] # 0 /\ history'[u] = Turn!Usage(u, peer[u])
        BY <1>2, <2>2 DEF TrueList
      <3>2. TrueCount(history'[u], u)
        BY <3>1, UsageIsTrue
      <3>3. QED
        BY <3>2 DEF TrueCount
    <2>3. QED
      BY <2>1, <2>2 DEF TrueHistory
  <1>3. QED
    BY <1>1, <1>2 DEF Turn!Refresh

LEMMA CountsStep == CountsInv /\ Turn!TrafficNext => CountsInv'
  <1> SUFFICES ASSUME CountsInv, Turn!TrafficNext PROVE CountsInv'
    OBVIOUS
  <1>1. ASSUME NEW u \in Users, Turn!Flow(u) PROVE CountsInv'
    <2> USE <1>1 DEF Turn!Flow
    <2>1. peer[u] \in Turn!PeerKeys
      BY MemoryConstants DEF CountsInv, PeersInv, Turn!PeerKeys, Turn!TrafficConstants
    <2>2. \A k \in Turn!PeerKeys : counter'[k] = IF k = peer[u] THEN counter[k] + 1 ELSE counter[k]
      BY <2>1 DEF CountsInv, PeersInv
    <2>3. \A v \in Users : /\ passed'[v] = IF v = u THEN passed[v] + 1 ELSE passed[v]
                           /\ today'[v] = IF v = u THEN today[v] + 1 ELSE today[v]
      BY DEF CountsInv, PeersInv
    <2>4. \A v \in Users : peer[v] # 0 =>
            /\ peer[v] \in Turn!PeerKeys
            /\ counter'[peer[v]] = IF v = u THEN counter[peer[v]] + 1 ELSE counter[peer[v]]
      BY <2>2, MemoryConstants DEF CountsInv, PeersInv, Turn!PeerKeys, Turn!TrafficConstants
    <2>5. PeersInv'
      <3>1. counter' \in [Turn!PeerKeys -> Nat] /\ passed' \in [Users -> Nat]
            /\ today' \in [Users -> Nat]
        BY <2>1 DEF CountsInv, PeersInv
      <3>2. \A k \in Turn!PeerKeys : k > dealt' => counter'[k] = 0
        BY <2>1, <2>2 DEF CountsInv, PeersInv, Turn!PeerKeys
      <3>3. \A v \in Users : peer'[v] # 0 => counter'[peer'[v]] <= passed'[v]
        BY <2>3, <2>4 DEF CountsInv, PeersInv
      <3>4. QED
        BY <3>1, <3>2, <3>3 DEF CountsInv, PeersInv
    <2>6. TrueHistory'
      <3> SUFFICES ASSUME NEW v \in DOMAIN history PROVE TrueCount(history[v], v)'
        BY DEF CountsInv, TrueHistory
      <3>1. v \in Users /\ passed[v] \in Nat /\ today[v] \in Nat /\ TrueCount(history[v], v)
            /\ (peer[v] # 0 => counter[peer[v]] \in Nat)
        BY <2>4 DEF CountsInv, PeersInv, TrueHistory
      <3>2. QED
        BY <3>1, <2>3, <2>4 DEF TrueCount
    <2>7. QED
      BY <2>5, <2>6 DEF CountsInv, TrueList
  <1>2. ASSUME NEW u \in Users, Turn!Join(u) PROVE CountsInv'
    <2> USE <1>2 DEF Turn!Join, Turn!countVars
    <2>1. /\ dealt' = dealt + 1 /\ dealt' \in 0..MaxPeers /\ dealt \in Nat
          /\ peer' \in [Users -> 0..dealt']
          /\ \A v \in Users : peer'[v] = IF v = u THEN dealt + 1 ELSE peer[v]
          /\ dealt + 1 \in Turn!PeerKeys /\ counter[dealt + 1] = 0
      BY MemoryConstants DEF CountsInv, PeersInv, Turn!PeerKeys, Turn!TrafficConstants
    <2>2. PeersInv'
      <3>1. \A v, w \in Users : peer'[v] = peer'[w] /\ peer'[v] # 0 => v = w
        BY <2>1 DEF CountsInv, PeersInv
      <3>2. \A k \in Turn!PeerKeys : k > dealt' => counter'[k] = 0
        BY <2>1 DEF CountsInv, PeersInv, Turn!PeerKeys
      <3>3. \A v \in Users : peer'[v] # 0 => counter'[peer'[v]] <= passed'[v]
        BY <2>1 DEF CountsInv, PeersInv
      <3>4. QED
        BY <2>1, <3>1, <3>2, <3>3 DEF CountsInv, PeersInv
    <2>3. TrueList(listed)'
      BY <2>1 DEF CountsInv, PeersInv, TrueList
    <2>4. TrueHistory'
      <3> SUFFICES ASSUME NEW v \in DOMAIN history PROVE TrueCount(history[v], v)'
        BY DEF CountsInv, TrueHistory
      <3>1. v \in Users /\ passed[v] \in Nat /\ today[v] \in Nat /\ TrueCount(history[v], v)
        BY DEF CountsInv, PeersInv, TrueHistory
      <3>2. QED
        BY <3>1, <2>1 DEF TrueCount
    <2>5. QED
      BY <2>2, <2>3, <2>4 DEF CountsInv
  <1>3. ASSUME NEW u \in Users, Turn!Leave(u) PROVE CountsInv'
    <2> USE <1>3 DEF Turn!Leave, Turn!countVars
    <2>1. /\ peer' \in [Users -> 0..dealt']
          /\ \A v \in Users : peer'[v] = IF v = u THEN 0 ELSE peer[v]
      BY DEF CountsInv, PeersInv
    <2>2. PeersInv'
      BY <2>1 DEF CountsInv, PeersInv
    <2>3. TrueList(listed)'
      BY <2>1 DEF CountsInv, PeersInv, TrueList
    <2>4. TrueHistory'
      BY <2>1 DEF CountsInv, TrueHistory, TrueCount
    <2>5. QED
      BY <2>2, <2>3, <2>4 DEF CountsInv
  <1>4. ASSUME NEW u \in Users, Turn!OpenUser(u) PROVE CountsInv'
    <2>1. TrueList(listed')
      BY <1>4 DEF CountsInv, TrueList, Turn!OpenUser
    <2>2. TrueHistory'
      BY <1>4, <2>1, RefreshIsTrue DEF Turn!OpenUser, Turn!countVars
    <2>3. QED
      BY <1>4, <2>1, <2>2 DEF Turn!OpenUser, Turn!countVars, CountsInv, PeersInv, TrueList
  <1>5. CASE Turn!ResetCounters
    <2> USE <1>5 DEF Turn!ResetCounters
    <2>1. \A v \in Users : peer[v] # 0 => counter'[peer[v]] = 0 /\ peer[v] \in Turn!PeerKeys
      BY MemoryConstants DEF CountsInv, PeersInv, Turn!PeerKeys, Turn!TrafficConstants
    <2>2. PeersInv'
      BY <2>1 DEF CountsInv, PeersInv
    <2>3. TrueHistory'
      <3> SUFFICES ASSUME NEW v \in DOMAIN history PROVE TrueCount(history[v], v)'
        BY DEF CountsInv, TrueHistory
      <3>1. v \in Users /\ today[v] \in Nat /\ TrueCount(history[v], v)
        BY DEF CountsInv, PeersInv, TrueHistory
      <3>2. QED
        BY <3>1, <2>1 DEF TrueCount
    <2>4. QED
      BY <2>2, <2>3 DEF CountsInv, TrueList
  <1>6. CASE Turn!NewDay
    BY <1>6 DEF Turn!NewDay, CountsInv, PeersInv, TrueList, TrueHistory, TrueCount
  <1>7. CASE Turn!ReadClients
    <2>1. TrueList(Turn!Whole)
      BY WholeIsTrue DEF CountsInv
    <2>2. TrueHistory'
      BY <1>7, <2>1, RefreshIsTrue DEF Turn!ReadClients, Turn!countVars
    <2>3. QED
      BY <1>7, <2>1, <2>2 DEF Turn!ReadClients, Turn!countVars, CountsInv, PeersInv, TrueList
  <1>8. CASE Turn!ReadTraffic
    <2>1. TrueList(listed')
      BY <1>8, WholeIsTrue DEF CountsInv, Turn!ReadTraffic
    <2>2. TrueHistory'
      BY <1>8, <2>1, RefreshIsTrue DEF Turn!ReadTraffic, Turn!countVars
    <2>3. QED
      BY <1>8, <2>1, <2>2 DEF Turn!ReadTraffic, Turn!countVars, CountsInv, PeersInv, TrueList
  <1>9. CASE Turn!DropEngine
    BY <1>9 DEF Turn!DropEngine, Turn!countVars, CountsInv, PeersInv, TrueList, TrueHistory, TrueCount
  <1>10. CASE Turn!RestartPanel
    BY <1>10 DEF Turn!RestartPanel, Turn!countVars, CountsInv, PeersInv, TrueList, TrueHistory, TrueCount
  <1>11. QED
    BY <1>1, <1>2, <1>3, <1>4, <1>5, <1>6, <1>7, <1>8, <1>9, <1>10 DEF Turn!TrafficNext

LEMMA CountsAreTrue == CountsInv => CountsAreReal
  <1> SUFFICES ASSUME CountsInv, NEW u \in DOMAIN history
               PROVE  /\ history[u].rx <= passed[u]
                      /\ history[u].day = date => Turn!ShownToday(u) <= today[u]
    BY DEF CountsAreReal, Turn!CountsAreReal
  <1>1. TrueCount(history[u], u) /\ today[u] \in Nat
    BY DEF CountsInv, PeersInv, TrueHistory
  <1>2. history[u].rx - history[u].rx0 \in Int /\ 0 \in Int
    BY <1>1 DEF TrueCount
  <1>3. Turn!ShownToday(u) = IF history[u].rx - history[u].rx0 >= 0
                              THEN history[u].rx - history[u].rx0 ELSE 0
    BY <1>2, BytesMax DEF Turn!ShownToday
  <1>4. QED
    BY <1>1, <1>3 DEF TrueCount

-----------------------------------------------------------------------------
(* The inline values.                                                      *)

LEMMA InlineNumbers ==
  MaxRegistry \in Nat \ {0} /\ Twice \in Nat \ {0} /\ MaxPicks \in Nat /\ MaxBoots \in Nat
  BY MemoryConstants DEF Inline!InlineConstants

\* The registry keeps tokens that were issued, and no others.
LEMMA IssueKeeps ==
  ASSUME NEW S, NEW reg \in Seq(S), NEW t \in S
  PROVE  Inline!Issue(reg, t) \in Seq(S)
  <1> DEFINE all == IF t \in Inline!Range(reg) THEN reg ELSE Append(reg, t)
             most == IF Len(all) > MaxRegistry THEN MaxRegistry ELSE Len(all)
  <1>1. all \in Seq(S)
    BY AppendProperties
  <1>2. Len(all) \in Nat /\ \A i \in 1..Len(all) : all[i] \in S
    BY <1>1, LenProperties, ElementOfSeq
  <1> HIDE DEF all
  <1>3. most \in Nat /\ Len(all) - most + 1 \in Int /\ Len(all) - most + 1 >= 1
    BY <1>2, InlineNumbers
  <1>4. \A i \in (Len(all) - most + 1)..Len(all) : all[i] \in S
    BY <1>2, <1>3
  <1>5. SubSeq(all, Len(all) - most + 1, Len(all)) \in Seq(S)
    BY <1>2, <1>3, <1>4, SubSeqProperties
  <1>6. QED
    BY <1>5 DEF Inline!Issue, all

LEMMA TokenIsKnown ==
  ASSUME secret \in 0..MaxBoots, NEW mode \in Inline!Modes, NEW f \in Fields, NEW c \in Things
  PROVE  /\ Inline!Token(mode, f, c) \in {t \in Inline!Tokens : t.secret = secret}
         /\ Known(Inline!Token(mode, f, c))
  BY InlineNumbers DEF Inline!Token, Inline!Tokens, Known

LEMMA ResolvedIsCurrent ==
  ASSUME TokensInv, NEW t, Inline!Resolves(t)
  PROVE  t.secret = secret
  <1>1. PICK i \in DOMAIN registry : t = registry[i]
    BY DEF Inline!Resolves, Inline!Range
  <1>2. QED
    BY <1>1, LenProperties, ElementOfSeq DEF TokensInv

LEMMA TokensStep == TokensInv /\ Inline!InlineNext => TokensInv'
  <1> SUFFICES ASSUME TokensInv, Inline!InlineNext PROVE TokensInv'
    OBVIOUS
  <1>1. ASSUME NEW f \in Fields, NEW c \in Things, Inline!Show(f, c) PROVE TokensInv'
    <2>1. \A mode \in Inline!RowOf(f) : mode \in Inline!Modes
      BY DEF Inline!RowOf, Inline!Modes
    <2>2. Inline!Issue(registry, Inline!Token("input", f, c))
            \in Seq({t \in Inline!Tokens : t.secret = secret})
      BY TokenIsKnown, IssueKeeps DEF TokensInv, Inline!Modes
    <2>3. registry' \in Seq({t \in Inline!Tokens : t.secret = secret})
      BY <1>1, <2>2, TokenIsKnown, IssueKeeps DEF TokensInv, Inline!Modes, Inline!Show
    <2>4. \A t \in buttons' : Known(t)
      BY <1>1, <2>1, TokenIsKnown DEF TokensInv, Inline!Show
    <2>5. QED
      BY <1>1, <2>3, <2>4 DEF TokensInv, Inline!Show, Known
  <1>2. ASSUME NEW t \in buttons, NEW v \in Typed \cup {"none"}, Inline!Query(t, v)
        PROVE  TokensInv'
    <2>1. Known(t) /\ t.field \in Fields /\ t.thing \in Things
      BY DEF TokensInv, Known, Inline!Tokens
    <2>2. registry' \in Seq({x \in Inline!Tokens : x.secret = secret})
      BY <1>2, <2>1, TokenIsKnown, IssueKeeps DEF TokensInv, Inline!Modes, Inline!Query
    <2>3. \A a \in Inline!Articles(t, v) : Known(a.token)
      BY <2>1, TokenIsKnown
      DEF TokensInv, Inline!Articles, Inline!Stale, Inline!Input, Inline!Option, Inline!Modes
    <2>4. QED
      BY <1>2, <2>2, <2>3 DEF TokensInv, Inline!Query, Known
  <1>3. ASSUME NEW a \in articles, Inline!Pick(a) PROVE TokensInv'
    <2>1. \A d \in sent' : d \in sent \/ d.what = a
      BY <1>3 DEF Inline!Pick
    <2>2. \A d \in sent' : Known(d.what.token)
      BY <2>1 DEF TokensInv
    <2>3. QED
      BY <1>3, <2>2 DEF TokensInv, Inline!Pick, Known
  <1>4. ASSUME NEW d \in sent, Inline!Take(d) PROVE TokensInv'
    BY <1>4 DEF TokensInv, Inline!Take, Known
  <1>5. CASE Inline!InlineTick
    BY <1>5 DEF TokensInv, Inline!InlineTick, Known
  <1>6. CASE Inline!Reboot
    <2>1. secret' = secret + 1 /\ secret' \in 0..MaxBoots /\ secret \in Nat
      BY <1>6, InlineNumbers DEF TokensInv, Inline!Reboot, Inline!NewSecret
    <2>2. \A t : Known(t) => Known(t)'
      BY <2>1 DEF Known, Inline!Tokens
    <2>3. registry' = << >> /\ articles' = {} /\ UNCHANGED <<buttons, sent>>
      BY <1>6 DEF Inline!Reboot
    <2>4. QED
      BY <2>1, <2>2, <2>3, EmptySeq DEF TokensInv
  <1>7. QED
    BY <1>1, <1>2, <1>3, <1>4, <1>5, <1>6
    DEF Inline!InlineNext, Inline!TakeChosen, Inline!TakeMarker

\* A delivery whose pick was applied within the window finds its stamp or an
\* unknown token.
LEMMA AnsweredIsRefused ==
  ASSUME PicksInv, NEW d \in sent, tally[d.pick] > 0, age[d.pick] < Twice,
         Inline!Acceptable(d)
  PROVE  Inline!Recent(d)
  <1>1. d.what.token.secret = secret
    BY ResolvedIsCurrent DEF PicksInv, Inline!Acceptable
  <1>2. secret \in Nat
    BY InlineNumbers DEF PicksInv, TokensInv
  <1>3. ~(d.what.token.secret < secret)
    BY <1>1, <1>2
  <1>4. Answered(d)
    BY DEF PicksInv, TalliesInv
  <1>5. QED
    BY <1>3, <1>4 DEF Answered, Inline!Recent

LEMMA TalliesStep == PicksInv /\ Inline!InlineNext => TalliesInv'
  <1> SUFFICES ASSUME PicksInv, Inline!InlineNext PROVE TalliesInv'
    OBVIOUS
  <1>0. /\ Len(tally) \in Nat /\ DOMAIN tally = 1..Len(tally) /\ DOMAIN age = 1..Len(tally)
        /\ \A i \in 1..Len(tally) : tally[i] \in Nat /\ age[i] \in 0..Twice
    BY LenProperties, ElementOfSeq DEF PicksInv, TalliesInv
  <1>1. CASE UNCHANGED <<sent, recent, tally, age>> /\ secret' = secret
    BY <1>1 DEF PicksInv, TalliesInv, Answered
  <1>2. ASSUME NEW a \in articles, Inline!Pick(a) PROVE TalliesInv'
    <2>1. /\ tally' = Append(tally, 0) /\ age' = Append(age, 0) /\ UNCHANGED <<recent, secret>>
          /\ \A d \in sent' : d \in sent \/ (d.what = a /\ d.pick = Len(tally) + 1)
      BY <1>2 DEF Inline!Pick
    <2>2. /\ tally' \in Seq(Nat) /\ age' \in Seq(0..Twice) /\ Len(age') = Len(tally')
          /\ DOMAIN tally' = 1..(Len(tally) + 1)
          /\ tally'[Len(tally) + 1] = 0
          /\ \A i \in 1..Len(tally) : tally'[i] = tally[i] /\ age'[i] = age[i]
      <3>1. 0 \in 0..Twice /\ 0 \in Nat
        BY InlineNumbers
      <3>2. tally \in Seq(Nat) /\ age \in Seq(0..Twice) /\ Len(age) = Len(tally)
        BY DEF PicksInv, TalliesInv
      <3>3. tally' \in Seq(Nat) /\ Len(tally') = Len(tally) + 1 /\ tally'[Len(tally) + 1] = 0
            /\ \A i \in 1..Len(tally) : tally'[i] = tally[i]
        BY <2>1, <3>1, <3>2, AppendProperties
      <3>4. age' \in Seq(0..Twice) /\ Len(age') = Len(age) + 1
            /\ \A i \in 1..Len(age) : age'[i] = age[i]
        BY <2>1, <3>1, <3>2, AppendProperties
      <3>5. QED
        BY <3>2, <3>3, <3>4, LenProperties
    <2>3. ASSUME NEW d \in sent' PROVE
            d.pick \in DOMAIN tally' /\ (tally'[d.pick] > 0 /\ age'[d.pick] < Twice => Answered(d)')
      <3>1. CASE d \in sent
        BY <1>0, <2>1, <2>2, <3>1 DEF PicksInv, TalliesInv, Answered
      <3>2. CASE d.pick = Len(tally) + 1
        BY <1>0, <2>2, <3>2
      <3>3. QED
        BY <2>1, <3>1, <3>2
    <2>4. \A d, e \in sent' : d.pick = e.pick => d.what = e.what
      BY <1>0, <2>1 DEF PicksInv, TalliesInv
    <2>5. \A r \in recent' : IsMark(r)
      BY <2>1 DEF PicksInv, TalliesInv
    <2>6. QED
      BY <2>2, <2>3, <2>4, <2>5 DEF TalliesInv
  <1>3. ASSUME NEW d \in sent, Inline!Take(d) PROVE TalliesInv'
    <2>1. secret' = secret /\ sent' \subseteq sent
      BY <1>3 DEF Inline!Take
    <2>2. CASE UNCHANGED <<recent, tally, age>>
      BY <2>1, <2>2 DEF PicksInv, TalliesInv, Answered
    <2>3. CASE Inline!Acceptable(d) /\ Inline!ApplyInline(d) /\ ~Inline!Recent(d)
      <3>1. /\ recent' = recent \cup {[stamp |-> Inline!Stamp(d.what), left |-> Twice]}
            /\ tally' = [tally EXCEPT ![d.pick] = @ + 1]
            /\ age' = [age EXCEPT ![d.pick] = 0]
        BY <2>3 DEF Inline!ApplyInline
      <3>2. d.pick \in 1..Len(tally)
        BY <1>0 DEF PicksInv, TalliesInv
      <3>3. /\ tally' \in Seq(Nat) /\ age' \in Seq(0..Twice) /\ Len(age') = Len(tally')
            /\ DOMAIN tally' = DOMAIN tally
            /\ age'[d.pick] = 0
            /\ \A i \in 1..Len(tally) : i # d.pick => tally'[i] = tally[i] /\ age'[i] = age[i]
        <4>1. tally[d.pick] + 1 \in Nat /\ 0 \in 0..Twice
          BY <1>0, <3>2, InlineNumbers
        <4>2. tally \in Seq(Nat) /\ age \in Seq(0..Twice) /\ Len(age) = Len(tally)
          BY DEF PicksInv, TalliesInv
        <4>3. tally' \in Seq(Nat) /\ Len(tally') = Len(tally)
          BY <3>1, <3>2, <4>1, <4>2, ExceptSeq
        <4>4. age' \in Seq(0..Twice) /\ Len(age') = Len(age)
          BY <3>1, <3>2, <4>1, <4>2, ExceptSeq
        <4>5. QED
          BY <1>0, <3>1, <3>2, <4>2, <4>3, <4>4
      <3>4. \A r \in recent' : IsMark(r)
        BY <3>1, InlineNumbers DEF PicksInv, TalliesInv, IsMark
      <3>5. ASSUME NEW e \in sent'
            PROVE  e.pick \in DOMAIN tally'
                   /\ (tally'[e.pick] > 0 /\ age'[e.pick] < Twice => Answered(e)')
        <4>1. e \in sent /\ e.pick \in 1..Len(tally)
          BY <1>0, <2>1 DEF PicksInv, TalliesInv
        <4>2. CASE e.pick = d.pick
          <5>1. e.what = d.what
            BY <4>1, <4>2 DEF PicksInv, TalliesInv
          <5>2. \E r \in recent' : r.stamp = Inline!Stamp(e.what) /\ r.left >= Twice - age'[e.pick]
            <6> DEFINE r == [stamp |-> Inline!Stamp(d.what), left |-> Twice]
            <6>1. r \in recent' /\ r.stamp = Inline!Stamp(e.what) /\ r.left = Twice
              BY <3>1, <5>1
            <6>2. Twice >= Twice - age'[e.pick]
              BY <3>3, <4>2, InlineNumbers
            <6>3. QED
              BY <6>1, <6>2
          <5>3. QED
            BY <1>0, <3>3, <4>1, <5>2 DEF Answered
        <4>3. CASE e.pick # d.pick
          BY <1>0, <2>1, <3>1, <3>3, <4>1, <4>3 DEF PicksInv, TalliesInv, Answered
        <4>4. QED
          BY <4>2, <4>3
      <3>6. \A e, g \in sent' : e.pick = g.pick => e.what = g.what
        BY <2>1 DEF PicksInv, TalliesInv
      <3>7. QED
        BY <3>3, <3>4, <3>5, <3>6 DEF TalliesInv
    <2>4. QED
      BY <1>3, <2>2, <2>3 DEF Inline!Take, Inline!ApplyInline
  <1>4. CASE Inline!InlineTick
    <2>1. /\ recent' = {Inline!Older(r) : r \in {q \in recent : q.left > 1}}
          /\ age' = [i \in DOMAIN age |-> IF tally[i] > 0 /\ age[i] < Twice THEN age[i] + 1
                                          ELSE age[i]]
          /\ UNCHANGED <<secret, sent, tally>>
      BY <1>4 DEF Inline!InlineTick
    <2>2. /\ DOMAIN age' = 1..Len(tally)
          /\ \A i \in 1..Len(tally) : /\ age'[i] \in 0..Twice
                                      /\ tally[i] > 0 /\ age[i] < Twice => age'[i] = age[i] + 1
                                      /\ ~(tally[i] > 0 /\ age[i] < Twice) => age'[i] = age[i]
      BY <1>0, <2>1, InlineNumbers
    <2>3. age' \in Seq(0..Twice) /\ Len(age') = Len(tally)
      <3>1. age' = [i \in 1..Len(tally) |-> age'[i]]
        BY <1>0, <2>1
      <3>2. age' \in [1..Len(tally) -> 0..Twice]
        BY <2>2, <3>1
      <3>3. age' \in Seq(0..Twice)
        BY <1>0, <3>2, SeqDef
      <3>4. QED
        BY <1>0, <2>2, <3>3, LenProperties
    <2>4. ASSUME NEW r \in recent, r.left > 1
          PROVE  /\ Inline!Older(r) \in recent' /\ IsMark(Inline!Older(r))
                 /\ Inline!Older(r).stamp = r.stamp /\ Inline!Older(r).left = r.left - 1
      <3>1. IsMark(r)
        BY DEF PicksInv, TalliesInv
      <3>2. Inline!Older(r) = [stamp |-> r.stamp, left |-> r.left - 1]
        BY <3>1 DEF IsMark, Inline!Older
      <3>3. r.left - 1 \in 1..Twice
        BY <2>4, <3>1, InlineNumbers DEF IsMark
      <3>4. QED
        BY <2>1, <2>4, <3>2, <3>3 DEF IsMark
    <2>5. \A r \in recent' : IsMark(r)
      BY <2>1, <2>4
    <2>6. ASSUME NEW d \in sent
          PROVE  d.pick \in DOMAIN tally /\ (tally[d.pick] > 0 /\ age'[d.pick] < Twice => Answered(d)')
      <3>1. d.pick \in 1..Len(tally)
        BY <1>0 DEF PicksInv, TalliesInv
      <3>2. ASSUME tally[d.pick] > 0, age'[d.pick] < Twice PROVE Answered(d)'
        <4>1. age[d.pick] < Twice /\ age'[d.pick] = age[d.pick] + 1 /\ age[d.pick] \in 0..Twice
          BY <1>0, <2>2, <3>1, <3>2, InlineNumbers
        <4>2. Answered(d)
          BY <3>2, <4>1 DEF PicksInv, TalliesInv
        <4>3. CASE d.what.token.secret < secret
          BY <2>1, <4>3 DEF Answered
        <4>4. ASSUME NEW r \in recent, r.stamp = Inline!Stamp(d.what), r.left >= Twice - age[d.pick]
              PROVE  Answered(d)'
          <5>1. IsMark(r)
            BY DEF PicksInv, TalliesInv
          <5>2. r.left > 1
            BY <3>2, <4>1, <4>4, <5>1, InlineNumbers DEF IsMark
          <5>3. /\ Inline!Older(r) \in recent' /\ Inline!Older(r).stamp = Inline!Stamp(d.what)
                /\ Inline!Older(r).left = r.left - 1
            BY <2>4, <4>4, <5>2
          <5>4. r.left - 1 >= Twice - age'[d.pick]
            BY <4>1, <4>4, <5>1, InlineNumbers DEF IsMark
          <5>5. QED
            BY <5>3, <5>4 DEF Answered
        <4>5. QED
          BY <4>2, <4>3, <4>4 DEF Answered
      <3>3. QED
        BY <1>0, <3>1, <3>2
    <2>7. QED
      BY <2>1, <2>3, <2>5, <2>6 DEF PicksInv, TalliesInv
  <1>5. CASE Inline!Reboot
    <2>1. secret' = secret + 1 /\ UNCHANGED <<sent, tally, age>> /\ recent' = {}
      BY <1>5 DEF Inline!Reboot, Inline!NewSecret
    <2>2. \A d \in sent : d.what.token.secret < secret'
      <3>1. secret \in Nat
        BY InlineNumbers DEF PicksInv, TokensInv
      <3>2. \A d \in sent : d.what.token.secret <= secret /\ d.what.token.secret \in 0..MaxBoots
        BY DEF PicksInv, TokensInv, Known, Inline!Tokens
      <3>3. QED
        BY <2>1, <3>1, <3>2, InlineNumbers
    <2>3. QED
      BY <2>1, <2>2 DEF PicksInv, TalliesInv, Answered
  <1>6. QED
    BY <1>1, <1>2, <1>3, <1>4, <1>5
    DEF Inline!InlineNext, Inline!TakeChosen, Inline!TakeMarker, Inline!Show, Inline!Query

-----------------------------------------------------------------------------
(* The budgets.                                                            *)

LEMMA BudgetConstants ==
    /\ Watched \in Keys /\ Cap \in Nat /\ Cap >= 1 /\ Span \in Nat /\ Span >= 1
    /\ MaxEntries \in Nat /\ MaxEntries >= 1 /\ Window \in Nat /\ Span <= 2 * Window
    /\ Replay \in Nat /\ Replay >= 1
    /\ Idle \in Nat /\ Span <= Idle
  BY MemoryConstants DEF LimiterConstants, Idle

LEMMA BudgetBegins == LimiterInit => BudgetInv
  <1> SUFFICES ASSUME LimiterInit PROVE BudgetInv
    OBVIOUS
  <1>1. DOMAIN buckets = {} /\ Cardinality({}) = 0 /\ IsFiniteSet({})
    BY FS_EmptySet DEF LimiterInit
  <1>2. QED
    BY <1>1, BudgetConstants DEF LimiterInit, BudgetInv, LimiterTypeOK, Ages

\* The bucket of a key that is asked for, as it enters the table.
LEMMA CountedIsBucket ==
  ASSUME LimiterTypeOK, NEW k \in Keys
  PROVE  [Counted(k) EXCEPT !.count = IF @ > Cap THEN Cap + 1 ELSE @] \in Bucket
  <1>1. Counted(k) \in Bucket
    <2>1. CASE k \notin DOMAIN buckets \/ WindowOver(buckets[k])
      BY <2>1, BudgetConstants DEF Counted, Bucket
    <2>2. CASE ~(k \notin DOMAIN buckets \/ WindowOver(buckets[k]))
      <3> DEFINE b == buckets[k]
      <3>1. b \in Bucket
        BY <2>2 DEF LimiterTypeOK
      <3>2. Counted(k) = [b EXCEPT !.count = b.count + 1, !.idle = 0]
        BY <2>2 DEF Counted
      <3> HIDE DEF b
      <3>3. Counted(k) = [age |-> b.age, count |-> b.count + 1, idle |-> 0]
        BY <3>1, <3>2 DEF Bucket
      <3>4. b.age \in 0..Span /\ b.count + 1 \in Nat /\ 0 \in 0..(Idle + 1)
        BY <3>1, BudgetConstants DEF Bucket
      <3>5. QED
        BY <3>3, <3>4 DEF Bucket
    <2>3. QED
      BY <2>1, <2>2
  <1> DEFINE c == Counted(k)
  <1>2. [c EXCEPT !.count = IF c.count > Cap THEN Cap + 1 ELSE c.count] \in Bucket
    <2> HIDE DEF c
    <2>1. c \in Bucket
      BY <1>1 DEF c
    <2>2. (IF c.count > Cap THEN Cap + 1 ELSE c.count) \in Nat
      BY <2>1, BudgetConstants DEF Bucket
    <2>3. QED
      BY <2>1, <2>2 DEF Bucket
  <1>3. QED
    BY <1>2

\* What the sweep leaves is part of the table with the key that was asked for.
LEMMA SweptKeeps ==
  ASSUME NEW k, NEW keys, IsFiniteSet(keys), k \in keys, NEW s \in Swept(k, keys)
  PROVE  s \subseteq keys /\ k \in s /\ Cardinality(s) <= MaxEntries
  <1>1. CASE ~Overflow(keys)
    BY <1>1, BudgetConstants, FS_CardinalityType DEF Swept, Overflow
  <1>2. CASE Overflow(keys)
    BY <1>2, BudgetConstants DEF Swept, kSubset
  <1>3. QED
    BY <1>1, <1>2

LEMMA KeysAreFinite ==
  ASSUME IsFiniteSet(DOMAIN buckets), NEW k
  PROVE  IsFiniteSet({x \in DOMAIN buckets : x # k /\ Fresh(x)} \cup {k})
  <1>1. IsFiniteSet({x \in DOMAIN buckets : x # k /\ Fresh(x)})
    BY FS_Subset
  <1>2. QED
    BY <1>1, FS_AddElement

LEMMA AskedKeepsTypes ==
  ASSUME LimiterTypeOK, IsFiniteSet(DOMAIN buckets), NEW k \in Keys, Asked(k)
  PROVE  /\ DOMAIN buckets' \subseteq Keys /\ IsFiniteSet(DOMAIN buckets')
         /\ \A x \in DOMAIN buckets' : buckets'[x] \in Bucket
         /\ Cardinality(DOMAIN buckets') <= MaxEntries
         /\ gone' \in 0..Span
  <1> DEFINE keys == {x \in DOMAIN buckets : x # k /\ Fresh(x)} \cup {k}
             entry == [Counted(k) EXCEPT !.count = IF @ > Cap THEN Cap + 1 ELSE @]
  <1>1. PICK s \in Swept(k, keys) :
          /\ buckets' = [x \in s |-> IF x = k THEN entry ELSE buckets[x]]
          /\ gone' = IF Watched \in keys \ s THEN 0 ELSE gone
    BY DEF Asked
  <1>2. s \subseteq keys /\ k \in s /\ Cardinality(s) <= MaxEntries /\ IsFiniteSet(s)
    <2>1. IsFiniteSet(keys) /\ k \in keys
      BY KeysAreFinite
    <2> HIDE DEF keys
    <2>2. QED
      BY <2>1, SweptKeeps, FS_Subset
  <1>3. entry \in Bucket
    BY CountedIsBucket
  <1>4. \A x \in s : x # k => x \in DOMAIN buckets
    BY <1>2
  <1> HIDE DEF keys, entry
  <1>5. QED
    BY <1>1, <1>2, <1>3, <1>4, BudgetConstants DEF LimiterTypeOK

\* A tap of another key may push the bucket of Watched out, or sweep it when all it
\* counted is past.
LEMMA OthersAsked ==
  ASSUME BudgetInv, NEW k \in Keys, k # Watched, Asked(k), let' = let, mark' \in 0..Replay
  PROVE  BudgetInv'
  <1> DEFINE keys == {x \in DOMAIN buckets : x # k /\ Fresh(x)} \cup {k}
             entry == [Counted(k) EXCEPT !.count = IF @ > Cap THEN Cap + 1 ELSE @]
  <1>1. PICK s \in Swept(k, keys) :
          /\ buckets' = [x \in s |-> IF x = k THEN entry ELSE buckets[x]]
          /\ gone' = IF Watched \in keys \ s THEN 0 ELSE gone
    BY DEF Asked
  <1>2. s \subseteq keys
    <2>1. IsFiniteSet(keys) /\ k \in keys
      BY KeysAreFinite DEF BudgetInv
    <2> HIDE DEF keys
    <2>2. QED
      BY <2>1, SweptKeeps
  <1>3. LimiterTypeOK' /\ IsFiniteSet(DOMAIN buckets')
    BY AskedKeepsTypes DEF BudgetInv, LimiterTypeOK, Ages
  <1>4. CASE Watched \in s
    <2>1. Watched \in DOMAIN buckets /\ Watched \in DOMAIN buckets'
          /\ buckets'[Watched] = buckets[Watched] /\ gone' = gone
      BY <1>1, <1>2, <1>4
    <2>2. QED
      BY <1>3, <2>1 DEF BudgetInv, Ages
  <1>5. CASE Watched \in keys \ s
    <2>1. Watched \notin DOMAIN buckets' /\ gone' = 0
      BY <1>1, <1>5
    <2>2. QED
      BY <1>3, <2>1, BudgetConstants DEF BudgetInv, Ages
  <1>6. CASE Watched \notin keys
    <2>1. Watched \notin DOMAIN buckets' /\ gone' = gone
      BY <1>1, <1>2, <1>6
    <2>2. ASSUME Watched \in DOMAIN buckets PROVE \A a \in Ages : a < gone => let[a] = 0
      <3>1. buckets[Watched].idle \in 0..(Idle + 1) /\ ~(buckets[Watched].idle <= Idle)
        BY <2>2, <1>6 DEF Fresh, BudgetInv, LimiterTypeOK, Bucket
      <3>2. \A a \in Ages : a < buckets[Watched].idle
        BY <3>1, BudgetConstants DEF Ages
      <3>3. QED
        BY <2>2, <3>2 DEF BudgetInv
    <2>3. QED
      BY <1>3, <2>1, <2>2 DEF BudgetInv, Ages
  <1>7. QED
    BY <1>4, <1>5, <1>6

\* A tap of Watched is counted, and let in while the count is within the limit.
LEMMA WatchedAsked ==
  ASSUME BudgetInv, Asked(Watched), mark' \in 0..Replay,
         let' = IF LetIn(Watched) THEN OneMore ELSE let
  PROVE  BudgetInv'
  <1> DEFINE keys == {x \in DOMAIN buckets : x # Watched /\ Fresh(x)} \cup {Watched}
             entry == [Counted(Watched) EXCEPT !.count = IF @ > Cap THEN Cap + 1 ELSE @]
  <1> USE BudgetConstants
  <1>1. PICK s \in Swept(Watched, keys) :
          /\ buckets' = [x \in s |-> IF x = Watched THEN entry ELSE buckets[x]]
          /\ gone' = IF Watched \in keys \ s THEN 0 ELSE gone
    BY DEF Asked
  <1>2. Watched \in DOMAIN buckets' /\ buckets'[Watched] = entry /\ gone' = gone
    BY <1>1, KeysAreFinite, SweptKeeps DEF BudgetInv
  <1>3. let \in [Ages -> 0..(2 * Cap)] /\ gone \in 0..Span
    BY DEF BudgetInv, LimiterTypeOK
  <1>4. \A a \in Ages : OneMore[a] = IF let[a] < 2 * Cap THEN let[a] + 1 ELSE let[a]
    BY DEF OneMore
  <1>5. OneMore \in [Ages -> 0..(2 * Cap)]
    BY <1>3 DEF OneMore
  <1>6. LimiterTypeOK' /\ IsFiniteSet(DOMAIN buckets')
    BY <1>3, <1>5, AskedKeepsTypes DEF BudgetInv, LimiterTypeOK, Ages
  <1>7. CASE Watched \notin DOMAIN buckets \/ WindowOver(buckets[Watched])
    <2>1. Counted(Watched) = [age |-> 0, count |-> 1, idle |-> 0]
      BY <1>7 DEF Counted
    <2>2. entry.age = 0 /\ entry.count = 1 /\ entry.idle = 0 /\ let' = OneMore
      BY <2>1 DEF LetIn
    <2>3. \A a \in Ages : a < gone => let[a] <= Cap - 1 /\ let[0] = 0
      <3>1. CASE Watched \notin DOMAIN buckets
        BY <1>3, <3>1 DEF BudgetInv, Ages
      <3>2. CASE Watched \in DOMAIN buckets
        <4>1. buckets[Watched].age = Span /\ buckets[Watched].idle \in Nat
              /\ buckets[Watched].idle >= 1
          BY <1>7, <3>2 DEF WindowOver, BudgetInv, LimiterTypeOK, Bucket
        <4>2. QED
          BY <1>3, <3>2, <4>1 DEF BudgetInv, Ages
      <3>3. QED
        BY <3>1, <3>2
    <2>4. ASSUME NEW a \in Ages, a < gone PROVE let'[0] = 1 /\ let'[a] <= Cap
      <3>1. 0 \in Ages /\ let[a] \in 0..(2 * Cap) /\ let[0] = 0 /\ let[a] <= Cap - 1
        BY <1>3, <2>3, <2>4 DEF Ages
      <3>2. let'[0] = 1 /\ (let'[a] = let[a] + 1 \/ let'[a] = let[a])
        BY <1>4, <2>2, <3>1
      <3>3. QED
        BY <3>1, <3>2
    <2> HIDE DEF entry
    <2>5. QED
      BY <1>2, <1>3, <1>6, <2>2, <2>4 DEF BudgetInv, Ages
  <1>8. CASE ~(Watched \notin DOMAIN buckets \/ WindowOver(buckets[Watched]))
    <2> DEFINE b == buckets[Watched]
    <2>1. b \in Bucket /\ b.age < Span /\ b.count >= 1
      BY <1>8 DEF BudgetInv, LimiterTypeOK, WindowOver, Bucket
    <2>2. Counted(Watched) = [b EXCEPT !.count = @ + 1, !.idle = 0]
      BY <1>8 DEF Counted
    <2>3. /\ entry.age = b.age /\ entry.idle = 0
          /\ entry.count = IF b.count + 1 > Cap THEN Cap + 1 ELSE b.count + 1
          /\ LetIn(Watched) <=> b.count + 1 <= Cap
      BY <2>1, <2>2 DEF LetIn, Bucket
    <2>4. \A a \in Ages : a < gone =>
             /\ a < b.age => let[a] <= b.count - 1 /\ let[a] <= Cap - 1
             /\ a >= b.age => /\ let[b.age] <= b.count /\ let[b.age] <= Cap
                              /\ let[a] <= let[b.age] + Cap - 1
      BY <1>8 DEF BudgetInv
    <2>5. b.age \in Ages /\ b.count \in Nat
      BY <2>1 DEF Ages, Bucket
    <2> HIDE DEF entry, b
    <2>6. \A a \in Ages : a < gone =>
             /\ a < b.age => let'[a] <= entry.count - 1 /\ let'[a] <= Cap - 1
             /\ a >= b.age => /\ let'[b.age] <= entry.count /\ let'[b.age] <= Cap
                              /\ let'[a] <= let'[b.age] + Cap - 1
      <3> SUFFICES ASSUME NEW a \in Ages, a < gone
                   PROVE  /\ a < b.age => let'[a] <= entry.count - 1 /\ let'[a] <= Cap - 1
                          /\ a >= b.age => /\ let'[b.age] <= entry.count /\ let'[b.age] <= Cap
                                           /\ let'[a] <= let'[b.age] + Cap - 1
        OBVIOUS
      <3>1. let[a] \in 0..(2 * Cap) /\ let[b.age] \in 0..(2 * Cap) /\ a \in Nat
        BY <1>3, <2>5 DEF Ages
      <3>2. CASE LetIn(Watched)
        <4>1. /\ let'[a] = IF let[a] < 2 * Cap THEN let[a] + 1 ELSE let[a]
              /\ let'[b.age] = IF let[b.age] < 2 * Cap THEN let[b.age] + 1 ELSE let[b.age]
          BY <1>4, <3>2, <2>5
        <4>2. QED
          BY <2>1, <2>3, <2>4, <2>5, <3>1, <3>2, <4>1 DEF Ages
      <3>3. CASE ~LetIn(Watched)
        <4>1. let' = let
          BY <3>3
        <4>2. entry.count = Cap + 1 /\ b.count + 1 > Cap
          BY <2>3, <2>5, <3>3
        <4>3. QED
          BY <2>1, <2>4, <2>5, <3>1, <4>1, <4>2 DEF Ages
      <3>4. QED
        BY <3>2, <3>3
    <2>7. entry.count >= 1 /\ (entry.age = Span => entry.idle >= 1)
          /\ \A a \in Ages : ~(a < entry.idle)
      BY <2>1, <2>3, <2>5 DEF Ages
    <2>8. QED
      BY <1>2, <1>6, <2>3, <2>6, <2>7 DEF BudgetInv, Ages
  <1>9. QED
    BY <1>7, <1>8

LEMMA OlderGrows ==
  ASSUME NEW bound \in Nat, NEW x \in 0..bound
  PROVE  Older(x, bound) \in 0..bound /\ Older(x, bound) = IF x < bound THEN x + 1 ELSE bound
  BY DEF Older

LEMMA BudgetAges == ASSUME BudgetInv, Tick PROVE BudgetInv'
  <1> USE BudgetConstants
  <1>1. let \in [Ages -> 0..(2 * Cap)] /\ gone \in 0..Span /\ mark \in 0..Replay
    BY DEF BudgetInv, LimiterTypeOK
  <1>2. /\ let' \in [Ages -> 0..(2 * Cap)] /\ let'[0] = 0
        /\ \A a \in Ages : a # 0 => a - 1 \in Ages /\ let'[a] = let[a - 1]
    <2>1. let' = [a \in Ages |-> IF a = 0 THEN 0 ELSE let[a - 1]]
      BY DEF Tick
    <2>2. 0 \in Ages /\ \A a \in Ages : a # 0 => a - 1 \in Ages
      BY DEF Ages
    <2>3. \A a \in Ages : (IF a = 0 THEN 0 ELSE let[a - 1]) \in 0..(2 * Cap)
      BY <1>1, <2>2
    <2>4. QED
      BY <2>1, <2>2, <2>3
  <1>3. gone' \in 0..Span /\ gone' = IF gone < Span THEN gone + 1 ELSE Span
    BY <1>1, OlderGrows DEF Tick
  <1>4. \A a \in Ages : a < gone' /\ a # 0 => a - 1 < gone
    BY <1>1, <1>3 DEF Ages
  <1>5. DOMAIN buckets' = DOMAIN buckets
    BY DEF Tick
  <1>6. \A x \in DOMAIN buckets :
           LET b == buckets[x]
           IN  /\ b \in Bucket /\ buckets'[x] \in Bucket /\ buckets'[x].count = b.count
               /\ buckets'[x].age = IF b.age < Span THEN b.age + 1 ELSE Span
               /\ buckets'[x].idle = IF b.idle < Idle + 1 THEN b.idle + 1 ELSE Idle + 1
    <2> SUFFICES ASSUME NEW x \in DOMAIN buckets
                 PROVE LET b == buckets[x]
                       IN /\ b \in Bucket /\ buckets'[x] \in Bucket /\ buckets'[x].count = b.count
                          /\ buckets'[x].age = IF b.age < Span THEN b.age + 1 ELSE Span
                          /\ buckets'[x].idle = IF b.idle < Idle + 1 THEN b.idle + 1 ELSE Idle + 1
      OBVIOUS
    <2> DEFINE b == buckets[x]
    <2>1. b \in Bucket
      BY DEF BudgetInv, LimiterTypeOK
    <2>2. buckets'[x] = [b EXCEPT !.age = Older(@, Span), !.idle = Older(@, Idle + 1)]
      BY DEF Tick
    <2>3. /\ Older(b.age, Span) \in 0..Span
          /\ Older(b.age, Span) = IF b.age < Span THEN b.age + 1 ELSE Span
          /\ Older(b.idle, Idle + 1) \in 0..(Idle + 1)
          /\ Older(b.idle, Idle + 1) = IF b.idle < Idle + 1 THEN b.idle + 1 ELSE Idle + 1
      BY <2>1, OlderGrows DEF Bucket
    <2>4. QED
      BY <2>1, <2>2, <2>3 DEF Bucket
  <1>7. LimiterTypeOK'
    BY <1>1, <1>2, <1>3, <1>5, <1>6, OlderGrows DEF BudgetInv, LimiterTypeOK, Ages, Tick
  <1>8. CASE Watched \notin DOMAIN buckets
    BY <1>2, <1>4, <1>5, <1>7, <1>8 DEF BudgetInv, Ages
  <1>9. CASE Watched \in DOMAIN buckets
    <2> DEFINE b == buckets[Watched]
               c == buckets'[Watched]
    <2>1. /\ b \in Bucket /\ c.count = b.count /\ b.count >= 1
          /\ c.age = IF b.age < Span THEN b.age + 1 ELSE Span
          /\ c.idle = IF b.idle < Idle + 1 THEN b.idle + 1 ELSE Idle + 1
      BY <1>6, <1>9 DEF BudgetInv
    <2>2. b.age \in 0..Span /\ b.idle \in 0..(Idle + 1) /\ b.count \in Nat
      BY <2>1 DEF Bucket
    <2>3. \A a \in Ages : a < gone =>
             /\ a < b.idle => let[a] = 0
             /\ a < b.age => let[a] <= b.count - 1 /\ let[a] <= Cap - 1
             /\ a >= b.age => /\ let[b.age] <= b.count /\ let[b.age] <= Cap
                              /\ let[a] <= let[b.age] + Cap - 1
      BY <1>9 DEF BudgetInv
    <2> HIDE DEF b, c
    <2>4. ASSUME NEW a \in Ages, a < gone'
          PROVE  /\ a < c.idle => let'[a] = 0
                 /\ a < c.age => let'[a] <= c.count - 1 /\ let'[a] <= Cap - 1
                 /\ a >= c.age => /\ let'[c.age] <= c.count /\ let'[c.age] <= Cap
                                  /\ let'[a] <= let'[c.age] + Cap - 1
      <3>1. CASE a = 0
        BY <1>2, <2>1, <2>2, <3>1
      <3>2. CASE a # 0
        <4>1. a - 1 \in Ages /\ a - 1 < gone /\ let'[a] = let[a - 1]
          BY <1>2, <1>4, <2>4, <3>2
        <4>2. a < c.idle => a - 1 < b.idle
          BY <2>1, <2>2, <4>1 DEF Ages
        <4>3. a < c.age => a - 1 < b.age
          BY <2>1, <2>2, <4>1 DEF Ages
        <4>4. a >= c.age => a - 1 >= b.age /\ c.age = b.age + 1 /\ c.age \in Ages
          BY <2>1, <2>2, <4>1 DEF Ages
        <4>5. a >= c.age => let'[c.age] = let[b.age]
          BY <1>2, <2>2, <4>4
        <4>6. QED
          BY <2>1, <2>3, <4>1, <4>2, <4>3, <4>4, <4>5
      <3>3. QED
        BY <3>1, <3>2
    <2>5. c.count >= 1 /\ (c.age = Span => c.idle >= 1)
      BY <2>1, <2>2
    <2>6. QED
      BY <1>5, <1>7, <1>9, <2>4, <2>5 DEF BudgetInv, Ages, c
  <1>10. QED
    BY <1>8, <1>9

LEMMA BudgetStep == BudgetInv /\ LimiterNext => BudgetInv'
  <1> SUFFICES ASSUME BudgetInv, LimiterNext PROVE BudgetInv'
    OBVIOUS
  <1> USE BudgetConstants
  <1>0. mark \in 0..Replay
    BY DEF BudgetInv, LimiterTypeOK
  <1>1. ASSUME NEW k \in Keys, Ask(k) PROVE BudgetInv'
    <2>1. CASE k = Watched
      BY <1>0, <1>1, <2>1, WatchedAsked DEF Ask
    <2>2. CASE k # Watched
      BY <1>0, <1>1, <2>2, OthersAsked DEF Ask
    <2>3. QED
      BY <2>1, <2>2
  <1>2. CASE AskExpensive
    <2>1. mark' \in 0..Replay
      BY <1>2 DEF AskExpensive
    <2>2. CASE FirstTime
      BY <1>2, <2>1, <2>2, WatchedAsked DEF AskExpensive
    <2>3. CASE ~FirstTime
      BY <1>2, <2>1, <2>3 DEF AskExpensive, BudgetInv, LimiterTypeOK, Ages
    <2>4. QED
      BY <2>2, <2>3
  <1>3. QED
    BY <1>1, <1>2, BudgetAges DEF LimiterNext

LEMMA BudgetBounds == BudgetInv => TwoWindowsAtMost
  <1> SUFFICES ASSUME BudgetInv, gone = Span PROVE let[Span - 1] <= 2 * Cap - 1
    BY DEF TwoWindowsAtMost
  <1> USE BudgetConstants
  <1>1. Span - 1 \in Ages /\ let \in [Ages -> 0..(2 * Cap)]
    BY DEF Ages, BudgetInv, LimiterTypeOK
  <1>2. CASE Watched \notin DOMAIN buckets
    BY <1>1, <1>2 DEF BudgetInv
  <1>3. CASE Watched \in DOMAIN buckets
    <2>1. buckets[Watched].age \in 0..Span
      BY <1>3 DEF BudgetInv, LimiterTypeOK, Bucket
    <2>2. CASE buckets[Watched].age = Span
      BY <1>1, <1>3, <2>2 DEF BudgetInv
    <2>3. CASE buckets[Watched].age < Span
      <3>1. buckets[Watched].age \in Ages
        BY <2>1, <2>3 DEF Ages
      <3>2. let[Span - 1] <= let[buckets[Watched].age] + Cap - 1 /\ let[buckets[Watched].age] <= Cap
        BY <1>1, <1>3, <2>1, <2>3 DEF BudgetInv
      <3>3. QED
        BY <1>1, <3>1, <3>2
    <2>4. QED
      BY <2>1, <2>2, <2>3
  <1>4. QED
    BY <1>2, <1>3

-----------------------------------------------------------------------------
(* The notifications.                                                      *)

LEMMA CentreConstants ==
    /\ Centre!Kinds = {"ssh", "fail2ban"}
    /\ Cooldown \in [Centre!Kinds -> Nat \ {0}] /\ Around \in [Centre!Kinds -> Nat \ {0}]
    /\ SeenKept \in Nat /\ SeenMost \in Nat /\ SeenKept <= SeenMost
    /\ Centre!Within("ssh") + Centre!Within("fail2ban") <= SeenKept
  BY MemoryConstants DEF Centre!NotifyConstants, Centre!Kinds

LEMMA WidestIsWide ==
    /\ Centre!Widest \in Nat /\ Centre!Widest >= 1
    /\ \A k \in Centre!Kinds : Around[k] <= Centre!Widest /\ Cooldown[k] <= Centre!Widest
  <1> DEFINE S == {Around[k] : k \in Centre!Kinds} \cup {Cooldown[k] : k \in Centre!Kinds}
  <1>1. S = {Around["ssh"], Around["fail2ban"], Cooldown["ssh"], Cooldown["fail2ban"]}
    BY CentreConstants
  <1>2. \A x \in S : x \in Nat /\ x >= 1
    BY <1>1, CentreConstants
  <1>3. \E x \in S : \A y \in S : x >= y
    BY <1>1, CentreConstants
  <1>4. Centre!Widest = CHOOSE x \in S : \A y \in S : x >= y
    BY DEF Centre!Widest, Centre!Max
  <1>5. \A k \in Centre!Kinds : Around[k] \in S /\ Cooldown[k] \in S
    OBVIOUS
  <1> HIDE DEF S
  <1>6. Centre!Widest \in S /\ \A y \in S : Centre!Widest >= y
    BY <1>3, <1>4
  <1>7. QED
    BY <1>2, <1>5, <1>6

LEMMA CentreBegins == Centre!NotifyInit => CentreInv
  <1> SUFFICES ASSUME Centre!NotifyInit PROVE CentreInv
    OBVIOUS
  <1>1. DOMAIN seen = {} /\ IsFiniteSet({})
    BY FS_EmptySet DEF Centre!NotifyInit
  <1>2. \A e \in Centre!Events : e[1] \in Centre!Kinds
    BY DEF Centre!Events
  <1>3. QED
    BY <1>1, <1>2, WidestIsWide DEF Centre!NotifyInit, CentreInv

\* Division, as far as it is needed: numbers that are as far apart as the divisor have
\* different quotients.
LEMMA Quotient ==
  ASSUME NEW c \in Nat, c >= 1, NEW a \in Nat
  PROVE  a \div c \in Nat /\ c * (a \div c) <= a /\ a < c * (a \div c) + c
  OBVIOUS

LEMMA QuotientsDiffer ==
  ASSUME NEW c \in Nat, c >= 1, NEW a \in Nat, NEW b \in Nat, a + c <= b
  PROVE  a \div c # b \div c
  BY Quotient

LEMMA QuotientsGrow ==
  ASSUME NEW c \in Nat, c >= 1, NEW a \in Nat, NEW b \in Nat, a <= b
  PROVE  a \div c <= b \div c
  <1> DEFINE p == a \div c
             q == b \div c
  <1>1. p \in Nat /\ q \in Nat /\ c * p <= a /\ b < c * q + c
    BY Quotient
  <1> HIDE DEF p, q
  <1>2. ASSUME q < p PROVE FALSE
    <2>1. PICK d \in Nat : p = q + 1 + d
      <3>1. p - q - 1 \in Nat /\ p = q + 1 + (p - q - 1)
        BY <1>1, <1>2
      <3>2. QED
        BY <3>1
    <2>2. c * p = c * q + c + c * d /\ c * d >= 0
      BY <1>1, <2>1
    <2>3. QED
      BY <1>1, <2>2
  <1>3. QED
    BY <1>1, <1>2 DEF p, q

LEMMA SameSizes == \A S : Centre!Cardinality(S) = Cardinality(S)
  BY DEF Centre!Cardinality, Cardinality, Centre!IsFiniteSet, IsFiniteSet

LEMMA WithinIsInt == \A k \in Centre!Kinds : Centre!Within(k) \in Nat
  <1>1. ASSUME NEW k \in Centre!Kinds PROVE Centre!Within(k) \in Nat
    <2>1. Cooldown[k] \in Nat /\ Cooldown[k] >= 1 /\ Centre!Widest - 1 \in Nat
      BY CentreConstants, WidestIsWide
    <2>2. (Centre!Widest - 1) \div Cooldown[k] \in Nat
      BY <2>1, Quotient
    <2>3. QED
      BY <2>2 DEF Centre!Within
  <1>2. QED
    BY <1>1

\* The events of one kind, younger than the longest quiet, that a table with the cooldown
\* between any two can hold.
Spaced(table) ==
    \A e, f \in DOMAIN table :
        e # f /\ e[1] = f[1] /\ table[e] <= table[f] /\ table[f] < Centre!Widest =>
            table[e] + Cooldown[e[1]] <= table[f]
Young(table, k) == {e \in DOMAIN table : e[1] = k /\ table[e] < Centre!Widest}

LEMMA FewOfAKind ==
  ASSUME NEW table, NEW k \in Centre!Kinds, Spaced(table),
         \A e \in DOMAIN table : table[e] \in Nat
  PROVE  /\ IsFiniteSet(Young(table, k))
         /\ Cardinality(Young(table, k)) <= Centre!Within(k)
  <1> DEFINE c == Cooldown[k]
             m == (Centre!Widest - 1) \div c
             S == Young(table, k)
             q == [e \in S |-> table[e] \div c]
  <1>1. c \in Nat /\ c >= 1 /\ Centre!Widest - 1 \in Nat
    BY CentreConstants, WidestIsWide
  <1>2. m \in Nat /\ Centre!Within(k) = m + 1
    BY <1>1, Quotient DEF Centre!Within
  <1>3. IsFiniteSet(0..m) /\ Cardinality(0..m) = m + 1
    BY <1>2, FS_Interval
  <1>4. ASSUME NEW e \in S PROVE table[e] \div c \in 0..m
    <2>1. table[e] \in Nat /\ table[e] <= Centre!Widest - 1
      BY WidestIsWide DEF Young
    <2> HIDE DEF c
    <2>2. QED
      BY <1>1, <1>2, <2>1, Quotient, QuotientsGrow
  <1>5. ASSUME NEW e \in S, NEW f \in S, e # f PROVE table[e] \div c # table[f] \div c
    <2>1. table[e] \in Nat /\ table[f] \in Nat /\ e[1] = k /\ f[1] = k
      BY DEF Young
    <2>2. table[e] + c <= table[f] \/ table[f] + c <= table[e]
      BY <1>5, <2>1 DEF Young, Spaced
    <2> HIDE DEF c
    <2>3. QED
      BY <1>1, <2>1, <2>2, QuotientsDiffer
  <1>6. q \in Injection(S, 0..m)
    <2> HIDE DEF S, c, m
    <2>1. q \in [S -> 0..m]
      BY <1>4
    <2>2. \A e, f \in S : e # f => q[e] # q[f]
      BY <1>5
    <2> HIDE DEF q
    <2>3. QED
      BY <2>1, <2>2 DEF Injection, IsInjective
  <1> HIDE DEF S, m, q
  <1>7. QED
    BY <1>2, <1>3, <1>6, FS_Injection DEF S

\* What a cut drops is older than every quiet.
LEMMA CutIsOld ==
  ASSUME NEW table, DOMAIN table \subseteq Centre!Events, IsFiniteSet(DOMAIN table),
         \A e \in DOMAIN table : table[e] \in Nat, Spaced(table),
         NEW s \in Centre!Trims(table)
  PROVE  /\ s \subseteq DOMAIN table
         /\ \A e \in DOMAIN table \ s : table[e] >= Centre!Widest
  <1>1. CASE Cardinality(DOMAIN table) <= SeenMost
    BY <1>1, SameSizes DEF Centre!Trims
  <1>2. CASE ~(Cardinality(DOMAIN table) <= SeenMost)
    <2>1. /\ s \subseteq DOMAIN table /\ Cardinality(s) = SeenKept
          /\ \A in \in s, out \in DOMAIN table \ s : table[in] <= table[out]
      BY <1>2, SameSizes DEF Centre!Trims, Centre!kSubset, Centre!Younger
    <2>2. ASSUME NEW x \in DOMAIN table \ s, table[x] < Centre!Widest PROVE FALSE
      <3> DEFINE A == Young(table, "ssh")
                 B == Young(table, "fail2ban")
      <3>1. "ssh" \in Centre!Kinds /\ "fail2ban" \in Centre!Kinds
        BY CentreConstants
      <3>2. /\ IsFiniteSet(A) /\ Cardinality(A) <= Centre!Within("ssh")
            /\ IsFiniteSet(B) /\ Cardinality(B) <= Centre!Within("fail2ban")
        BY <3>1, FewOfAKind
      <3>3. s \cup {x} \subseteq A \cup B
        <4>1. \A e \in s \cup {x} : e \in DOMAIN table /\ table[e] <= table[x]
          BY <2>1
        <4>2. \A e \in s \cup {x} : table[e] < Centre!Widest
          BY <2>2, <4>1, WidestIsWide
        <4>3. \A e \in DOMAIN table : e[1] = "ssh" \/ e[1] = "fail2ban"
          BY CentreConstants DEF Centre!Events
        <4>4. QED
          BY <4>1, <4>2, <4>3 DEF Young
      <3> HIDE DEF A, B
      <3>4. IsFiniteSet(A \cup B) /\ Cardinality(A \cup B) <= Cardinality(A) + Cardinality(B)
        <4>1. /\ IsFiniteSet(A \cup B)
              /\ Cardinality(A \cup B) = Cardinality(A) + Cardinality(B) - Cardinality(A \cap B)
          BY <3>2, FS_Union
        <4>2. IsFiniteSet(A \cap B)
          BY <3>2, FS_Intersection
        <4>3. Cardinality(A) \in Nat /\ Cardinality(B) \in Nat /\ Cardinality(A \cap B) \in Nat
          BY <3>2, <4>2, FS_CardinalityType
        <4>4. QED
          BY <4>1, <4>3
      <3>5. IsFiniteSet(s) /\ Cardinality(s \cup {x}) = SeenKept + 1
        BY <2>1, FS_Subset, FS_AddElement
      <3>6. Cardinality(s \cup {x}) <= Cardinality(A \cup B)
        BY <3>3, <3>4, FS_Subset
      <3>7. /\ Cardinality(A) \in Nat /\ Cardinality(B) \in Nat /\ Cardinality(A \cup B) \in Nat
            /\ Centre!Within("ssh") \in Int /\ Centre!Within("fail2ban") \in Int
        BY <3>2, <3>4, FS_CardinalityType, WithinIsInt, <3>1
      <3>8. QED
        BY <3>2, <3>4, <3>5, <3>6, <3>7, CentreConstants
    <2>3. QED
      BY <2>1, <2>2, WidestIsWide
  <1>3. QED
    BY <1>1, <1>2

LEMMA RaiseKeeps ==
  ASSUME CentreInv, NEW k \in Centre!Kinds, NEW from \in SUBSET Sources, Centre!Raise(k, from)
  PROVE  CentreInv'
  <1>1. CASE UNCHANGED <<seen, source, since, repeated, raised>>
    BY <1>1 DEF CentreInv
  <1>2. ASSUME NEW e \in Centre!Hearable(k, from),
               LET table == [x \in DOMAIN seen \cup {e} |-> IF x = e THEN 0 ELSE seen[x]]
               IN  /\ \E s \in Centre!Trims(table) : seen' = Centre!Restrict(table, s)
                   /\ source' = [source EXCEPT ![k] = 0]
                   /\ repeated' = (repeated \/ since[e] < Around[k])
                   /\ since' = [since EXCEPT ![e] = 0]
        PROVE CentreInv'
    <2> DEFINE table == [x \in DOMAIN seen \cup {e} |-> IF x = e THEN 0 ELSE seen[x]]
    <2>1. /\ e \in Centre!Events /\ e[1] = k /\ source[k] >= Cooldown[k]
          /\ e \in DOMAIN seen => seen[e] >= Around[k]
      <3>1. e \in {k} \X from /\ ~Centre!Quiet(e) /\ ~(source[k] < Cooldown[k])
        BY <1>2 DEF Centre!Hearable
      <3>2. e \in Centre!Events /\ e[1] = k
        BY <3>1 DEF Centre!Events
      <3>3. source[k] \in Nat /\ Cooldown[k] \in Nat /\ Around[k] \in Nat
            /\ (e \in DOMAIN seen => seen[e] \in Nat)
        BY <3>2, CentreConstants DEF CentreInv
      <3>4. QED
        BY <3>1, <3>2, <3>3 DEF Centre!Quiet
    <2>2. since[e] >= Around[k] /\ since[e] \in Nat /\ Around[k] \in Nat
      BY <2>1, CentreConstants DEF CentreInv
    <2>3. \A x \in DOMAIN table : table[x] \in Nat /\ table[x] \in 0..Centre!Widest
      BY <2>1, WidestIsWide DEF CentreInv
    <2>4. Spaced(table)
      <3> SUFFICES ASSUME NEW x \in DOMAIN table, NEW y \in DOMAIN table, x # y, x[1] = y[1],
                          table[x] <= table[y], table[y] < Centre!Widest
                   PROVE  table[x] + Cooldown[x[1]] <= table[y]
        BY DEF Spaced
      <3>0. Cooldown[k] \in Nat /\ Cooldown[k] >= 1
        BY CentreConstants
      <3>1. CASE x = e
        <4>1. y \in DOMAIN seen /\ table[x] = 0 /\ table[y] = seen[y] /\ y[1] = k
          BY <2>1, <3>1
        <4>2. seen[y] >= source[k] /\ source[k] \in Nat /\ seen[y] \in Nat
          BY <4>1 DEF CentreInv
        <4>3. QED
          BY <2>1, <3>0, <3>1, <4>1, <4>2
      <3>2. CASE y = e
        <4>1. x \in DOMAIN seen /\ table[y] = 0 /\ table[x] = seen[x] /\ x[1] = k
          BY <2>1, <3>2
        <4>2. seen[x] >= source[k] /\ source[k] \in Nat /\ seen[x] \in Nat
          BY <4>1 DEF CentreInv
        <4>3. QED
          BY <2>1, <3>0, <4>1, <4>2
      <3>3. CASE x # e /\ y # e
        BY <3>3 DEF CentreInv
      <3>4. QED
        BY <3>1, <3>2, <3>3
    <2>5. DOMAIN table = DOMAIN seen \cup {e} /\ DOMAIN table \subseteq Centre!Events
          /\ IsFiniteSet(DOMAIN table)
      BY <2>1, FS_AddElement DEF CentreInv
    <2>6. PICK s \in Centre!Trims(table) : seen' = Centre!Restrict(table, s)
      BY <1>2
    <2>7. table[e] = 0 /\ \A x \in DOMAIN seen \ {e} : table[x] = seen[x]
      OBVIOUS
    <2>8. /\ source' = [source EXCEPT ![k] = 0] /\ since' = [since EXCEPT ![e] = 0]
          /\ repeated' = (repeated \/ since[e] < Around[k])
      BY <1>2
    <2> HIDE DEF table
    <2>9. s \subseteq DOMAIN table /\ \A x \in DOMAIN table \ s : table[x] >= Centre!Widest
      BY <2>3, <2>4, <2>5, <2>6, CutIsOld
    <2>10. e \in s
      BY <2>5, <2>7, <2>9, WidestIsWide
    <2>11. DOMAIN seen' = s /\ \A x \in s : seen'[x] = table[x]
      BY <2>6, <2>9 DEF Centre!Restrict
    <2>12. repeated' = FALSE
      <3> DEFINE soon == since[e] < Around[k]
      <3>1. repeated = FALSE /\ ~soon
        BY <2>2 DEF CentreInv
      <3>2. repeated' = (repeated \/ soon)
        BY <2>8
      <3> HIDE DEF soon
      <3>3. QED
        BY <3>1, <3>2, Zenon
    <2>13. source' \in [Centre!Kinds -> 0..Centre!Widest]
           /\ since' \in [Centre!Events -> 0..Centre!Widest]
      BY <2>1, <2>8, WidestIsWide DEF CentreInv
    <2>14. DOMAIN seen' \subseteq Centre!Events /\ IsFiniteSet(DOMAIN seen')
      BY <2>5, <2>9, <2>11, FS_Subset
    <2>15. \A x \in DOMAIN seen' : since'[x] = seen'[x] /\ source'[x[1]] <= seen'[x]
      <3> SUFFICES ASSUME NEW x \in s
                   PROVE  since'[x] = table[x] /\ source'[x[1]] <= table[x]
        BY <2>11
      <3>1. x \in Centre!Events /\ x[1] \in Centre!Kinds
        BY <2>5, <2>9 DEF Centre!Events
      <3>2. CASE x = e
        <4>1. since'[e] = 0 /\ source'[k] = 0
          BY <2>1, <2>8, <3>1, <3>2 DEF CentreInv
        <4>2. QED
          BY <2>1, <2>7, <3>2, <4>1
      <3>3. CASE x # e
        <4>1. x \in DOMAIN seen /\ table[x] = seen[x] /\ since'[x] = since[x]
          BY <2>5, <2>7, <2>8, <2>9, <3>3, <3>1 DEF CentreInv
        <4>2. source'[x[1]] = source[x[1]] \/ source'[x[1]] = 0
          BY <2>8, <3>1 DEF CentreInv
        <4>3. QED
          BY <2>3, <2>9, <4>1, <4>2 DEF CentreInv
      <3>4. QED
        BY <3>2, <3>3
    <2>16. \A x \in Centre!Events \ DOMAIN seen' : since'[x] >= Around[x[1]]
      <3> SUFFICES ASSUME NEW x \in Centre!Events \ s PROVE since'[x] >= Around[x[1]]
        BY <2>11
      <3>0. x # e /\ since'[x] = since[x] /\ x[1] \in Centre!Kinds
        BY <2>8, <2>10 DEF CentreInv, Centre!Events
      <3>1. CASE x \in DOMAIN seen
        <4>1. table[x] = seen[x] /\ table[x] >= Centre!Widest /\ since[x] = seen[x]
          BY <2>5, <2>7, <2>9, <3>0, <3>1 DEF CentreInv
        <4>2. Around[x[1]] <= Centre!Widest /\ Around[x[1]] \in Nat /\ table[x] \in Nat
          BY <2>3, <2>5, <3>0, <3>1, WidestIsWide, CentreConstants
        <4>3. QED
          BY <3>0, <4>1, <4>2, WidestIsWide
      <3>2. CASE x \notin DOMAIN seen
        BY <3>0, <3>2 DEF CentreInv
      <3>3. QED
        BY <3>1, <3>2
    <2>17. \A x, y \in DOMAIN seen' :
              x # y /\ x[1] = y[1] /\ seen'[x] <= seen'[y] /\ seen'[y] < Centre!Widest =>
                  seen'[x] + Cooldown[x[1]] <= seen'[y]
      BY <2>4, <2>9, <2>11 DEF Spaced
    <2>18. QED
      BY <2>12, <2>13, <2>14, <2>15, <2>16, <2>17 DEF CentreInv
  <1>3. QED
    BY <1>1, <1>2 DEF Centre!Raise, Centre!centreVars

LEMMA CentreAges == ASSUME CentreInv, Centre!Tick PROVE CentreInv'
  <1> USE WidestIsWide
  <1> DEFINE old(n) == IF n < Centre!Widest THEN n + 1 ELSE Centre!Widest
  <1>1. /\ DOMAIN seen' = DOMAIN seen /\ \A e \in DOMAIN seen : seen'[e] = old(seen[e])
        /\ \A k \in Centre!Kinds : source'[k] = old(source[k])
        /\ \A e \in Centre!Events : since'[e] = old(since[e])
        /\ repeated' = repeated
    BY DEF Centre!Tick, Centre!Older
  <1>2. /\ source' = [k \in Centre!Kinds |-> old(source[k])]
        /\ since' = [e \in Centre!Events |-> old(since[e])]
    BY DEF Centre!Tick, Centre!Older
  <1>3. /\ source' \in [Centre!Kinds -> 0..Centre!Widest]
        /\ since' \in [Centre!Events -> 0..Centre!Widest]
    BY <1>2 DEF CentreInv
  <1>4. \A e \in DOMAIN seen : e \in Centre!Events /\ e[1] \in Centre!Kinds
    BY DEF CentreInv, Centre!Events
  <1>5. \A e \in DOMAIN seen : seen[e] \in 0..Centre!Widest
    BY <1>4 DEF CentreInv
  <1>6. \A e \in DOMAIN seen : since'[e] = seen'[e] /\ source'[e[1]] <= seen'[e]
    <2> SUFFICES ASSUME NEW e \in DOMAIN seen
                 PROVE  since'[e] = seen'[e] /\ source'[e[1]] <= seen'[e]
      OBVIOUS
    <2>1. since[e] = seen[e] /\ source[e[1]] <= seen[e] /\ source[e[1]] \in Nat /\ seen[e] \in Nat
      BY <1>4, <1>5 DEF CentreInv
    <2>2. seen'[e] = old(seen[e]) /\ source'[e[1]] = old(source[e[1]]) /\ since'[e] = old(since[e])
      BY <1>1, <1>4
    <2>3. QED
      BY <2>1, <2>2
  <1>7. \A e \in Centre!Events \ DOMAIN seen : since'[e] >= Around[e[1]]
    <2> SUFFICES ASSUME NEW e \in Centre!Events \ DOMAIN seen PROVE since'[e] >= Around[e[1]]
      OBVIOUS
    <2>1. since[e] >= Around[e[1]] /\ since[e] \in 0..Centre!Widest /\ e[1] \in Centre!Kinds
      BY DEF CentreInv, Centre!Events
    <2>2. Around[e[1]] \in Nat /\ since'[e] = old(since[e]) /\ Around[e[1]] <= Centre!Widest
      BY <1>1, <2>1, CentreConstants
    <2>3. QED
      BY <2>1, <2>2
  <1>8. \A e, f \in DOMAIN seen :
          e # f /\ e[1] = f[1] /\ seen'[e] <= seen'[f] /\ seen'[f] < Centre!Widest =>
              seen'[e] + Cooldown[e[1]] <= seen'[f]
    <2> SUFFICES ASSUME NEW e \in DOMAIN seen, NEW f \in DOMAIN seen, e # f, e[1] = f[1],
                        seen'[e] <= seen'[f], seen'[f] < Centre!Widest
                 PROVE  seen'[e] + Cooldown[e[1]] <= seen'[f]
      OBVIOUS
    <2>1. /\ seen'[e] = old(seen[e]) /\ seen'[f] = old(seen[f])
          /\ seen[e] \in 0..Centre!Widest /\ seen[f] \in 0..Centre!Widest
      BY <1>1, <1>5
    <2>2. seen[f] < Centre!Widest /\ seen[e] < Centre!Widest /\ seen[e] <= seen[f]
      BY <2>1
    <2>3. seen[e] + Cooldown[e[1]] <= seen[f] /\ Cooldown[e[1]] \in Nat
      BY <1>4, <2>2, CentreConstants DEF CentreInv
    <2>4. QED
      BY <2>1, <2>2, <2>3
  <1>9. QED
    BY <1>1, <1>3, <1>6, <1>7, <1>8 DEF CentreInv

LEMMA CentreStep == CentreInv /\ Centre!NotifyNext => CentreInv'
  <1> SUFFICES ASSUME CentreInv, Centre!NotifyNext PROVE CentreInv'
    OBVIOUS
  <1>1. ASSUME NEW k \in Centre!Kinds, NEW from \in SUBSET Sources, Centre!PollBans(k, from)
        PROVE  CentreInv'
    <2>1. from \ announced[k] \in SUBSET Sources /\ Centre!Raise(k, from \ announced[k])
      BY <1>1 DEF Centre!PollBans
    <2>2. QED
      BY <2>1, RaiseKeeps
  <1>2. CASE Centre!PollFails \/ Centre!Send \/ Centre!Flip
    BY <1>2 DEF Centre!PollFails, Centre!Send, Centre!Flip, Centre!centreVars, CentreInv
  <1>3. CASE Centre!RestartCentre
    <2>1. DOMAIN seen' = {} /\ IsFiniteSet({})
      BY <1>3, FS_EmptySet DEF Centre!RestartCentre
    <2>2. \A e \in Centre!Events : e[1] \in Centre!Kinds
      BY DEF Centre!Events
    <2>3. QED
      BY <1>3, <2>1, <2>2, WidestIsWide DEF Centre!RestartCentre, CentreInv
  <1>4. QED
    BY <1>1, <1>2, <1>3, CentreAges DEF Centre!NotifyNext

-----------------------------------------------------------------------------
(* The composition: the part a behaviour is about moves, the others rest.  *)

MemoryInv == OwnerInv /\ EngineInv /\ CountsInv /\ PicksInv /\ BudgetInv /\ CentreInv

LEMMA PartsRest ==
    /\ OwnerInv /\ UNCHANGED claimVars => OwnerInv'
    /\ EngineInv /\ UNCHANGED turnVars => EngineInv'
    /\ CountsInv /\ UNCHANGED bytesVars => CountsInv'
    /\ PicksInv /\ UNCHANGED inlineVars => PicksInv'
    /\ BudgetInv /\ UNCHANGED limiterVars => BudgetInv'
    /\ CentreInv /\ UNCHANGED centreVars => CentreInv'
  <1>1. OwnerInv /\ UNCHANGED claimVars => OwnerInv'
    BY DEF OwnerInv, AccessTypeOK, claimVars
  <1>2. EngineInv /\ UNCHANGED turnVars => EngineInv'
    BY DEF EngineInv, CallsInv, ScriptInv, PanelInv, EngineShape, AnswersInv, TableInv, OwnerLinkInv,
           Kept, TrueLink, Rekeyed, Adding, Removing, turnVars
  <1>3. CountsInv /\ UNCHANGED bytesVars => CountsInv'
    BY DEF CountsInv, PeersInv, TrueList, TrueHistory, TrueCount, bytesVars
  <1>4. PicksInv /\ UNCHANGED inlineVars => PicksInv'
    BY DEF PicksInv, TokensInv, TalliesInv, Known, Answered, inlineVars
  <1>5. BudgetInv /\ UNCHANGED limiterVars => BudgetInv'
    BY DEF BudgetInv, LimiterTypeOK, limiterVars
  <1>6. CentreInv /\ UNCHANGED centreVars => CentreInv'
    BY DEF CentreInv, centreVars
  <1>7. QED
    BY <1>1, <1>2, <1>3, <1>4, <1>5, <1>6

LEMMA MemoryBegins == Init => MemoryInv
  <1> SUFFICES ASSUME Init PROVE MemoryInv
    OBVIOUS
  <1>1. OwnerInv
    BY MemoryConstants
    DEF Init, AccessInit, Absent, OwnerInv, AccessTypeOK, AccessConstants,
        Broken
  <1>2. EngineInv
    <2>1. /\ Turn!TurnInit /\ \A c \in Turn!Callers : call[c] = Turn!NoCall
          /\ call \in [Turn!Callers -> CallRec] /\ "input" \in Turn!Callers
          /\ "route" \in Turn!Callers /\ "orphan" \in Turn!Callers
      BY NoCallIsCall DEF Init, Turn!TurnInit, Turn!Callers
    <2>2. ~Turn!NoCall.old /\ Turn!NoCall.at = "none"
      BY DEF Turn!NoCall
    <2>3. CallsInv /\ ScriptInv
      BY <2>1, <2>2 DEF CallsInv, ScriptInv, Turn!TurnInit
    <2>4. EngineShape
      BY <2>1 DEF Turn!TurnInit, EngineShape, Turn!Gone
    <2>5. AnswersInv
      BY <2>1, <2>2 DEF AnswersInv
    <2>6. TableInv /\ OwnerLinkInv
      BY <2>1 DEF Turn!TurnInit, TableInv, OwnerLinkInv, Turn!NoLinks, Turn!Gone, Turn!Holders
    <2>7. QED
      BY <2>1, <2>3, <2>4, <2>5, <2>6, NoCallIsCall DEF EngineInv, PanelInv, Turn!TurnInit
  <1>3. CountsInv
    <2>1. MaxPeers \in Nat
      BY MemoryConstants DEF Turn!TrafficConstants
    <2>2. DOMAIN listed = {} /\ DOMAIN history = {}
      BY DEF Init, Turn!TrafficInit
    <2>3. PeersInv
      BY <2>1 DEF Init, Turn!TrafficInit, PeersInv, Turn!PeerKeys
    <2>4. QED
      BY <2>2, <2>3 DEF CountsInv, TrueList, TrueHistory
  <1>4. PicksInv
    <2>1. secret \in 0..MaxBoots /\ registry = << >> /\ tally = << >> /\ age = << >>
      BY InlineNumbers DEF Init, Inline!InlineInit
    <2>2. buttons = {} /\ articles = {} /\ sent = {} /\ recent = {}
      BY DEF Init, Inline!InlineInit
    <2>3. TokensInv
      BY <2>1, <2>2, EmptySeq DEF TokensInv
    <2>4. TalliesInv
      BY <2>1, <2>2, EmptySeq DEF TalliesInv
    <2>5. QED
      BY <2>3, <2>4 DEF PicksInv
  <1>5. QED
    BY <1>1, <1>2, <1>3, <1>4, BudgetBegins, CentreBegins DEF Init, MemoryInv

LEMMA MemoryStep == MemoryInv /\ [Next]_memoryVars => MemoryInv'
  <1> SUFFICES ASSUME MemoryInv, [Next]_memoryVars PROVE MemoryInv'
    OBVIOUS
  <1>1. AccessNext \/ UNCHANGED claimVars => OwnerInv'
    BY OwnerStep, PartsRest DEF MemoryInv
  <1>2. EngineNext \/ UNCHANGED turnVars => EngineInv'
    BY ScriptStep, PanelStep, PartsRest DEF MemoryInv, EngineInv
  <1>3. Turn!TrafficNext \/ UNCHANGED bytesVars => CountsInv'
    BY CountsStep, PartsRest DEF MemoryInv
  <1>4. Inline!InlineNext \/ UNCHANGED inlineVars => PicksInv'
    BY TokensStep, TalliesStep, PartsRest DEF MemoryInv, PicksInv
  <1>5. LimiterNext \/ UNCHANGED limiterVars => BudgetInv'
    BY BudgetStep, PartsRest DEF MemoryInv
  <1>6. Centre!NotifyNext \/ UNCHANGED centreVars => CentreInv'
    BY CentreStep, PartsRest DEF MemoryInv
  <1>7. /\ LimiterNext \/ UNCHANGED limiterVars
        /\ Centre!NotifyNext \/ UNCHANGED centreVars
    BY DEF Next, memoryVars
  <1>8. /\ AccessNext \/ UNCHANGED claimVars
        /\ EngineNext \/ UNCHANGED turnVars
        /\ Turn!TrafficNext \/ UNCHANGED bytesVars
        /\ Inline!InlineNext \/ UNCHANGED inlineVars
    BY DEF Next, memoryVars, EngineNext
  <1>9. QED
    BY <1>1, <1>2, <1>3, <1>4, <1>5, <1>6, <1>7, <1>8 DEF MemoryInv

LEMMA MemoryAlways == Spec => []MemoryInv
  BY MemoryBegins, MemoryStep, PTL DEF Spec

\* A pick that was applied is not applied again within its window.
LEMMA PickIsOnce ==
  ASSUME PicksInv, Inline!InlineNext,
         NEW i \in DOMAIN tally, tally[i] > 0, age[i] < Twice
  PROVE  tally'[i] = tally[i]
  <1>1. DOMAIN tally = 1..Len(tally) /\ Len(tally) \in Nat /\ tally \in Seq(Nat)
    BY LenProperties DEF PicksInv, TalliesInv
  <1>2. CASE UNCHANGED tally
    BY <1>2
  <1>3. ASSUME NEW a \in articles, Inline!Pick(a) PROVE tally'[i] = tally[i]
    <2>1. tally' = Append(tally, 0)
      BY <1>3 DEF Inline!Pick
    <2>2. QED
      BY <1>1, <2>1, AppendProperties
  <1>4. ASSUME NEW d \in sent, Inline!Take(d) PROVE tally'[i] = tally[i]
    <2>1. CASE UNCHANGED tally
      BY <2>1
    <2>2. CASE Inline!Acceptable(d) /\ ~Inline!Recent(d)
               /\ tally' = [tally EXCEPT ![d.pick] = @ + 1]
      <3>1. d.pick # i
        BY <2>2, AnsweredIsRefused
      <3>2. QED
        BY <2>2, <3>1
    <2>3. QED
      BY <1>4, <2>1, <2>2 DEF Inline!Take, Inline!ApplyInline
  <1>5. QED
    BY <1>2, <1>3, <1>4
    DEF Inline!InlineNext, Inline!TakeChosen, Inline!TakeMarker, Inline!Show, Inline!Query,
        Inline!InlineTick, Inline!Reboot

\* The bot obeys one person: the claim in memory, the one a save carries and the
\* one of the state file are of the same person whenever somebody was obeyed
\* (store.py:99, app.py:525).
THEOREM OneOwnerAlways == Spec => []OneOwner
  <1>1. MemoryInv => OneOwner
    BY OwnerIsOne DEF MemoryInv
  <1>2. QED
    BY <1>1, MemoryAlways, PTL

\* bash is given only scripts whose digest was checked, and a link that is
\* served opens the engine (freeturn_agent.py:353, ftpanel.py:383).
THEOREM EngineAlwaysTrue == Spec => []EngineIsTrue
  <1>1. MemoryInv => EngineIsTrue
    BY EngineIsSo DEF MemoryInv, EngineIsTrue
  <1>2. QED
    BY <1>1, MemoryAlways, PTL

\* The bytes on a screen have passed, in all and on this day (traffic.py:237).
THEOREM CountsAlwaysReal == Spec => []CountsAreReal
  <1>1. MemoryInv => CountsAreReal
    BY CountsAreTrue DEF MemoryInv
  <1>2. QED
    BY <1>1, MemoryAlways, PTL

\* In a span as long as its window a key is let in at most twice its limit less one,
\* unless the table overflowed (ratelimit.py:32 Limiter.allow).
THEOREM TwoWindowsAtMostAlways == Spec => []TwoWindowsAtMost
  <1>1. MemoryInv => TwoWindowsAtMost
    BY BudgetBounds DEF MemoryInv
  <1>2. QED
    BY <1>1, MemoryAlways, PTL

\* An address is not reported twice for the same thing within the quiet time of the
\* kind, however often the table of events is cut (notify.py:227 Centre.deliver).
THEOREM NeverRepeats == Spec => []NoRepeat
  <1>1. MemoryInv => NoRepeat
    BY DEF MemoryInv, CentreInv, NoRepeat, Centre!NoRepeat
  <1>2. QED
    BY <1>1, MemoryAlways, PTL

\* One pick of an inline value takes effect once (app.py:624).
THEOREM PicksApplyOnce == Spec => AppliedOnce
  <1>1. MemoryInv /\ [Next]_memoryVars
          => [\A i \in DOMAIN tally :
                tally[i] > 0 /\ age[i] < Twice => tally'[i] = tally[i]]_memoryVars
    <2> SUFFICES ASSUME MemoryInv, Next, NEW i \in DOMAIN tally, tally[i] > 0, age[i] < Twice
                 PROVE  tally'[i] = tally[i]
      OBVIOUS
    <2>1. CASE Inline!InlineNext
      BY <2>1, PickIsOnce DEF MemoryInv
    <2>2. CASE UNCHANGED inlineVars
      BY <2>2 DEF inlineVars
    <2>3. QED
      BY <2>1, <2>2 DEF Next
  <1>2. QED
    BY <1>1, MemoryAlways, PTL DEF Spec, AppliedOnce
==============================================================================
