------------------------------- MODULE SubServe -------------------------------
(***************************************************************************)
(* What the subscription server answers (Handler, read_registry and        *)
(* payload_of of Storage/remote/sub_server.py) while its registry is put   *)
(* in place, replaced, damaged or removed.  One thread per request; the    *)
(* registry is read under LOCK and kept in CACHE under its stamp, which no *)
(* two files share.  All requests name one client; whether a request is    *)
(* throttled, and what its misses cost, is SubThrottle.                    *)
(***************************************************************************)
EXTENDS Naturals, Sequences, FiniteSets

CONSTANTS
  Entries,    \* what a registry may hold for the client
  Readers,    \* threads that serve at the same time
  MaxBody,    \* MAX_BODY, in sizes of lines
  MaxFiles,   \* bound of the model: states of the path
  People,     \* addresses clients have
  Proxies     \* addresses is_proxy_peer knows

\* An entry: may it be used, is the key of the request its key, the sizes of
\* its links (0 is a blank one).
Entry == [enabled : BOOLEAN, same : BOOLEAN, links : Seq(Nat)]

ServeConstants ==
  /\ Entries \subseteq Entry
  /\ MaxBody \in Nat \ {0} /\ MaxFiles \in Nat \ {0}
  /\ People \cap Proxies = {}

VARIABLES
  files,  \* the states of the path since the start; the last is the present one
  cache,  \* CACHE: the state of the path it was made of, 0 for none, and what it holds
  asks    \* the request of each thread

serveVars == <<files, cache, asks>>

\* The registry is absent, unreadable (a link, no JSON, no object), silent
\* about the client, or it holds an entry.
Absent == [is |-> "absent"]
Broken == [is |-> "broken"]
Silent == [is |-> "silent"]
With(e) == [is |-> "entry", entry |-> e]
PathStates == {Absent, Broken, Silent} \cup {With(e) : e \in Entries}

Now == Len(files)

NoAsk == [at |-> "free"]
Places == {"free", "stat", "open", "load", "answer", "done"}

ServeInit ==
  /\ files = <<Absent>>
  /\ cache = [key |-> 0, body |-> Silent]
  /\ asks = [r \in Readers |-> NoAsk]

-----------------------------------------------------------------------------
(* Which links of an entry are sent.                                        *)

Budget == (MaxBody \div 4) * 3
\* base64
Encoded(n) == 4 * ((n + 2) \div 3)

Lines(e) == SelectSeq(e.links, LAMBDA size : size > 0)
Sizes(lines) ==
  LET sum[k \in 0..Len(lines)] == IF k = 0 THEN 0 ELSE sum[k - 1] + lines[k] IN sum

\* payload_of: the first line and those after it up to the first that does not
\* fit; nothing when what is kept is still too long, encoded.
Payload(e) ==
  LET lines == Lines(e)
      sum == Sizes(lines)
      fits(k) == \A j \in 2..k : sum[j] <= Budget
      kept == CHOOSE k \in 0..Len(lines) :
                 /\ fits(k)
                 /\ \A j \in 0..Len(lines) : fits(j) => j <= k IN
  IF Encoded(sum[kept]) <= MaxBody THEN SubSeq(lines, 1, kept) ELSE <<>>

\* A variation: an entry that was switched off is served.
VerdictOf(body) ==
  IF body.is # "entry" \/ ~body.entry.same \/ Payload(body.entry) = <<>> THEN 404
  ELSE 200

\* do_GET below read_registry: the status for what a registry says.
Verdict(body) ==
  IF body.is # "entry" THEN 404
  ELSE IF ~body.entry.same THEN 404
  ELSE IF ~body.entry.enabled THEN 403
  ELSE IF Payload(body.entry) = <<>> THEN 404
  ELSE 200

-----------------------------------------------------------------------------
(* Whose request it is.                                                     *)

\* proxy_client_ip; anything that is no address is skipped.
ClientIp(peer, forward, direct) ==
  IF peer \notin Proxies THEN peer
  ELSE IF forward # <<>> /\ forward[Len(forward)] \in People THEN forward[Len(forward)]
  ELSE IF direct \in People THEN direct
  ELSE peer

-----------------------------------------------------------------------------
(* A request.                                                               *)

At(r, place) == asks[r].at = place
Goes(r, place) == asks' = [asks EXCEPT ![r].at = place]

Answers(r, code) == asks' = [asks EXCEPT ![r].at = "done", ![r].code = code]

\* A client asks for its subscription, itself or through the proxy, which adds
\* its address to what the client wrote.  Requests for anything else, and those
\* that are throttled, end without the registry.
Ask(r, who, wrote, direct) ==
  /\ At(r, "free")
  /\ \E peer \in Proxies \cup {who} :
       LET forward == IF peer = who THEN wrote ELSE Append(wrote, who) IN
       asks' = [asks EXCEPT ![r] =
         [at |-> "stat", from |-> Now, stamp |-> 0, body |-> Silent, code |-> 0,
          who |-> who, counted |-> ClientIp(peer, forward, direct)]]
  /\ UNCHANGED <<files, cache>>

\* LOCK: nobody is inside read_registry.
Unlocked == \A r \in Readers : asks[r].at \notin {"open", "load"}

\* read_registry takes the stamp first.
Stat(r) ==
  /\ At(r, "stat") /\ Unlocked
  /\ IF files[Now] = Absent THEN
       /\ cache' = [key |-> 0, body |-> Silent]
       /\ asks' = [asks EXCEPT ![r].at = "answer"]
     ELSE IF cache.key = Now THEN
       /\ asks' = [asks EXCEPT ![r].at = "answer", ![r].body = cache.body]
       /\ UNCHANGED cache
     ELSE
       /\ asks' = [asks EXCEPT ![r].at = "open", ![r].stamp = Now]
       /\ UNCHANGED cache
  /\ UNCHANGED files

\* What is open stays what it is, whatever the path becomes; what cannot be
\* read is an empty registry and does not touch the cache.
Open(r) ==
  /\ At(r, "open")
  /\ IF files[Now] \in {Absent, Broken} THEN asks' = [asks EXCEPT ![r].at = "answer"]
     ELSE asks' = [asks EXCEPT ![r].at = "load", ![r].body = files[Now]]
  /\ UNCHANGED <<files, cache>>

\* A variation: the stamp is taken when the file is kept.
LoadStampedLate(r) ==
  /\ At(r, "load")
  /\ cache' = [key |-> Now, body |-> asks[r].body]
  /\ Goes(r, "answer")
  /\ UNCHANGED files

Load(r) ==
  /\ At(r, "load")
  /\ cache' = [key |-> asks[r].stamp, body |-> asks[r].body]
  /\ Goes(r, "answer")
  /\ UNCHANGED files

Reply(r) ==
  /\ At(r, "answer")
  /\ Answers(r, Verdict(asks[r].body))
  /\ UNCHANGED <<files, cache>>

\* The connection ends.
Close(r) ==
  /\ At(r, "done")
  /\ asks' = [asks EXCEPT ![r] = NoAsk]
  /\ UNCHANGED <<files, cache>>

\* cmd_sub_sync renames a new file into place; cmd_uninstall, or anyone with
\* the rights, removes or damages it.
Becomes(f) ==
  /\ Now < MaxFiles
  /\ f # files[Now] \/ f.is = "entry"
  /\ files' = Append(files, f)
  /\ UNCHANGED <<cache, asks>>

Wrote == {<<>>} \cup {<<a>> : a \in People}

ServeNext ==
  \/ \E r \in Readers :
       \/ \E who \in People, wrote \in Wrote, direct \in People \cup {"none"} :
            Ask(r, who, wrote, direct)
       \/ Stat(r) \/ Open(r) \/ Load(r) \/ Reply(r) \/ Close(r)
  \/ \E f \in PathStates : Becomes(f)

ServeTypeOK ==
  /\ \A i \in 1..Now : files[i] \in PathStates
  /\ cache.key \in 0..Now /\ cache.body \in PathStates
  /\ \A r \in Readers : asks[r].at \in Places
  /\ Cardinality({r \in Readers : asks[r].at \in {"open", "load"}}) <= 1

-----------------------------------------------------------------------------
(* Properties.                                                              *)

\* The answer is right for the registry as it was at some moment of the request:
\* no request that begins after a client was switched off, removed or given
\* another key is served from the cache, and none of a good client is refused
\* unless the file was unreadable while it ran (sub_server.py:240-262, 471-488).
\* Right is: the links of an entry that may be used, has the key asked for and
\* has something to send.
Right(body) ==
  IF body.is = "entry" /\ body.entry.same /\ body.entry.enabled
     /\ Payload(body.entry) # <<>> THEN {200}
  ELSE {403, 404}

ServedIsCurrent ==
  \A r \in Readers :
    asks[r].at = "done" =>
      \E v \in asks[r].from..Now :
        /\ asks[r].code \in Right(files[v])
        /\ asks[r].code = 200 => asks[r].body = files[v]

\* The limits and the misses of a request are counted for the client that made
\* it, directly or through the proxy, whatever it wrote in its headers
\* (sub_server.py:205-221).
CountedAsItself ==
  \A r \in Readers : asks[r].at # "free" => asks[r].counted = asks[r].who

\* An answer is right for the registry of a moment of its request, and the
\* request is counted for the client that made it.
AnswersAreRight == ServedIsCurrent /\ CountedAsItself
===============================================================================
