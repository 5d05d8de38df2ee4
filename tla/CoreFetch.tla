------------------------------- MODULE CoreFetch ------------------------------
(***************************************************************************)
(* The button that installs the proxy core: XrayPanel.install_core         *)
(* (BOT/panel.py), and install-core of Storage/remote/xray_agent.py, which *)
(* asks for the latest release, downloads it with its digest and falls     *)
(* back to the pinned one, or from that to the live one.  The network is   *)
(* external.  One install at a time (ActionGate); the files, the service   *)
(* and what may break off are XrayAgent.                                   *)
(***************************************************************************)
EXTENDS Integers, FiniteSets

CONSTANTS
  Releases,   \* well formed tags that are not below MIN_CORE
  Pinned,     \* PINNED, the release whose digest the agent carries
  Below,      \* a well formed tag below MIN_CORE
  Odd,        \* a tag that is not a version
  MaxInstalls \* bound of the model

NoTag == ""
Tags == Releases \cup {Below, Odd}

FetchConstants ==
  /\ IsFiniteSet(Releases) /\ Pinned \in Releases
  /\ NoTag \notin Tags /\ Below \notin Releases /\ Odd \notin Releases
  /\ MaxInstalls \in Nat

VARIABLES
  version,   \* state.version: "pin" or "latest"
  core,      \* the binary: release and whether its archive had the digest; NoCore
  panelSays, \* XrayPanel.core: the version of the last report
  notice,    \* the screen of the last install
  job,      \* the agent at work
  installs

fetchVars == <<version, core, panelSays, notice, job, installs>>

NoCore == [tag |-> NoTag, sealed |-> FALSE]
\* Opened for writing and not filled: it answers no version.
Torn == [tag |-> "torn", sealed |-> FALSE]
Cores == [tag : Releases, sealed : BOOLEAN] \cup {NoCore, Torn}

\* latest: the version asked for is no tag; want: the release being installed;
\* try: the first one, the pinned one after it or the live one after that; met:
\* the releases whose archive or digest could not be fetched.
Idle == [at |-> "idle"]
NoNotice == [is |-> "none"]

Version(c) == IF c \in {NoCore, Torn} THEN NoTag ELSE c.tag

FetchInit ==
  /\ version \in {"pin", "latest"}
  /\ core = NoCore /\ panelSays = NoTag /\ notice = NoNotice
  /\ job = Idle /\ installs = 0

-----------------------------------------------------------------------------
(* The panel.                                                               *)

SetVersion(v) ==
  /\ job = Idle
  /\ version' = v
  /\ UNCHANGED <<core, panelSays, notice, job, installs>>

Press ==
  /\ job = Idle /\ installs < MaxInstalls
  /\ installs' = installs + 1
  /\ job' = [at |-> IF version = "latest" THEN "ask" ELSE "take",
              latest |-> version = "latest", want |-> Pinned, try |-> "first", met |-> {},
              digest |-> "none"]
  /\ notice' = NoNotice
  /\ UNCHANGED <<version, core, panelSays>>

\* The screens of the core ask the agent what there is.
Refresh ==
  /\ job = Idle
  /\ panelSays' = Version(core)
  /\ UNCHANGED <<version, core, notice, job, installs>>

\* The command ends in an error, which the screen shows.
Ends(code) ==
  /\ notice' = [is |-> "err", code |-> code, met |-> job.met, latest |-> job.latest]
  /\ job' = Idle
  /\ UNCHANGED <<version, panelSays, installs>>

\* data of pinned_with_fallback, with the report made after the install.
Named == [is |-> "ok", fallback |-> job.try # "first", named |-> job.want,
          version |-> Version(core')]

Succeeds ==
  /\ notice' = Named
  /\ panelSays' = Version(core')
  /\ job' = Idle
  /\ UNCHANGED <<version, installs>>

-----------------------------------------------------------------------------
(* pinned_with_fallback.                                                    *)

\* A redirect to a host that is not allowed, of the API or of a download, ends
\* the command; nothing is tried instead.
Astray ==
  /\ job.at \in {"ask", "spare", "digest", "archive"}
  /\ Ends("bad_arg") /\ UNCHANGED core

\* latest_tag before the first try: what the API names, or the pinned release
\* when it says nothing.
Resolve(tag) ==
  /\ job.at = "ask"
  /\ job' = [job EXCEPT !.at = "take", !.want = IF tag = NoTag THEN Pinned ELSE tag]
  /\ UNCHANGED <<version, core, panelSays, notice, installs>>

\* latest_tag again, without its cache, after the pinned release failed.
ResolveSpare(tag) ==
  /\ job.at = "spare"
  /\ IF tag \in {NoTag, Pinned} THEN Ends("download_failed") /\ UNCHANGED core
     ELSE /\ job' = [job EXCEPT !.at = "take", !.want = tag, !.try = "live", !.digest = "none"]
          /\ UNCHANGED <<version, core, panelSays, notice, installs>>

\* A variation: the pinned release is tried only when the API was silent.
GivesUp ==
  LET tried == job.met \cup {job.want} IN
  /\ notice' = [is |-> "err", code |-> "download_failed", met |-> tried, latest |-> job.latest]
  /\ job' = Idle
  /\ UNCHANGED <<version, panelSays, installs, core>>

\* download_failed: only a request for the latest release goes on, to the pinned
\* one and from there to the live one.
DownloadFails ==
  LET tried == [job EXCEPT !.met = @ \cup {job.want}] IN
  IF job.latest /\ job.try = "first" THEN
    /\ job' = [tried EXCEPT !.at = "take", !.want = Pinned, !.try = "pinned", !.digest = "none"]
    /\ UNCHANGED <<version, core, panelSays, notice, installs>>
  ELSE IF job.try = "pinned" THEN
    /\ job' = [tried EXCEPT !.at = "spare"]
    /\ UNCHANGED <<version, core, panelSays, notice, installs>>
  ELSE
    /\ notice' = [is |-> "err", code |-> "download_failed", met |-> tried.met, latest |-> job.latest]
    /\ job' = Idle
    /\ UNCHANGED <<version, core, panelSays, installs>>

-----------------------------------------------------------------------------
(* install_core, which the button always forces.                            *)

Take ==
  /\ job.at = "take"
  /\ IF job.want = Odd THEN Ends("bad_arg") /\ UNCHANGED core
     ELSE IF job.want = Below THEN Ends("core_too_old") /\ UNCHANGED core
     ELSE /\ job' = [job EXCEPT !.at = "digest"]
          /\ UNCHANGED <<version, core, panelSays, notice, installs>>

\* fetch_digest: the file with the digest cannot be fetched, which ends like a
\* failed download, or it has no digest in it, when the agent's own serves for
\* the pinned release.
Digest(outcome) ==
  /\ job.at = "digest"
  /\ IF outcome = "failed" THEN DownloadFails
     ELSE /\ job' = [job EXCEPT !.at = "archive",
                        !.digest = IF outcome = "there" \/ job.want = Pinned THEN "known"
                                   ELSE "none"]
          /\ UNCHANGED <<version, core, panelSays, notice, installs>>

\* The archive is fetched, and only then is a missing digest refused.
Archive(outcome) ==
  /\ job.at = "archive"
  /\ IF outcome = "failed" THEN DownloadFails
     ELSE IF job.digest = "none" THEN Ends("digest_missing") /\ UNCHANGED core
     ELSE IF outcome = "other" THEN Ends("digest_mismatch") /\ UNCHANGED core
     ELSE /\ job' = [job EXCEPT !.at = "unpack"]
          /\ UNCHANGED <<version, core, panelSays, notice, installs>>

\* The archive has no core in it, the old binary cannot be opened, the write of
\* the new one or of the data files after it breaks off; a binary that answers no
\* version is refused at the end.
Unpack ==
  LET new == [tag |-> job.want, sealed |-> job.digest = "known"] IN
  /\ job.at = "unpack"
  /\ \/ core' = new /\ Succeeds
     \/ core' \in {core, Torn, new} /\ Ends("unpack_failed")
     \/ core' = Torn /\ Ends("start_failed")

FetchNext ==
  \/ \E v \in {"pin", "latest"} : SetVersion(v)
  \/ Press \/ Refresh \/ Astray
  \/ \E tag \in Tags \cup {NoTag} : Resolve(tag) \/ ResolveSpare(tag)
  \/ Take
  \/ \E outcome \in {"there", "missing", "failed"} : Digest(outcome)
  \/ \E outcome \in {"right", "other", "failed"} : Archive(outcome)
  \/ Unpack

FetchTypeOK ==
  /\ version \in {"pin", "latest"}
  /\ core \in Cores
  /\ panelSays \in Releases \cup {NoTag}
  /\ installs \in 0..MaxInstalls
  /\ job # Idle => job.want \in Tags /\ job.met \subseteq Releases

-----------------------------------------------------------------------------
(* Properties.                                                              *)

\* What the screen says after an install is the binary in place, and a fallback
\* is announced with the release that was taken (panel.py:780-788,
\* xray_agent.py:762-771).
NoticeIsTrue ==
  notice.is = "ok" =>
    /\ notice.version = Version(core) /\ panelSays = Version(core)
    /\ notice.fallback => notice.named = Version(core)

\* A request for the latest release fails for want of a download only when the
\* pinned one could not be downloaded either (xray_agent.py:750-758).
PinnedWasTried ==
  notice.is = "err" =>
    (notice.code = "download_failed" => Pinned \in notice.met)

\* Whatever way a binary came, by the release asked for, the pinned one or the
\* live one after it, it is not below the floor and its archive had the digest
\* of its own release (xray_agent.py:486-525, 744-771).
SealedOrNone == core \in {NoCore, Torn} \/ (core.sealed /\ core.tag \in Releases)

\* The core in place is one that was checked, the screen names it, and an install
\* gives up on the latest release only after the pinned one.
InstallIsTrue == SealedOrNone /\ NoticeIsTrue /\ PinnedWasTried

-----------------------------------------------------------------------------
(* The public name of the subscriptions: what the owner types, what the     *)
(* panel asks the agent for, and what the agent does to the packages and    *)
(* the funnel of the server.  A panel that gives up leaves its agent        *)
(* behind, so that two of them may be at work.  A name counts by its        *)
(* labels: obhod.tail1234.ts.net has four.                                  *)

CONSTANTS
    Agents,   \* runs of the agent that may be under way at a time
    NoAgent,
    MaxCalls  \* bound of the model: calls of the panel and words of the owner

TunnelConstants == IsFiniteSet(Agents) /\ NoAgent \notin Agents /\ MaxCalls \in Nat

NoName == 0
PanelNames == 3 .. 5   \* TUNNEL_HOST_RE of the panel
AgentNames == {1}      \* TUNNEL_HOST_RE of the agent

VARIABLES
    name,        \* labels of tunnel_host
    key, stored, \* an auth key is in memory, and in tunnel.key
    on,          \* tunnel_enabled
    sources,     \* of the server: which of the key and the list of packages is written
    binary,      \* tailscale is installed
    funnel,      \* the funnel publishes
    stage, sent,  \* where each run of the agent is, and the name it was given
    awaited,     \* the run the panel waits for
    shown,       \* the screen: nothing, an error, a name refused, a tunnel, a healthy one
    calls

tunnelVars == <<name, key, stored, on, sources, binary, funnel, stage, sent, awaited,
                shown, calls>>
serverVars == <<sources, binary, funnel>>
ownVars == <<name, key, stored>>

TunnelTypeOK ==
    /\ name \in {NoName} \cup PanelNames /\ key \in BOOLEAN /\ stored \in BOOLEAN
    /\ on \in BOOLEAN /\ sources \subseteq {"key", "list"}
    /\ binary \in BOOLEAN /\ funnel \in BOOLEAN /\ awaited \in Agents \cup {NoAgent}
    /\ stage \in [Agents -> {"idle", "status", "install", "list", "package", "up", "off"}]
    /\ sent \in [Agents -> {NoName} \cup PanelNames]
    /\ shown \in {"none", "error", "refused", "tunnel", "ready"} /\ calls \in Nat

\* The tunnel may have been brought up by hand, and the state file may say so.
TunnelInit ==
    /\ name \in {NoName, 4} /\ key = FALSE /\ stored = FALSE /\ on \in {FALSE, name # NoName}
    /\ sources = {} /\ binary \in BOOLEAN /\ funnel \in {FALSE, binary}
    /\ stage = [a \in Agents |-> "idle"] /\ sent = [a \in Agents |-> NoName]
    /\ awaited = NoAgent /\ shown = "none" /\ calls = 0

Count == calls < MaxCalls /\ calls' = calls + 1

TypeName(n) ==
    /\ Count /\ n \in {NoName} \cup PanelNames /\ name' = n /\ on' = (on /\ n # NoName)
    /\ UNCHANGED <<key, stored, serverVars, stage, sent, awaited, shown>>

\* store_tunnel_key: memory first; a file that cannot be written or removed stays.
TypeKey(set) ==
    /\ Count /\ key' = set /\ stored' \in {set, stored}
    /\ UNCHANGED <<name, on, serverVars, stage, sent, awaited, shown>>

\* The bot starts anew: the key is read from its file, the state from its own.
RestartBot ==
    /\ Count /\ key' = stored /\ awaited' = NoAgent /\ shown' = "none"
    /\ UNCHANGED <<name, stored, on, serverVars, stage, sent>>

Admin == Count /\ binary /\ funnel' = ~funnel
         /\ UNCHANGED <<ownVars, on, sources, binary, stage, sent, awaited, shown>>

Ask(a, verb) ==
    /\ Count /\ awaited = NoAgent /\ stage[a] = "idle"
    /\ verb = "up" => name \in PanelNames /\ key
    /\ stage' = [stage EXCEPT ![a] = verb] /\ sent' = [sent EXCEPT ![a] = name]
    /\ awaited' = a /\ shown' = "none"
    /\ UNCHANGED <<ownVars, on, serverVars>>

\* "up" with a name or a key missing answers at once.
Deny ==
    /\ Count /\ awaited = NoAgent /\ ~(name \in PanelNames /\ key) /\ shown' = "error"
    /\ UNCHANGED <<ownVars, on, serverVars, stage, sent, awaited>>

\* The time limit of the call or of the action: the agent is not stopped.
GiveUp ==
    /\ awaited # NoAgent /\ awaited' = NoAgent /\ shown' = "error"
    /\ UNCHANGED <<ownVars, on, serverVars, stage, sent, calls>>

Heard(a, word) ==
    /\ stage' = [stage EXCEPT ![a] = "idle"] /\ UNCHANGED <<sent, calls>>
    /\ IF awaited = a THEN awaited' = NoAgent /\ shown' = word ELSE UNCHANGED <<awaited, shown>>
Fails(a) == Heard(a, "error") /\ UNCHANGED <<ownVars, on, serverVars>>
Goes(a, to) ==
    /\ stage' = [stage EXCEPT ![a] = to]
    /\ UNCHANGED <<ownVars, on, sent, awaited, shown, calls>>

\* tunnel_state: a look that fails leaves its part out; healthy() asks for the funnel.
Seen == {"tunnel"} \cup (IF binary' /\ funnel' THEN {"ready"} ELSE {})

Status(a) ==
    /\ stage[a] = "status" /\ UNCHANGED serverVars /\ \E word \in Seen : Heard(a, word)
    /\ UNCHANGED <<ownVars, on>>

InstallKnown(a) ==
    /\ stage[a] = "install" /\ binary /\ UNCHANGED serverVars /\ \E word \in Seen : Heard(a, word)
    /\ UNCHANGED <<ownVars, on>>

FetchKey(a) ==
    /\ stage[a] = "install" /\ ~binary
    /\ \/ Fails(a)
       \/ Goes(a, "list") /\ sources' = sources \cup {"key"} /\ UNCHANGED <<binary, funnel>>

WriteList(a) ==
    /\ stage[a] = "list"
    /\ Goes(a, "package") /\ sources' = {"key", "list"} /\ UNCHANGED <<binary, funnel>>

\* apt-get update and install; a package may be unpacked when the step fails.
Package(a) ==
    /\ stage[a] = "package" /\ UNCHANGED <<ownVars, on, sources, funnel>>
    /\ \/ binary' = TRUE /\ \E word \in Seen : Heard(a, word)
       \/ binary' \in {TRUE, binary} /\ Heard(a, "error")

\* cmd_tunnel_up looks at the name first; what follows for a name it takes, which
\* no name of the panel is, is left at its answer.
Up(a) ==
    /\ stage[a] = "up" /\ UNCHANGED <<ownVars, serverVars>>
    /\ IF sent[a] \in AgentNames /\ binary
       THEN Heard(a, "tunnel") /\ on' = (on \/ awaited = a)
       ELSE /\ Heard(a, IF sent[a] \in AgentNames THEN "error" ELSE "refused")
            /\ UNCHANGED on

\* cmd_tunnel_down passes over a reset that fails; the panel takes it for off.
Off(a) ==
    /\ stage[a] = "off" /\ funnel' \in {funnel, FALSE} /\ UNCHANGED <<ownVars, sources, binary>>
    /\ Heard(a, "tunnel") /\ on' = IF awaited = a THEN FALSE ELSE on

\* A reboot of the server ends the agents where they are.
Reboot ==
    /\ \E a \in Agents : stage[a] # "idle"
    /\ stage' = [a \in Agents |-> "idle"] /\ UNCHANGED <<ownVars, on, serverVars, sent, calls>>
    /\ awaited' = NoAgent /\ shown' = IF awaited = NoAgent THEN shown ELSE "error"

TunnelNext ==
    \/ \E n \in {NoName} \cup PanelNames : TypeName(n)
    \/ \E set \in BOOLEAN : TypeKey(set)
    \/ RestartBot \/ Admin \/ Deny \/ GiveUp \/ Reboot
    \/ \E a \in Agents :
          \/ \E verb \in {"status", "install", "up", "off"} : Ask(a, verb)
          \/ Status(a) \/ InstallKnown(a) \/ FetchKey(a) \/ WriteList(a) \/ Package(a)
          \/ Up(a) \/ Off(a)

\* An install that is cut short or fails at any step, or that runs beside one
\* the panel gave up on, leaves no list of packages without its key, which would
\* stop every later apt-get update (xray_agent.py:1370 cmd_tunnel_install).
SourceHasItsKey == "list" \in sources => "key" \in sources

\* A name the panel takes is one the agent takes (strings.py:1344 DOM_HOST_BAD
\* "the hostname must look like obhod.tail1234.ts.net").
AcceptedNameIsTaken == shown # "refused"
===============================================================================
