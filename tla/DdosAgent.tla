------------------------------- MODULE DdosAgent -------------------------------
(***************************************************************************)
(* The anti flood agent (Storage/remote/ddos_agent.py), the bot's policy   *)
(* and status (BOT/antiddos.py) and the Debug screen that drives them      *)
(* (BOT/dbg.py, BOT/guard.py, BOT/xrayrpc.py).                             *)
(*                                                                         *)
(* The agent checks a ruleset, writes it, replaces the nftables table by   *)
(* it, and installs a unit that loads the file after a boot.  The ruleset  *)
(* lets the port of the FreeTurn engine through, which the agent reads     *)
(* when it writes the rules.  nft and systemd are external.  The answers   *)
(* of this agent are not in the dialect that the bot's client reads.       *)
(* After it, the scans of the same Debug screen.                           *)
(***************************************************************************)
EXTENDS Naturals, Sequences

CONSTANTS
    EnginePorts,    \* the ports the engine of FreeTurn may be moved to
    Sockets,        \* the listening sockets an open port check may meet
    Panels,         \* those that belong to a panel, the core api or a database
    Expected,       \* sockets on a port of the keep list
    None            \* no file, no table, nothing asked yet

SocketConstants == Panels \subseteq Sockets /\ Expected \subseteq Sockets

VARIABLES
    engine,     \* LISTEN_PORT of the engine
    listening,  \* the sockets that listen on the host
    policy,     \* ddos.json: "none", "on" or "off"
    rules,      \* ddos.nft, told apart by the engine port in it
    table,      \* the table inet obhod_ddos
    unit,       \* obhod-ddos.service is written and enabled
    stage,      \* the next step of the agent
    wish,       \* the command and the switch of the policy it was given
    prior,      \* the rules apply_rules() read before its write
    seen,       \* history: the rules as the call found them
    cut,        \* history: a call left rules it has not loaded
    exposed,    \* what the screen lists after an open port check, or None
    error,      \* the screen shows an error
    ended       \* history: how the last call ended

host == <<rules, table, unit, policy>>
screen == <<exposed, error>>
floodVars == <<engine, listening, host, stage, wish, prior, seen, cut, screen, ended>>

Commands == {"install", "remove", "probe", "status"}

FloodInit ==
    /\ engine \in EnginePorts
    /\ listening \in SUBSET Sockets
    /\ policy = "none" /\ rules = None /\ table = None /\ unit = FALSE
    /\ stage = "idle"
    /\ wish = [command |-> "status", on |-> TRUE]
    /\ prior = None /\ seen = None
    /\ cut = FALSE
    /\ exposed = None
    /\ error = FALSE
    /\ ended = "none"

-----------------------------------------------------------------------------
(* The dialect of the answers.                                             *)

\* parse_response: without the number of the protocol an answer is an error,
\* whatever it says.  This agent and the honeypot agent send {"ok", "data"}.
SpeaksProtocol == FALSE

Understood == SpeaksProtocol

\* exposure(): a panel, the core api or a database is named even on a port of
\* the keep list.
Exposure(found) == found \ (Expected \ Panels)

-----------------------------------------------------------------------------
(* The screen.                                                             *)

\* The policy of the bot is normalised and sent whole; the screen's cooldowns
\* and the busy screen come first.
Ask(command, on) ==
    /\ stage = "idle"
    /\ wish' = [command |-> command, on |-> on]
    /\ stage' = CASE command = "install" -> IF on THEN "check" ELSE "drop"
                  [] command = "remove" -> "drop"
                  [] OTHER -> "answer"
    /\ seen' = rules
    /\ error' = FALSE
    /\ UNCHANGED <<engine, listening, host, prior, cut, exposed, ended>>

\* An answer: what fails or is not understood becomes an error on the screen,
\* and a check that failed lists nothing.
Shown(how) ==
    LET good == how = "ok" /\ Understood IN
    /\ stage' = "idle"
    /\ ended' = how
    /\ error' = ~good
    /\ exposed' = IF wish.command # "probe" THEN exposed
                  ELSE IF good THEN Exposure(listening) ELSE {}

Tell == stage = "answer" /\ Shown("ok")
            /\ UNCHANGED <<engine, listening, host, wish, prior, seen, cut>>

-----------------------------------------------------------------------------
(* apply_rules, install, disable and remove.                               *)

\* nft -c on a copy; without nft the rules are written and not loaded.
Check ==
    /\ stage = "check"
    /\ \/ stage' = "write" /\ UNCHANGED <<rules, screen, ended>>
       \/ Shown("failed") /\ rules' \in {rules, engine}
    /\ cut' = (cut \/ rules' # rules)
    /\ UNCHANGED <<engine, listening, table, unit, policy, wish, prior, seen>>

\* The previous rules are read, then the new ones are written: from here on the
\* file is ahead of the table.
Write ==
    /\ stage = "write"
    /\ stage' = "drop"
    /\ prior' = rules
    /\ rules' = engine
    /\ cut' = TRUE
    /\ UNCHANGED <<engine, listening, table, unit, policy, wish, seen, screen, ended>>

\* The table goes; a policy that is off loads nothing.
Drop ==
    /\ stage = "drop"
    /\ stage' = IF wish.command = "remove" THEN "unlink"
                ELSE IF wish.on THEN "load" ELSE "conf"
    /\ table' = None
    /\ UNCHANGED <<engine, listening, rules, unit, policy, wish, prior, seen, cut, screen, ended>>

\* A variation: the previous file is put back and not loaded.
LoadNotRestored ==
    /\ stage = "load"
    /\ \/ stage' = "conf" /\ table' = rules /\ cut' = FALSE /\ UNCHANGED <<rules, screen, ended>>
       \/ /\ Shown("failed")
          /\ cut' = cut
          /\ UNCHANGED <<rules, table>>
    /\ UNCHANGED <<engine, listening, unit, policy, wish, prior, seen>>

\* The new table, or the previous file and, if it still loads, its table; the
\* first file of all stays, although it was refused.
Load ==
    /\ stage = "load"
    /\ \/ stage' = "conf" /\ table' = rules /\ cut' = FALSE /\ UNCHANGED <<rules, screen, ended>>
       \/ /\ Shown("failed")
          /\ rules' = IF prior = None THEN rules ELSE prior
          /\ table' \in {None, prior}
          /\ cut' = (prior = None)
    /\ UNCHANGED <<engine, listening, unit, policy, wish, prior, seen>>

Conf ==
    /\ stage = "conf"
    /\ stage' = "unit"
    /\ policy' = IF wish.on THEN "on" ELSE "off"
    /\ UNCHANGED <<engine, listening, rules, table, unit, wish, prior, seen, cut, screen, ended>>

\* enable --now: a unit that has not run yet loads the file there is, whether
\* the policy is on or off, and on top of a table that is there.
EnableUnit ==
    /\ stage = "unit"
    /\ stage' = "answer"
    /\ unit' = TRUE
    /\ table' = IF ~unit /\ rules # None THEN rules ELSE table
    /\ UNCHANGED <<engine, listening, rules, policy, wish, prior, seen, cut, screen, ended>>

Unlink ==
    /\ stage = "unlink"
    /\ stage' = "answer"
    /\ rules' = None
    /\ unit' = FALSE
    /\ cut' = FALSE
    /\ UNCHANGED <<engine, listening, table, policy, wish, prior, seen, screen, ended>>

-----------------------------------------------------------------------------
(* The rest of the world.                                                  *)

Killed ==
    /\ stage # "idle"
    /\ Shown("killed")
    /\ UNCHANGED <<engine, listening, host, wish, prior, seen, cut>>

\* After a boot the unit loads the file; the bot has forgotten its screens.
Boot ==
    /\ stage' = "idle"
    /\ table' = IF unit THEN rules ELSE None
    /\ exposed' = None /\ error' = FALSE /\ ended' = "killed"
    /\ UNCHANGED <<engine, listening, rules, unit, policy, wish, prior, seen, cut>>

MoveEngine ==
    /\ stage = "idle"
    /\ engine' \in EnginePorts \ {engine}
    /\ UNCHANGED <<listening, host, stage, wish, prior, seen, cut, screen, ended>>

Listen ==
    /\ stage = "idle"
    /\ listening' \in SUBSET Sockets
    /\ exposed' = None
    /\ UNCHANGED <<engine, host, stage, wish, prior, seen, cut, error, ended>>

FloodNext ==
    \/ \E c \in Commands, on \in BOOLEAN : Ask(c, on)
    \/ Tell \/ Check \/ Write \/ Drop \/ Load \/ Conf \/ EnableUnit \/ Unlink
    \/ Killed \/ Boot \/ MoveEngine \/ Listen

FloodSpec == FloodInit /\ [][FloodNext]_floodVars

-----------------------------------------------------------------------------
(* Properties.                                                             *)

FloodTypeOK ==
    /\ engine \in EnginePorts /\ listening \subseteq Sockets
    /\ policy \in {"none", "on", "off"}
    /\ rules \in EnginePorts \cup {None} /\ table \in EnginePorts \cup {None}
    /\ unit \in BOOLEAN /\ cut \in BOOLEAN /\ error \in BOOLEAN
    /\ stage \in {"idle", "check", "write", "drop", "load", "conf", "unit",
                  "unlink", "answer"}
    /\ wish \in [command: Commands, on: BOOLEAN]
    /\ prior \in EnginePorts \cup {None} /\ seen \in EnginePorts \cup {None}
    /\ exposed \in SUBSET Sockets \cup {None}
    /\ ended \in {"none", "ok", "failed", "killed"}

\* A load that fails leaves the rules the call found and filters with them or not
\* at all; only a first install leaves its own (README.md:171; ddos_agent.py:533).
FailedLoadRestores ==
    [][stage = "load" /\ stage' = "idle" /\ ended' = "failed" =>
         /\ seen # None => rules' = seen
         /\ table' \in {None, seen}]_floodVars

-----------------------------------------------------------------------------
(* The port scan and the traceroute of the debug panel (BOT/dbg.py,         *)
(* BOT/net.py) and the agent that makes them (net_scan and net_trace of     *)
(* Storage/remote/freeturn_agent.py).  Each side has a limit of its own:    *)
(* the agent stops looking when its time is over and answers with what it   *)
(* has, the panel stops waiting and leaves the agent alone.  A tick is one  *)
(* connection that gets no answer.                                          *)

CONSTANTS
    ScanHosts,    \* hosts of a subnet
    ScanPorts,    \* ports asked for
    ScanTime,     \* NET_MAX_SECONDS, in ticks
    TraceTime,    \* NET_TRACE_TIMEOUT
    PanelTime,    \* NET_LIMIT
    MaxScans      \* bound of the model: agents

\* Both limits are 120 seconds (dbg.py:24, freeturn_agent.py:750).
ScanConstants ==
    /\ {ScanHosts, ScanPorts, ScanTime, TraceTime, PanelTime, MaxScans} \subseteq Nat
    /\ PanelTime <= ScanTime

VARIABLES
    probes,   \* the agents, in the order they were started
    waiter,   \* what the panel is at
    answered  \* the answer on the screen

scanVars == <<probes, waiter, answered>>

NoWait == [at |-> "home"]
Nothing == [kind |-> "none", rows |-> 0, whole |-> FALSE]
Fresh(kind, hosts) ==
    [at |-> "starting", kind |-> kind, hosts |-> hosts, rows |-> 0, port |-> 0,
     whole |-> TRUE, spent |-> 0, age |-> 0]

ScanInit == probes = <<>> /\ waiter = NoWait /\ answered = Nothing

-----------------------------------------------------------------------------
(* The panel.                                                              *)

\* A target or a list of ports that net.py refuses leaves the last answer.
Refuse ==
    /\ waiter = NoWait
    /\ UNCHANGED scanVars

\* More ports than the agent takes, though net.py let them pass: the client of
\* the agent refuses them, and the error is the answer.
TooMany ==
    /\ waiter = NoWait
    /\ answered' = [Nothing EXCEPT !.kind = "error"]
    /\ UNCHANGED <<probes, waiter>>

AskAgent(kind, hosts) ==
    /\ waiter = NoWait /\ Len(probes) < MaxScans
    /\ probes' = Append(probes, Fresh(kind, hosts))
    /\ waiter' = [at |-> "waiting", waited |-> 0]
    /\ UNCHANGED answered

\* scan_action of one host or a subnet; routes are made one after the other.
AskScan == \E hosts \in {1, ScanHosts} : AskAgent("scan", hosts)

\* trace_action.
AskTrace == AskAgent("trace", 1)

\* A variation: the panel waits as long as net_scan lets the shell run.
Patient == waiter.at = "waiting" /\ waiter.waited >= 2 * PanelTime

\* wait_for: the panel gives up and takes no later answer.
Expired == waiter.at = "waiting" /\ waiter.waited >= PanelTime

GiveUp ==
    /\ Expired
    /\ waiter' = NoWait
    /\ answered' = [Nothing EXCEPT !.kind = "stuck"]
    /\ UNCHANGED probes

-----------------------------------------------------------------------------
(* The agent.                                                              *)

Last == Len(probes)
Becomes(i, agent) == probes' = [probes EXCEPT ![i] = agent]

\* Only the agent asked last has a panel that waits.
Answers(i, answer) ==
    /\ Becomes(i, [probes[i] EXCEPT !.at = "gone"])
    /\ IF i = Last /\ waiter # NoWait
       THEN answered' = answer /\ waiter' = NoWait
       ELSE UNCHANGED <<answered, waiter>>

Fails(i) == Answers(i, [Nothing EXCEPT !.kind = "error"])

\* A name is resolved before the clock starts; one without an address ends here.
Starts(i) ==
    /\ probes[i].at = "starting"
    /\ \/ /\ Becomes(i, [probes[i] EXCEPT !.at = IF @ = "starting" /\ probes[i].kind = "scan"
                                                 THEN "host" ELSE "tracing"])
          /\ UNCHANGED <<waiter, answered>>
       \/ Fails(i)

Over(agent) == agent.spent > ScanTime

\* The next host, or the answer.
Host(i) ==
    /\ probes[i].at = "host"
    /\ IF probes[i].rows = probes[i].hosts \/ Over(probes[i])
       THEN Answers(i, [kind |-> "scan", rows |-> probes[i].rows,
                        whole |-> probes[i].whole /\ probes[i].rows = probes[i].hosts])
       ELSE /\ Becomes(i, [probes[i] EXCEPT !.at = "port", !.port = 1])
            /\ UNCHANGED <<waiter, answered>>

\* The next port.  A host whose time was over has a row all the same.
Port(i) ==
    /\ probes[i].at = "port"
    /\ LET a == probes[i] IN
         Becomes(i, IF a.port > ScanPorts \/ Over(a)
                    THEN [a EXCEPT !.at = "host", !.rows = @ + 1, !.port = 0,
                                   !.whole = @ /\ a.port > ScanPorts]
                    ELSE [a EXCEPT !.at = "trying", !.age = 0])
    /\ UNCHANGED <<waiter, answered>>

\* The connection is made or refused, or its time is over.
Tried(i) ==
    /\ probes[i].at = "trying"
    /\ Becomes(i, [probes[i] EXCEPT !.at = "port", !.port = @ + 1, !.age = 0])
    /\ UNCHANGED <<waiter, answered>>

\* traceroute ends, or is killed.
Traced(i) ==
    /\ probes[i].at = "tracing"
    /\ \/ probes[i].spent <= TraceTime
          /\ Answers(i, [kind |-> "trace", rows |-> 0, whole |-> TRUE])
       \/ Fails(i)

-----------------------------------------------------------------------------
\* Time passes while connections, names and traceroute are waited for.
MayWait(a) ==
    CASE a.at = "trying" -> a.age = 0
      [] a.at = "tracing" -> a.spent < TraceTime
      [] OTHER -> a.at \in {"gone", "starting"}

Older(a) ==
    CASE a.at = "trying" -> [a EXCEPT !.spent = @ + 1, !.age = 1]
      [] a.at = "tracing" -> [a EXCEPT !.spent = @ + 1]
      [] OTHER -> a

ScanTick ==
    /\ \A i \in DOMAIN probes : MayWait(probes[i])
    /\ ~Expired
    /\ waiter # NoWait \/ \E i \in DOMAIN probes : probes[i].at # "gone"
    /\ probes' = [i \in DOMAIN probes |-> Older(probes[i])]
    /\ waiter' = IF waiter = NoWait THEN NoWait ELSE [waiter EXCEPT !.waited = @ + 1]
    /\ UNCHANGED answered

ScanNext ==
    \/ Refuse \/ TooMany \/ AskScan \/ AskTrace \/ GiveUp \/ ScanTick
    \/ \E i \in DOMAIN probes : Starts(i) \/ Host(i) \/ Port(i) \/ Tried(i) \/ Traced(i)

ScanTypeOK ==
    /\ \A i \in DOMAIN probes :
         /\ probes[i].kind \in {"scan", "trace"} /\ probes[i].rows <= probes[i].hosts
         /\ probes[i].at \in {"starting", "host", "port", "trying", "tracing", "gone"}
    /\ waiter # NoWait => waiter.waited \in Nat
    /\ answered.kind \in {"none", "error", "stuck", "scan", "trace"}

\* A scan that is shown has looked at every port of every host: what the agent
\* cuts short is never taken, for the panel has stopped waiting by then
\* (dbg.py:24 NET_LIMIT, freeturn_agent.py:750 NET_MAX_SECONDS).
ShownIsWhole == answered.kind = "scan" => answered.whole

\* An agent is never busy for more than one connection beyond its time, waited
\* for or left alone (freeturn_agent.py:838-844).
ScanEnds == \A i \in DOMAIN probes : probes[i].kind = "scan" => probes[i].spent <= ScanTime + 1

\* A scan ends in its time, and what is shown of one is all of it.
ScansHold == ShownIsWhole /\ ScanEnds
===============================================================================
