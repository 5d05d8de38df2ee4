------------------------------ MODULE PanelPorts ------------------------------
(***************************************************************************)
(* The ports of the proxy panel.  An inbound is created after two looks at *)
(* the listeners of the server, an apply looks once and moves the ports of *)
(* the bot's own that are taken; a value the owner types is stored at any  *)
(* moment, also between a look and what follows from it.                   *)
(***************************************************************************)
EXTENDS Integers, Sequences, FiniteSets, FiniteSetsExt

CONSTANTS
    Slots,         \* bound of the model: the ids an inbound may get
    MaxPort,       \* bound of the model: ports are 1 .. MaxPort, ssh is not one of them
    Favourites,    \* the ports tried first for a new inbound
    Base,          \* where the search for a port begins after those
    OwnPorts,      \* [metrics, api, sub]: the ports the bot starts with
    MaxStrangers,  \* bound of the model: ports other programs open
    MaxTyped,      \* bound of the model: values the owner types
    MaxTaps        \* bound of the model: buttons the owner presses

Ports == 1 .. MaxPort
NoPort == 0

PortConstants ==
    /\ Slots # {} /\ Slots \subseteq Nat \ {0} /\ IsFiniteSet(Slots)
    /\ MaxPort \in Nat /\ Base \in Ports
    /\ Favourites \in Seq(Ports)
    /\ OwnPorts \in [{"metrics", "api", "sub"} -> Ports]
    /\ MaxStrangers \in Nat /\ MaxTyped \in Nat /\ MaxTaps \in Nat

VARIABLES
    at,         \* the port of every inbound, NoPort where there is none
    lit,        \* is the inbound enabled?
    own,        \* XrayState: the ports of metrics, api and sub
    botSub,     \* BotState: the second copy of the port of the subscriptions
    subOn,      \* sub_enabled
    report,     \* last_core: the ports the core was seen to listen on
    file, run,  \* the configuration on the server, and does it run?
    conf,       \* the configuration on its way to the server
    serving,    \* the port of the subscription server
    others,     \* the ports of other programs
    step, want, \* what the panel does, and the port a new inbound is to have
    look,       \* the listeners as the agent has seen them
    draft,      \* the port of the draft
    typed, taps

portVars == <<at, lit, own, botSub, subOn, report, file, run, conf, serving, others,
              step, want, look, draft, typed, taps>>
serverVars == <<file, run, conf, serving>>

NoFile == [inbounds |-> {}, api |-> NoPort, metrics |-> NoPort]
Files == [inbounds : SUBSET Ports, api : Ports \cup {NoPort}, metrics : Ports \cup {NoPort}]

PortsTypeOK ==
    /\ at \in [Slots -> Ports \cup {NoPort}] /\ lit \in [Slots -> BOOLEAN]
    /\ own \in [{"metrics", "api", "sub"} -> Ports] /\ botSub \in Ports
    /\ subOn \in BOOLEAN /\ report \subseteq Ports
    /\ file \in Files /\ conf \in Files /\ run \in BOOLEAN
    /\ serving \in Ports \cup {NoPort}
    /\ others \subseteq Ports
    /\ step \in {"idle", "look", "guard", "ports", "sent"}
    /\ want \in Ports \cup {NoPort} /\ look \subseteq Ports
    /\ draft \in Ports \cup {NoPort} /\ typed \in Nat /\ taps \in Nat

PortsInit ==
    /\ at = [i \in Slots |-> NoPort] /\ lit = [i \in Slots |-> FALSE]
    /\ own = OwnPorts /\ botSub = OwnPorts.sub /\ subOn = FALSE
    /\ report = {} /\ file = NoFile /\ conf = NoFile /\ run = FALSE /\ serving = NoPort
    /\ others = {} /\ step = "idle" /\ want = NoPort /\ look = {}
    /\ draft = NoPort /\ typed = 0 /\ taps = 0

Taken == {at[i] : i \in Slots} \ {NoPort}
Open(f) == (f.inbounds \cup {f.api}) \ {NoPort}
Live == others \cup ({serving} \ {NoPort})
               \cup IF run THEN Open(file) \cup {file.metrics} ELSE {}

\* portguard.free_port: the first free port from one on, or the first of all.
FreePort(from, used) ==
    LET above == {p \in Ports \ used : p >= from}
    IN CASE above # {} -> Min(above)
         [] above = {} /\ Ports \ used # {} -> Min(Ports \ used)
         [] OTHER -> NoPort

\* What the bot takes for its own, and the listeners it does not.
Mine == report \cup IF subOn THEN {own.sub} ELSE {}
Foreign == look \ Mine

NextPort(extra) ==
    LET used == Taken \cup extra \cup {own.sub, own.api}
        free == {k \in DOMAIN Favourites : Favourites[k] \notin used}
    IN IF free # {} THEN Favourites[Min(free)] ELSE FreePort(Base, used)

\* live_owners: a look that fails has seen nothing.
Look == look' \in {Live, {}}

Tap == step = "idle" /\ taps < MaxTaps /\ taps' = taps + 1

\* create_quick with or without a port, create_custom with that of the draft.
Create(p) ==
    /\ Tap /\ step' = "look" /\ want' = p /\ Look
    /\ UNCHANGED <<at, lit, own, botSub, subOn, report, serverVars, others, draft, typed>>

Draft ==
    /\ Tap /\ draft' = NextPort({})
    /\ UNCHANGED <<at, lit, own, botSub, subOn, report, serverVars, others, step, want, look, typed>>

\* The port is chosen after the first look; guard_port looks again.
Choose ==
    /\ step = "look" /\ step' = "guard" /\ Look
    /\ want' = IF want # NoPort THEN want ELSE NextPort(Foreign)
    /\ UNCHANGED <<at, lit, own, botSub, subOn, report, serverVars, others, draft, typed, taps>>

Guarded == IF want \notin Foreign THEN want ELSE FreePort(want + 1, Foreign \cup Mine)

\* XrayState.add refuses the port of another inbound.
Addable(p) == p # NoPort /\ p \notin Taken

Add ==
    /\ step = "guard" /\ step' = "idle" /\ want' = NoPort /\ look' = {}
    /\ \/ /\ Addable(Guarded)
          /\ \E i \in Slots :
                /\ at[i] = NoPort /\ \A j \in Slots : j < i => at[j] # NoPort
                /\ at' = [at EXCEPT ![i] = Guarded] /\ lit' = [lit EXCEPT ![i] = TRUE]
          /\ draft' \in {draft, NoPort}
       \/ ~Addable(Guarded) /\ UNCHANGED <<at, lit, draft>>
    /\ UNCHANGED <<own, botSub, subOn, report, serverVars, others, typed, taps>>

Toggle(i) ==
    /\ Tap /\ at[i] # NoPort /\ lit' = [lit EXCEPT ![i] = ~@]
    /\ UNCHANGED <<at, own, botSub, subOn, report, serverVars, others, step, want, look, draft, typed>>

Delete(i) ==
    /\ Tap /\ at[i] # NoPort
    /\ at' = [at EXCEPT ![i] = NoPort] /\ lit' = [lit EXCEPT ![i] = FALSE]
    /\ UNCHANGED <<own, botSub, subOn, report, serverVars, others, step, want, look, draft, typed>>

Type == typed < MaxTyped /\ typed' = typed + 1

\* set_field and set_global: only the ports of inbounds are looked at.
SetPort(i, p) ==
    /\ Type /\ at[i] # NoPort /\ \A j \in Slots \ {i} : at[j] # p
    /\ at' = [at EXCEPT ![i] = p]
    /\ UNCHANGED <<lit, own, botSub, subOn, report, serverVars, others, step, want, look, draft, taps>>

SetOwn(name, p) ==
    /\ Type /\ name \in {"api", "sub"} /\ p \notin Taken
    /\ own' = [own EXCEPT ![name] = p]
    /\ botSub' = IF name = "sub" THEN p ELSE botSub
    /\ UNCHANGED <<at, lit, subOn, report, serverVars, others, step, want, look, draft, taps>>

Apply ==
    /\ Tap /\ Taken # {} /\ step' = "ports" /\ Look
    /\ UNCHANGED <<at, lit, own, botSub, subOn, report, serverVars, others, want, draft, typed>>

\* A variation: the ports of the inbounds are forgotten where a place is sought.
BeyondBlind(p, used) ==
    IF p \in used /\ FreePort(p + 1, Foreign) # NoPort THEN FreePort(p + 1, Foreign) ELSE p

\* resolve_ports: metrics, api and sub make way in this order, each for all
\* that was found taken and for the places given out before it.
Beyond(p, used) ==
    IF p \in used /\ FreePort(p + 1, used) # NoPort THEN FreePort(p + 1, used) ELSE p
Plus(used, p, q) == IF p = q THEN used ELSE used \cup {q}
Resolved(have, used0) ==
    LET m == Beyond(have.metrics, used0)
        used1 == Plus(used0, have.metrics, m)
        a == Beyond(have.api, used1)
        used2 == Plus(used1, have.api, a)
    IN [metrics |-> m, api |-> a, sub |-> Beyond(have.sub, used2)]
Copied(ports) == ports.sub

\* check_ports and to_config, with nothing awaited in between.
Resolve ==
    /\ step = "ports" /\ look' = {}
    /\ LET ports == Resolved([own EXCEPT !.sub = botSub], Foreign \cup Taken)
       IN /\ own' = ports /\ botSub' = Copied(ports)
          /\ IF Taken \cap Foreign # {}
             THEN step' = "idle" /\ UNCHANGED conf
             ELSE /\ step' = "sent"
                  /\ conf' = [inbounds |-> {at[i] : i \in {j \in Slots : lit[j]}},
                              api |-> ports.api, metrics |-> ports.metrics]
    /\ UNCHANGED <<at, lit, subOn, report, file, run, serving, others, want, draft, typed, taps>>

\* The core starts where every listener has a port to itself.
Starts(f) ==
    /\ f # NoFile /\ f.metrics \notin Open(f) /\ f.api \notin f.inbounds
    /\ (Open(f) \cup {f.metrics}) \cap (others \cup {serving}) = {}

\* state_report asks by connecting: whoever answers on a port is the core.
Answering(f, up) ==
    Open(f) \cap (others \cup {serving} \cup IF up THEN Open(f) ELSE {})

\* The verdict of the agent; XrayAgent has its steps.
Applied ==
    /\ step = "sent" /\ step' = "idle" /\ conf' = NoFile
    /\ \/ Starts(conf) /\ file' = conf /\ run' = TRUE /\ report' = Answering(conf, TRUE)
       \/ file' \in {file, conf} /\ run' \in {run /\ file' = file, FALSE} /\ UNCHANGED report
    /\ UNCHANGED <<at, lit, own, botSub, subOn, serving, others, want, look, draft, typed, taps>>

\* check, run_core, install_core and purge; a call that fails changes no report.
Core(up) ==
    /\ Tap /\ (up => Starts(file)) /\ run' = up /\ report' = Answering(file, up)
    /\ UNCHANGED <<at, lit, own, botSub, subOn, file, conf, serving, others, step, want,
                   look, draft, typed>>

Purge ==
    /\ Tap /\ file' = NoFile /\ run' = FALSE /\ report' = {}
    /\ UNCHANGED <<at, lit, own, botSub, subOn, conf, serving, others, step, want, look,
                   draft, typed>>

Check ==
    /\ Tap /\ report' = Answering(file, run)
    /\ UNCHANGED <<at, lit, own, botSub, subOn, serverVars, others, step, want, look, draft, typed>>

\* subs_apply, subs_status, subs_stop and the tunnel that is turned off;
\* PanelLinks has their steps.
Serve ==
    /\ Tap /\ subOn' = TRUE /\ botSub' = own.sub
    /\ serving' = IF own.sub \in Live THEN serving ELSE own.sub
    /\ UNCHANGED <<at, lit, own, report, file, run, conf, others, step, want, look, draft, typed>>

Unserve ==
    /\ Tap /\ subOn' = FALSE /\ serving' \in {serving, NoPort}
    /\ UNCHANGED <<at, lit, own, botSub, report, file, run, conf, others, step, want, look,
                   draft, typed>>

Status ==
    /\ Tap /\ subOn' = (own.sub \in Live)
    /\ UNCHANGED <<at, lit, own, botSub, report, serverVars, others, step, want, look, draft, typed>>

Stranger(p) ==
    /\ Cardinality(others) < MaxStrangers /\ p \notin Live /\ others' = others \cup {p}
    /\ UNCHANGED <<at, lit, own, botSub, subOn, report, serverVars, step, want, look, draft,
                   typed, taps>>

PortsNext ==
    \/ \E p \in {NoPort, draft} \cup Ports : Create(p)
    \/ Draft \/ Choose \/ Add
    \/ \E i \in Slots : Toggle(i) \/ Delete(i) \/ \E p \in Ports : SetPort(i, p)
    \/ \E p \in Ports, name \in {"api", "sub"} : SetOwn(name, p)
    \/ Apply \/ Resolve \/ Applied
    \/ \E up \in BOOLEAN : Core(up)
    \/ Purge \/ Check \/ Serve \/ Unserve \/ Status
    \/ \E p \in Ports : Stranger(p)

\* No two inbounds have one port, whatever is typed while one is made
\* (xray.py:1279 XrayState.add, panel.py:1049 set_field).
PortsStayApart ==
    \A i, j \in Slots : i # j /\ at[i] # NoPort => at[i] # at[j]

\* No inbound of a configuration that is sent has the port of its api or of
\* its metrics, and every enabled inbound is in it (xray.py:1482 resolve_ports).
SentIsApart ==
    conf # NoFile => conf.inbounds \cap {conf.api, conf.metrics} = {}

\* The two copies of the port of the subscriptions agree, so that a save does
\* not take a move back (panel.py:154 save, panel.py:824 check_ports).
CopiesAgree == botSub = own.sub

\* The ports of the inbounds and of the bot stay apart, in the state, in what is
\* sent and in both copies, through everything that is typed, pressed and moved.
PortsAreApart == PortsStayApart /\ SentIsApart /\ CopiesAgree
===============================================================================
