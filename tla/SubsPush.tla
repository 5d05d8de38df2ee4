------------------------------ MODULE SubsPush ------------------------------
(***************************************************************************)
(* How the registry of the subscription gets from the state of the bot to  *)
(* the server: Bot.subs_sync (BOT/app.py), the subscription routes of      *)
(* BOT/panel.py and the agent commands sub-install, sub-sync and sub-stop  *)
(* of Storage/remote/xray_agent.py, each a process that lives on when the  *)
(* route that waits for it is cancelled.  The action lock (ActionGate)     *)
(* makes the routes one job; inline values come beside it.                 *)
(***************************************************************************)
EXTENDS Naturals, FiniteSets

CONSTANTS
  Links,  \* what a registry can list
  Ports,  \* values of sub_port
  Taken,  \* the ports another program of the host may listen on
  Procs,  \* agent processes that may live at the same time
  None    \* no registry, no port, no process

Registry == [links : Links, port : Ports]

ASSUME SubsConstants ==
  /\ Taken \subseteq Ports
  /\ None \notin Ports \cup Procs
  /\ None \notin Registry

VARIABLES
  cfg,        \* what sub_registry() would render now
  enabled,    \* sub_enabled
  domain,     \* the tunnel is enabled and has a host
  digest,     \* the registry whose digest subs_digest holds
  job,        \* where the holder of the action lock stands
  awaited,    \* the agent it waits for
  agents,     \* the agents: next step, registry, no other has lived beside it
  file,       \* subscriptions.json
  server,     \* the program of the server: absent, torn while written, good
  unit,       \* the port in the unit file
  up,         \* the port of the running server
  wanted,     \* the port of the service systemd keeps trying to run
  stranger,   \* the port another program listens on; it never moves
  handed      \* history: what may have replaced the registry digest stands for

bot == <<cfg, enabled, domain, digest, job, awaited, handed>>
host == <<file, server, unit, up, wanted>>
vars == <<cfg, enabled, domain, digest, job, awaited, agents,
          file, server, unit, up, wanted, stranger, handed>>

Jobs == {"free", "install", "apply", "stop", "off", "push", "pushing"}
SyncSteps == {"write", "look", "halt", "unlink", "unit", "start", "bind"}
Steps == {"none", "open", "fill", "stop", "remove", "ok", "err"} \cup SyncSteps

Dead == [step |-> "none", reg |-> None, alone |-> FALSE]
Live == {q \in Procs : agents[q].step # "none"}

TypeOK ==
  /\ cfg \in Registry /\ digest \in Registry \cup {None}
  /\ enabled \in BOOLEAN /\ domain \in BOOLEAN /\ handed \subseteq Registry
  /\ job \in Jobs /\ awaited \in Procs \cup {None}
  /\ agents \in [Procs -> [step : Steps, reg : Registry \cup {None}, alone : BOOLEAN]]
  /\ file \in Registry \cup {None}
  /\ server \in {"absent", "torn", "good"}
  /\ unit \in Ports \cup {None} /\ up \in Ports \cup {None}
  /\ wanted \in Ports \cup {None} /\ stranger \in Taken \cup {None}
  /\ job \in {"free", "push"} <=> awaited = None
  /\ \A q \in Procs : agents[q].step \in {"ok", "err"} => awaited = q
  /\ awaited # None => agents[awaited].step # "none"
  /\ \A q \in Procs : agents[q].step \in SyncSteps => agents[q].reg \in Registry
  /\ \A q \in Procs : agents[q].step \in {"open", "fill", "stop", "remove"} => agents[q].reg = None
  /\ job \in {"apply", "pushing"} => agents[awaited].reg \in Registry

Init ==
  /\ cfg \in Registry
  /\ enabled = FALSE /\ domain = FALSE
  /\ digest = None /\ handed = {}
  /\ job = "free" /\ awaited = None
  /\ agents = [q \in Procs |-> Dead]
  /\ file = None /\ server = "absent" /\ unit = None
  /\ up = None /\ wanted = None
  /\ stranger \in Taken \cup {None}

-----------------------------------------------------------------------------
(* Agents as processes.                                                     *)

\* Agent q starts; beside another one neither is alone any more.
With(table, q, step, reg) ==
  [p \in Procs |->
     IF p = q
       THEN [step |-> step, reg |-> reg,
             alone |-> \A o \in Procs \ {q} : table[o].step = "none"]
       ELSE [table[p] EXCEPT !.alone = FALSE]]

\* xrayrpc.call: the job waits for agent q.
Launch(table, q, step, reg, then) ==
  /\ table[q].step = "none"
  /\ agents' = With(table, q, step, reg)
  /\ awaited' = q /\ job' = then

Without(q) == [agents EXCEPT ![q] = Dead]

\* The job goes on without an agent.
Resume(then) == job' = then /\ awaited' = None

\* A registry is handed to an agent; only another one than the recorded counts.
Hand(r) == handed' = IF digest \in {None, r} THEN handed ELSE handed \cup {r}

\* What may be in the file, or get into it, when an overlapped push of r ends.
Afloat(r) == ({file} \cup {agents[q].reg : q \in Live}) \ {None, r}

Replied(step) == awaited # None /\ agents[awaited].step = step

-----------------------------------------------------------------------------
(* The bot.                                                                 *)

\* An inline value, or a button outside the proxy core panel whose links are
\* part of the registry: the state changes and nothing pushes it.
Input(r) ==
  /\ cfg' = r
  /\ UNCHANGED <<enabled, domain, digest, job, awaited, agents, handed, stranger, host>>

\* The input that empties the host of the tunnel.
InputNoHost ==
  /\ domain' = FALSE
  /\ UNCHANGED <<cfg, enabled, digest, job, awaited, agents, handed, stranger, host>>

\* A route of the panel that changes the state.  One that raises afterwards,
\* or is cancelled, leaves run_callback before the push.
Change(r) ==
  /\ job = "free"
  /\ cfg' = r
  /\ job' \in {"push", "free"}
  /\ UNCHANGED <<enabled, domain, digest, awaited, agents, handed, stranger, host>>

\* subs_apply: install the server, then hand it the registry of that moment.
Apply(q) ==
  /\ job = "free"
  /\ IF domain THEN Launch(agents, q, "open", None, "install")
               ELSE job' = "push" /\ UNCHANGED <<agents, awaited>>
  /\ UNCHANGED <<cfg, enabled, domain, digest, handed, stranger, host>>

ApplySync(q) ==
  /\ job = "install" /\ Replied("ok")
  /\ Launch(Without(awaited), q, "write", cfg, "apply")
  /\ Hand(cfg)
  /\ UNCHANGED <<cfg, enabled, domain, digest, stranger, host>>

ApplyDone ==
  /\ job = "apply" /\ Replied("ok")
  /\ enabled' = TRUE
  /\ agents' = Without(awaited) /\ Resume("push")
  /\ UNCHANGED <<cfg, domain, digest, handed, stranger, host>>

\* subs_stop, and the button that takes the tunnel down, which forgets the
\* setting before it stops the server and ignores the outcome.
Stop(q) ==
  /\ job = "free"
  /\ Launch(agents, q, "stop", None, "stop")
  /\ UNCHANGED <<cfg, enabled, domain, digest, handed, stranger, host>>

StopDone ==
  /\ job = "stop" /\ Replied("ok")
  /\ enabled' = FALSE
  /\ agents' = Without(awaited) /\ Resume("push")
  /\ UNCHANGED <<cfg, domain, digest, handed, stranger, host>>

TunnelUp ==
  /\ job = "free"
  /\ domain' = TRUE /\ job' = "push"
  /\ UNCHANGED <<cfg, enabled, digest, awaited, agents, handed, stranger, host>>

TunnelOff(q) ==
  /\ job = "free"
  /\ domain' = FALSE /\ enabled' = FALSE
  /\ IF enabled THEN Launch(agents, q, "stop", None, "off")
                ELSE job' = "push" /\ UNCHANGED <<agents, awaited>>
  /\ UNCHANGED <<cfg, digest, handed, stranger, host>>

TunnelOffDone ==
  /\ job = "off" /\ Replied("ok")
  /\ agents' = Without(awaited) /\ Resume("push")
  /\ UNCHANGED <<cfg, enabled, domain, digest, handed, stranger, host>>

\* subs_status: whatever listens on the port decides.
Listening(p) == p \in {up, stranger}

Status ==
  /\ job = "free"
  /\ enabled' = Listening(cfg.port) /\ job' = "push"
  /\ UNCHANGED <<cfg, domain, digest, awaited, agents, handed, stranger, host>>

\* An agent that failed: the routes show it and end, and subs_sync returns.
Fallback == IF job = "pushing" THEN "free" ELSE "push"

CallFailed ==
  /\ Replied("err")
  /\ agents' = Without(awaited) /\ Resume(Fallback)
  /\ UNCHANGED <<cfg, enabled, domain, digest, handed, stranger, host>>

\* One process is left for the next call: the bound of this model on orphans.
RoomForOrphan == Cardinality(Live) < Cardinality(Procs)

Answered == agents[awaited].step \in {"ok", "err"}

\* Variation: a call without a time limit.
CallHangs == FALSE /\ UNCHANGED vars

\* The time limit of LocalShell._spawn: the child is killed.  When it is
\* sudo, the agent under it is not.
CallTimesOut ==
  /\ awaited # None
  /\ ~Answered
  /\ agents' = Without(awaited) \/ (RoomForOrphan /\ agents' = agents)
  /\ Resume(Fallback)
  /\ UNCHANGED <<cfg, enabled, domain, digest, handed, stranger, host>>

\* ACTION_TIMEOUT, shorter than the two calls of these routes together: the
\* task stops waiting and its agent goes on; run_callback returns without a push.
RouteTimesOut ==
  /\ job \in {"apply", "off"} /\ ~Answered /\ RoomForOrphan
  /\ Resume("free")
  /\ UNCHANGED <<cfg, enabled, domain, digest, agents, handed, stranger, host>>

\* subs_sync, after the route and outside its time limit.
PushDue == enabled /\ domain /\ cfg # digest

PushSkipped ==
  /\ job = "push" /\ ~PushDue
  /\ job' = "free"
  /\ UNCHANGED <<cfg, enabled, domain, digest, awaited, agents, handed, stranger, host>>

Push(q) ==
  /\ job = "push" /\ PushDue
  /\ Launch(agents, q, "write", cfg, "pushing")
  /\ Hand(cfg)
  /\ UNCHANGED <<cfg, enabled, domain, digest, stranger, host>>

\* Variation: the digest is stored whether or not the push went well.
PushDoneOrFailed ==
  /\ job = "pushing" /\ Answered
  /\ digest' = agents[awaited].reg
  /\ handed' = IF agents[awaited].alone THEN {} ELSE Afloat(digest')
  /\ agents' = Without(awaited) /\ Resume("free")
  /\ UNCHANGED <<cfg, enabled, domain, stranger, host>>

PushDone ==
  /\ job = "pushing" /\ Replied("ok")
  /\ digest' = agents[awaited].reg
  /\ handed' = IF agents[awaited].alone THEN {} ELSE Afloat(digest')
  /\ agents' = Without(awaited) /\ Resume("free")
  /\ UNCHANGED <<cfg, enabled, domain, stranger, host>>

\* The unit of the bot is restarted: its children die with it, the digest was
\* in memory only.
BotRestarts ==
  /\ job' = "free" /\ awaited' = None
  /\ digest' = None /\ handed' = {}
  /\ agents' = [q \in Procs |-> Dead]
  /\ UNCHANGED <<cfg, enabled, domain, stranger, host>>

-----------------------------------------------------------------------------
(* The agent, one step for each thing that can fail or be interrupted.  An  *)
(* error answers at once and leaves what was done.                          *)

Goto(q, s) == agents' = [agents EXCEPT ![q].step = s]

\* The answer, and the end of an agent nobody waits for.
Answer(q, s) == IF awaited = q THEN Goto(q, s) ELSE agents' = Without(q)

Fail(q) ==
  /\ agents[q].step \in Steps \ {"none", "ok", "err"}
  /\ Answer(q, "err")
  /\ UNCHANGED <<bot, stranger, host>>

\* cmd_sub_install: the program is opened for writing in place, then filled.
InstallOpen(q) ==
  /\ agents[q].step = "open"
  /\ server' = "torn" /\ Goto(q, "fill")
  /\ UNCHANGED <<bot, stranger, file, unit, up, wanted>>

InstallFill(q) ==
  /\ agents[q].step = "fill"
  /\ server' = "good" /\ Answer(q, "ok")
  /\ UNCHANGED <<bot, stranger, file, unit, up, wanted>>

\* cmd_sub_sync: not_installed, or the registry replaced by a rename.
SyncWrite(q) ==
  /\ agents[q].step = "write" /\ server # "absent"
  /\ file' = agents[q].reg /\ Goto(q, "look")
  /\ UNCHANGED <<bot, stranger, server, unit, up, wanted>>

\* Variation: an installed unit is taken for a running server.
UnitIsThere(q) == unit # None

\* sub_state() reports the port it was asked for, so all that is compared is
\* that something listens there and that a unit exists.
KeepsRunning(q) == Listening(agents[q].reg.port) /\ unit # None

SyncLook(q) ==
  /\ agents[q].step = "look"
  /\ IF KeepsRunning(q) THEN Answer(q, "ok") ELSE Goto(q, "halt")
  /\ UNCHANGED <<bot, stranger, host>>

\* stop_sub: systemctl stop and disable, either of which may fail unseen, then
\* the unit, whose removal may fail unnoticed as well.
Halt(q) ==
  /\ agents[q].step \in {"halt", "stop"}
  /\ (up' = None /\ wanted' = None) \/ UNCHANGED <<up, wanted>>
  /\ Goto(q, IF agents[q].step = "halt" THEN "unlink" ELSE "remove")
  /\ UNCHANGED <<bot, stranger, file, server, unit>>

Unlink(q) ==
  /\ agents[q].step \in {"unlink", "remove"}
  /\ unit' \in {None, unit}
  /\ IF agents[q].step = "unlink" THEN Goto(q, "unit") ELSE Answer(q, "ok")
  /\ UNCHANGED <<bot, stranger, file, server, up, wanted>>

\* port_busy, or the unit for the new port.
SyncUnit(q) ==
  /\ agents[q].step = "unit"
  /\ IF Listening(agents[q].reg.port)
       THEN Answer(q, "err") /\ unit' = unit
       ELSE Goto(q, "start") /\ unit' = agents[q].reg.port
  /\ UNCHANGED <<bot, stranger, file, server, up, wanted>>

\* A server that can run on port p: a whole program and a free port.
Comes(p) == IF server = "good" /\ stranger # p THEN p ELSE None

\* start_sub: systemctl restart ends the old process and answers before the new
\* one has bound its port, or it fails half way.
SyncStart(q) ==
  /\ agents[q].step = "start" /\ unit # None
  /\ up' = None
  /\ \/ wanted' = unit /\ Goto(q, "bind")
     \/ wanted' \in {unit, None} /\ Answer(q, "err")
  /\ UNCHANGED <<bot, stranger, file, server, unit>>

\* The port is asked for ten seconds; the answer is ok whether or not the
\* server has come to listen.
SyncBound(q) ==
  /\ agents[q].step = "bind"
  /\ Answer(q, "ok")
  /\ UNCHANGED <<bot, stranger, host>>

\* The server ends by itself.
Crash ==
  /\ up # None /\ up' = None
  /\ UNCHANGED <<bot, stranger, agents, file, server, unit, wanted>>

\* systemd starts what it wants, the first time and, by Restart=always, again.
Respawn ==
  /\ wanted # None /\ up = None
  /\ up' = Comes(wanted) /\ up' # None
  /\ UNCHANGED <<bot, stranger, agents, file, server, unit, wanted>>

-----------------------------------------------------------------------------
Step(q) ==
  \/ InstallOpen(q) \/ InstallFill(q) \/ SyncWrite(q) \/ SyncLook(q) \/ Halt(q)
  \/ Unlink(q) \/ SyncUnit(q) \/ SyncStart(q) \/ SyncBound(q) \/ Fail(q)

Start(q) == Apply(q) \/ Stop(q) \/ TunnelOff(q)

Resumes ==
  \/ \E q \in Procs : ApplySync(q) \/ Push(q)
  \/ ApplyDone \/ StopDone \/ TunnelOffDone \/ CallFailed \/ PushDone
  \/ PushSkipped \/ CallTimesOut

Next ==
  \/ \E r \in Registry : Input(r) \/ Change(r)
  \/ \E q \in Procs : Start(q) \/ Step(q)
  \/ InputNoHost \/ TunnelUp \/ Status \/ Resumes \/ RouteTimesOut
  \/ BotRestarts \/ Crash \/ Respawn

\* The event loop runs what is ready and every call has a time limit.
Spec == Init /\ [][Next]_vars /\ WF_vars(Resumes)

-----------------------------------------------------------------------------
(* Properties.                                                              *)

\* What the digest stands for: the file is the registry whose push was recorded,
\* or one that an agent was given since, by subs_apply, by a push that failed or
\* by one that overlapped the recorded push.  Nothing else gets into the file,
\* and with nothing handed out since, skipping the remembered registry is right.
FileIsKnown ==
  digest # None => file = digest \/ file \in handed

\* README: the bot pushes the registry after every change, so the link is live
\* without pressing apply.  When the push after a change is skipped because the
\* digest is the remembered one, the file is that registry.
SkipIsRight ==
  job = "push" /\ enabled /\ domain /\ cfg = digest => file = cfg

\* An agent that nobody overlapped, with a whole server program and no other
\* program on its port, answers ok only when the file is its registry and
\* systemd keeps a server on the port of that registry.  That server may yet
\* have to come up, or to come up again; it listens on no other port.
OkMeansServed ==
  \A q \in Procs :
    /\ agents[q].step = "ok" /\ agents[q].reg # None /\ agents[q].alone
    /\ server = "good" /\ stranger # agents[q].reg.port
    => /\ file = agents[q].reg /\ wanted = agents[q].reg.port
       /\ up \in {None, wanted}

\* Every route ends and gives the action lock back, although the push runs
\* outside the time limit of the routes and an agent may hang for good.
LockComesBack == job # "free" ~> job = "free"

=============================================================================
