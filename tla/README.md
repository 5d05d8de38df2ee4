# OBHOD in TLA+

A verification development for OBHOD: a Telegram bot that runs on a server,
drives the root agents that install and configure a proxy core, a FreeTurn
engine, fail2ban, sshd, nftables and decoys on it, and the daemons it leaves
behind (a subscription server and a honeypot). The modules are translated from
the Python and shell sources; TLC checks them on small instances, and TLAPS
proves the theorems for every value of the constants.

## 1. The system

### 1.1 Parts, state and operations

| part | code | state it keeps | operations |
| --- | --- | --- | --- |
| action gate | `BOT/app.py` (`on_callback`, `handle_callback`, `run_callback`, `stuck`, `finish`), `BOT/shell.py` | busy flag with its time to live, action lock, quiet marks, background tasks | tap, loading screen, drop, wait, run, give up, finish; typed and chosen inline values |
| limiter | `BOT/ratelimit.py`, `BOT/audit.py` | a bucket per user and scope, marks of expensive callbacks | `allow`, `sweep`, replay mark |
| access and settings | `BOT/app.py`, `BOT/store.py`, `BOT/config.py` | `state.json` with the id of the administrator and every parameter | claim, load, atomic save |
| inline values | `BOT/inline.py`, `BOT/app.py` | registry of tokens, secret, recent picks | offer, list, choose, marker, expiry |
| panels | `BOT/panel.py`, `BOT/xray.py`, `BOT/subs.py` | inbounds, clients, keys, ports, links, the scan | create, toggle, rotate, type, encrypt, sign, scan, apply |
| proxy core agent | `Storage/remote/xray_agent.py`, driven by `BOT/xrayrpc.py` | binary, `config.json`, its backup, unit, tunnel | install, apply, restart, start, stop, uninstall, tunnel |
| ssh agent | `Storage/remote/ssh_agent.py`, `BOT/guard.py` | sshd drop-in, `authorized_keys` | apply, add key, remove |
| anti flood agent | `Storage/remote/ddos_agent.py`, `BOT/antiddos.py`, `BOT/dbg.py` | rule file, loaded nftables table, unit | install, enable, disable, remove |
| fail2ban agent | `Storage/remote/fail2ban_agent.py`, `BOT/guard.py` | action, jails, filters, bans, the shared chain | install, ban, unban, uninstall |
| FreeTurn | `Storage/remote/freeturn_agent.py`, `BOT/freeturn.py`, `BOT/ftpanel.py` | cached script, engine, clients, links, relay firewall | cache, install, apply, open, narrow, close, repair, scan |
| subscription server | `Storage/remote/sub_server.py` | table of buckets, slots, cached registry | serve, throttle, miss, block |
| subscription push | `BOT/app.py` (`subs_sync`), `BOT/panel.py` | digest of the last pushed registry | push after a change |
| honeypot | `Storage/remote/honeypot_agent.py`, `BOT/dbg.py` | configuration, counters of connections, log | install, start, stop, remove; accept, refuse, serve, drop |
| updater | `BOT/update.py`, `get.sh` | checkout, packages, marker, background scripts | look, fetch, reset, compile, install, roll back, restart, verify; reinstall |
| notification centre | `BOT/notify.py`, `BOT/app.py` | events, cooldowns, announced bans, queue | poll, raise, trim, send |
| traffic counters | `BOT/traffic.py`, `BOT/ftpanel.py` | history by name in the state file | refresh, add up, today |
| caches | `BOT/releases.py`, `BOT/scripts.py`, `BOT/cores.py` | tags with ETag and age, copies of the script and their digests | look, merge, fetch |
| installer | `Storage/obhod_setup.py`, `Storage/obhod-install.sh`, `BOT/bootstrap.py` | env file, tree, runtime, units | install, repair, update, uninstall, purge; bootstrap |
| watchdog | `tools/obhod_watchdog.py` | none | compare the protection with a baseline |
| texts, start, security log | `BOT/strings.py`, `BOT/i18n.py`, `BOT/main.py`, `BOT/seclog.py` | none | look up, wire up, append |

### 1.2 How they interact

* The bot is one asyncio event loop. A tap becomes a task; the task waits for
  the action lock and awaits a *child process*, a root agent that reads a JSON
  request on its standard input and answers with JSON. The state of the server is
  shared by the agents, by systemd and by nothing else, and no lock is shared
  between agents: the action lock of the bot is the only thing that keeps
  two of them apart.
* Inline values (typed or chosen) reach the same agents by a second path.
* Agents talk to systemd, which restarts services on its own.
* The daemons are threads: a listener thread per port or a worker per
  request, with shared tables behind a lock.
* The updater replaces the files the bot runs from and asks systemd to
  restart it; the reinstall has a shell script do that from outside.
* `state.json` is shared by everything the bot remembers; each part writes keys
  of its own and the file is replaced as a whole.

### 1.3 What is hard

* **Interleaving at every await.** The flag, the lock, the timeout and the
  screens change in different steps of different tasks; a port that was free at
  one look is taken at the next; a value is typed while a core mints keys.
* **Timeouts that do not stop the work.** A cancelled task leaves its child
  process alive; a scan, a fetch, a package manager run on.
* **Kills, crashes and reboots between steps** of an agent that replaces files,
  drives a unit or rebuilds rules of a firewall one by one.
* **Checks apart from their effects**: the throttle of the subscription
  server, the digest of the registry push, the backup of a configuration, the keys
  looked at before password login is switched off, the script on the screen.
* **Deliveries in any order**: the two deliveries of one inline pick, answers of
  lookups that overtake each other.
* **Bounded tables** that forget: limiter, buckets, tokens, events, rows of a scan.
* **Two functions for one truth**: the configuration of an inbound and its link.

The hazards, each at its line and with the properties that cover it, are in
`PROJECT.json`; where a property covers only a part of one, its note says which. It
lists the forty with the most at stake; further ones that were seen and are covered
by no property: a chosen inline value beside an operation of the proxy core
(`BOT/app.py:593`), a `pip install` that fails half way
(`BOT/update.py:898`), the immediate restart that races the answer
(`BOT/update.py:917`), misses that are never reset where blocking is off
(`Storage/remote/sub_server.py:150`), the ids of removed inbounds that are used
again (`BOT/xray.py:1272`).

## 2. Modules

Every module is parameterised; its assumptions on the constants are named and
kept as weak as the proofs and the code allow. Texts, formats and payloads are
model values or members of small sets, logging is left out, and durations are
ticks: a timer is a countdown or an age that is counted no further than anything
looks, so there is no clock to bound. `PROJECT.json` maps every definition to its
lines; names follow the code where TLA+ allows.

### 2.1 Composition

| module that is run | parts | how they are composed |
| --- | --- | --- |
| `ActionGate` | and `SerialJobs`, which it implements | one state machine |
| `XrayAgent` | | one state machine, any number of agents |
| `HoneypotGuard` | | one state machine of threads |
| `SubThrottle` | | one state machine of threads |
| `SubsPush` | bot, agents, host | one state machine |
| `HostAgents` | `SshAgent`, `Fail2banAgent`, `DdosAgent` (anti flood; scans), `RelayGuard`, `Decoy` | disjoint: see below |
| `BotMemory` | `Limiter` (budgets; the claim), `FreeTurn` (engine and links; traffic), `NotifyCentre`, `InlineValues` | disjoint |
| `XrayPanel` | `PanelPorts`, `PanelLinks` (registry; one inbound and its link), `PanelKeys`, `Scanner`, `SubServe`, `CoreFetch` (install; tunnel) | disjoint |
| `Deployment` | `Updater` (self-update; reinstall), `Lookups` (releases, refs; script cache), `Setup` (wizard; bootstrap; form) | disjoint |

Some modules hold two parts, one after the other, each with its own constants, variables
and next-state relation: those are disjoint too. Disjoint parts read and write no variable of each other, so a step of one changes
nothing another one sees, and an interleaving of two satisfies the properties of
each exactly if each alone does. Instead of multiplying state spaces that cannot
influence each other, the first state picks a part (`focus`) and only that one
moves; the others keep an initial state. Where parts of the program do touch
each other, they are one state machine: the gate with its agents, the push with
the agents and the service, the guard with the repair behind it, the ports of the
bot with those of the inbounds, the FreeTurn panel with the engine and the
subscription that serves its links.

### 2.2 `ActionGate`, `SerialJobs`: the gate of the bot

`ActionGate` has one value of `stage` for each button: idle, loading (the
screen is awaited), task (created and not yet started), waiting (in the FIFO
queue of the lock), running (the route, under the lock), settling (after the
route, still under the lock). `Tap` is the admitted part of `on_callback`;
`TurnAway`, `Enqueue`, `Acquire` are the start of `handle_callback`; `Stuck` is
the timeout of `run_callback`; `Settle` releases the lock and runs `finish`,
between which asyncio does not switch. `agents` are child processes that
somebody awaits, `orphans` those left by a cancelled route. `InputStart` is the
path of inline values: a marker message looks at the flag, a chosen result
does not. `Tick` cannot pass a step the event loop takes at once.

`SerialJobs` is what the rest of the bot relies on: jobs are accepted, may be
dropped, execute one at a time, and end. `ActionGate` implements it under the
mapping `JobOf`.

### 2.3 `XrayAgent`: the root agent of the proxy core

Each agent process has a program counter; a step is what can be interrupted or
fail on its own: download, opening the binary for writing, copying, the test of
the configuration, the backup, the write, `systemctl stop`, `systemctl start`,
the verdict, the restore. The variables without an index are what outlives the
process. A kill can come between any two steps, the core can crash, systemd
restarts it, the host can reboot.

### 2.4 The daemons: `HoneypotGuard`, `SubThrottle`, `SubServe`

`HoneypotGuard`: listener threads accept, ask the guard for a slot, start a worker;
workers read, answer, log, and give the slot back in their `finally` clause. The
failure of `Thread.start`, which nothing catches, is a step: it ends the listener
and keeps the slot.

`SubThrottle`: a worker per slot. `Throttled` is the whole of `throttled()` under
its lock: the bucket is counted, judged, and the table swept, idle buckets first and
then the longest unseen. `Miss` and `PlainOk` record the answer later, when other
workers have run. The history remembers one address, `Watched`: whether it is
still blocked, whether it has stayed in sight of the table.

`SubServe`: what a request that is let in is answered with. `Stat`, `Open` and `Load`
are the three looks of `read_registry` at a file that the agent may replace,
damage or remove between any two of them; the cache is keyed by the stamp of
the file that was looked at first. `ClientIp` is the address behind a proxy,
`Payload` the cut of the links to the budget of an answer.

### 2.5 `SubsPush`: from the state of the bot to the subscription server

The holder of the action lock is one `job`: a route that installs the server and
hands it a registry (`Apply`), that stops it (`Stop`, `TunnelOff`), or the push
that `run_callback` adds to a route of the proxy core (`push`, then `pushing`
while its agent runs). `cfg` is what `sub_registry` would render at this moment;
`Input` changes it beside the job, as inline values do. `agents` holds the
agent processes with the registry each was given and whether another one
lived beside it. The host is the registry file, the program of the server, its
unit, the running server, the service systemd wants to run, and a `stranger`:
another program that listens on one of the ports. The agent stops a server by
calls that may fail unseen (`Halt`), and starts one by a `systemctl restart` that
answers before anything listens (`SyncStart`); it then looks for ten seconds and
answers ok in any case (`SyncBound`), while systemd goes on trying (`Respawn`).

`CallTimesOut` is the time limit of a single call, which kills the child and may
leave the agent under `sudo`; `RouteTimesOut` is that of a route, which
the two routes with two calls can reach; `BotRestarts` loses the digest and ends the
agents with the bot. The history `handed` has the registries that agents were given
and that the remembered digest does not stand for: by `subs_apply`, by a push that failed,
or by one that overlapped the recorded push. `FileIsKnown` says that the file is the
remembered registry or one of those; that a skip is then right does not follow, and run
`subs_skip` shows that it is not.

### 2.6 `HostAgents`: the agents that guard the host

* `SshAgent`: the steps of `apply` (the look at the keys, the previous drop-in,
  write, test, restore, restart) with a kill between any two, the bot's own earlier
  look, and edits of the main file, of keys and accounts by the administrator, which come
  between any two steps. Keys may go after the agent has looked and before sshd is
  restarted (`revoked`): `KeyBehindNoPassword` says that this is the only way to be locked out.
* `Fail2banAgent`: `install` up to the reload of each jail, the shared chain with its
  exemptions before its drops, `ban`, `unban`, `uninstall`, and a fail2ban server
  that starts the action of each jail, restarts and is halted. The ports of sshd
  may move between two installs.
* `DdosAgent`: check, write, drop the table, load, unit; the engine port the rules
  let through may move; a boot loads the file if the unit is enabled. Then the port scan
  and the trace, each with the limit of the agent and that of the panel, which leaves the
  agent alone.
* `RelayGuard`: the three firewall backends as lists of tool calls that can fail or be
  cut off one by one, and the repair every probe makes, as a second agent that may be at
  work between any two calls of the first. They edit the list that holds the rules of ssh
  and of the other modules too. A listing is read once and gives the numbers of the lines
  to delete, of every line that names the number of the port (`MentionsPort`); one that
  fails reads as empty (`Unread`). `Judged` is the decision of the repair. Edits are
  recursive functions on the places of a list, so they can be proved about. What a guard
  that worked was asked for is kept in `asked`, through failing calls of a repair, kills and
  boots; a guard of which a call failed, or that had another agent beside it, promises
  nothing of its port, and on iptables of none, since all share one chain.
* `Decoy`: the commands of the honeypot agent and the daemon they start, with ports
  that another program may hold, and a file that is opened and filled in two steps.

### 2.7 `BotMemory`: what the bot keeps between two messages

* `Limiter`: ages of windows and of silence, counts, the sweep with its two
  halves, and the replay mark. The history `let` says how many taps were let in at
  each of the last ages, so a property can speak of any span and not only of the
  windows of the code. Then the claim in the first minutes of a start, the save as a
  file beside the state file that is moved over it, a crash between the two, a damaged file.
* `FreeTurn`: the script cache with its pinned digest, the engine the script owns, its
  clients, and the links the panel keeps and the subscription serves. A `call` is one
  agent: the digest is looked at (`Send`), bash opens the file (`Run`), the bot hears
  (`HearEngine`, `HearClient`, `HearRest`) or gives up. There are up to three: of a
  route, of a typed name beside it (`BOT/app.py:593`, outside the lock), and one that was
  given up. `remember_link` changes the table of the panel and never saves it; a later save
  by anything else does. `stray` names the clients whose link is older than the engine, and
  why: not saved before a restart, or learned from an answer that a new key or a removal
  had overtaken. The transport of a link is left out. TLC looks at the script
  (`ScriptNext`) and at the links (`TurnNext`) in two parts, which share the calls. Then the
  traffic: counters that belong to a key and start anew with the interface, added up by
  name; every screen that refreshes them, and new days.
* `NotifyCentre`: the poll in its stages, the switches, the cooldowns, and the tables
  that are cut when they are full.
* `InlineValues`: tokens with the secret of the process, the two deliveries of a
  pick in any order, the window in which the second one is dropped, restarts.

### 2.8 `XrayPanel`: the panel of the proxy

* `PanelPorts`: a port is looked for, offered and stored in different messages; the
  listeners of the server change; `apply` moves the bot's own ports, of which
  one has a second copy.
* `PanelLinks`: the clients and their pairs of segments, the path of the
  subscription, the registry that was built, sent and is served. The service has to come
  up after an ok (`ServiceRuns`), and one whose port another program has is answered ok and
  left as it was (`xray_agent.py:1266`). The state file may say that the tunnel is on
  (`xray.py:1248`): the button alone never turns it on, see `tunnel_name` below. Then one
  inbound: `Server` is what the core is configured with, `Link` what the client is told;
  `Opens` says when the one opens the other.
* `PanelKeys`: encryption, halves of a signature, target, with keys that arrive when
  the panel has moved on.
* `Scanner`: targets, the tasks a list unfolds to, connections of a task to machines
  that differ, rows that are deduplicated and ranked.
* `CoreFetch`: the install button: the latest release, the pinned one, the live one,
  archives with and without a digest, and what the screen then says. Then the tunnel: the
  name the owner types, the packages, `tailscale up` and the funnel.

### 2.9 `Deployment`: how the bot comes to a host and stays current

* `Updater`: `head` and `tree` are kept apart, because a reset that is killed leaves
  files of no commit. A command whose update was given up by the gate becomes an
  orphan and ends later; git's lock of the index is modelled (`IndexFree`).
  `StartBot` is any restart: it kills what was being written. `Verify` is the look at
  the marker at the next start. Then the reinstall: `get.sh` and the install script as jobs
  of a transient unit, of a child of the bot or of a child that was given up, with a bot that
  is run by its unit, by hand, or from another tree. `sole` says that no script of an earlier
  one was still at work when the reinstall began; one that is over counts no more.
* `Lookups`: threads that ask for the latest release with the ETag they have seen, two
  caches with terms of their own (`told` is what was answered since the clock last ticked,
  so `FreshTag` speaks of a state). An answer without an ETag is kept under the ETag before
  it, and `misled` says that a 304 for that one has brought it back. A `git fetch` starts,
  reads the branch and ends at different times (`FetchStart`, `FetchReads`, `FetchEnd`), its
  term starts at the end, and one that was given up runs on. TLC looks at the two halves in
  two parts (`ReleaseNext`, `CommitNext`): they share nothing but the clock. Then the cache
  of the install script: `record` is the report the panel keeps, `shown` the one that the
  message with the button shows. They differ when the drawing of a screen failed
  (`DrawFails`), and a press fetches what `record` says.
* `Setup`: the screens of the wizard, the plan they build, the env file it writes, and
  the install script as a sequence of stops, copies, removals and checks that may die
  at any of them.
  In the same module, with variables of their own, the two other ways into the same
  installation: the bootstrap (push, dependencies, confirmation, verification,
  finalisation, run again over what an earlier run left) and the form that starts a
  wizard (bytes that arrive in pieces become keys, keys fill the fields).

## 3. Runs

The properties of several parts are conjunctions of named ones (`OneAtATime`,
`UpdateIsSafe`, `PortsAreApart`, `KeysFit`, `RowsAreRight`, `AnswersAreRight`,
`InstallIsTrue`, `BansHold`, `GuardHolds`, `ScansHold`, `EngineIsTrue`,
`WizardIsTrue`, `FormsAreTrue`, `BootIsSound`, `NewsIsFresh`): what one part
promises, in one place. Each conjunct is a definition of its own with its comment.

Every module has a type invariant. Those of `ActionGate`, `XrayAgent`, `HoneypotGuard`,
`SubThrottle`, `SubsPush` and `Updater` are theorems; the others are parts of `TypeOK`
of `HostAgents`, `BotMemory` and `XrayPanel` and of `AllTypeOK` of `Deployment`. Put behind `INVARIANT` in the cfg
of the run each holds on the same instance; the runs below spend their time on
the properties.

### 3.1 Runs that hold

Distinct states and seconds are those of TLC with two workers.

| run | module | states | s |
| --- | --- | --- | --- |
| `actions` | `MCActions` | 214 488 | 47 |
| `honeypot` | `HoneypotGuard` | 273 552 | 70 |
| `subs_push` | `SubsPush` | 1 838 352 | 185 |
| `host_agents` | `MCHostAgents` | 2 727 436 | 125 |
| `bot_memory` | `MCBotMemory` | 1 590 183 | 110 |
| `xray_panel` | `MCXrayPanel` | 3 591 308 | 130 |
| `updater` | `MCDeployment` | 1 616 867 | 79 |

| run | shows | bounds, and why they are enough |
| --- | --- | --- |
| `actions` | gate: routes exclude each other, the busy flag is never left behind, a second operation is refused while the flag lives, awaited agents are serial (`OneAtATime`); every admitted tap ends; refinement of `SerialJobs`; root agent: files stay tested under kills, crashes and reboots; the rollback restores the previous file; an ok means the payload runs | two operations, one navigation button, one marker and one chosen inline value: enough for a waiter behind a waiter, for a flag overwritten by another operation and for an agent beside a route; three taps per unit of time (`TapLimit`), so that drops happen; `BusyTtl` 4 and `ActionTimeout` 1, the proportion of the code's 900 s and 240 s, so that a queue of routes can outlive the flag but a single route cannot; one agent at a time, three payloads of which one is rejected: the previous file, the new file and a bad one are all different |
| `honeypot` | limits, exact counters, and every slot comes back | two ports, four connections, two addresses, three slots, two per address: each limit can be reached while the other is not |
| `subs_push` | the file is the registry the digest stands for or one handed to an agent since; an ok of an undisturbed agent means its registry in the file and a service that systemd keeps on its port; every route and push gives the lock back | one set of links and two ports, so two registries; one port may be held by another program; two agent processes, that is one that was left behind beside one that is awaited |
| `host_agents` | ssh: without a key left behind a password login that is off, but for keys taken away after the look; fail2ban: nothing is dropped that no jail bans, and sshd stays reachable; anti flood: a failed load leaves the old rules or none; relay firewall: no service is cut and a narrowed port stays narrow, but for a line that names the engine's number and in the cases that `relay_nft` shows, after two agents at once on ufw, and after a listing that failed; decoys: an install answers for the ports it was given; scans: they end and are shown whole or not at all | one key and two accounts; two addresses, a plain jail and one with lasting bans; two engine ports; three commands of guard and repair, beside each other (`Beside`) or in a row, with one fault, on iptables, firewalld and ufw, each with nft; two services, of which one has a rule that names an engine port; two decoys, three orders, one slip; two hosts with two ports, a time that suffices for half of them |
| `bot_memory` | budgets: two windows less one tap in any span; claim: never two owners; engine: runs only what was pinned, and links open it when nothing is on its way, but those of `stray`; traffic: no more than passed; notifications: none twice; inline: a pick takes effect once | three keys and a table for two; two people, three starts, two slips; one client beside the owner, one fault, two changes of files and three generations of clients and keys, with a route, a typed name and an agent that was given up at once; three bytes, two days, two resets; three addresses with tables that are cut at one ban; one field, two values, two picks, one restart |
| `xray_panel` | ports stay apart; the link on the screen is served; keys fit; rows are the best of what answered; a link opens its inbound; answers are right for a moment of their request; the core in place was checked, and no list of packages is left without its key; throttle: misses stay bounded although check and count are apart; a block holds as long as its address is in sight | seven ports of which three are the bot's; two inbounds, two names; four pairs of keys; two names and a subnet, with two machines behind one; two requests over three files; three installs over two releases and one below the floor; two agents of the tunnel; for the throttle three addresses, two workers and a table for one, so every second address overflows it; blocks of 1, 2 and 4 ticks, the last longer than the idle limit of the sweep (2), so the sweep can meet a block that still runs |
| `updater` | self-update: only compiled targets are restarted into or marked pending, an update that says it has not updated has not moved the checkout; news are no older than their term and what it took to ask; a press on a screen that shows the last check fetches what it saw; a reinstall that is done has installed, one that says it has copied has copied; the wizard's words are true and nothing is lost unasked; a bootstrap starts a whole tree for the one who named himself; keys arrive whole and forms are valid | two good commits with different requirements and a broken one; at most two orphan commands, since one reset and one package installation are the two kinds; two threads, two tags and a request that may last two ticks, so that an answer can outlive the terms of the one it is merged with; a fetch that may last two ticks with a term of one, as in the code the fetch (180 s) is the longer one; two scripts and three quirks; three confirmations; one way back from the review and every kind of host and disk; two bootstraps; three keys |

Liveness is checked in `actions`, `honeypot` and `subs_push`; action properties in
`actions`, `host_agents`, `bot_memory` and `updater`; a refinement in `actions`. `MCActions`
puts `ActionGate` and `XrayAgent` side by side, and `MCXrayPanel` the throttle beside the
panel: parts that share no state, of which the first state picks the one that moves.

### 3.2 Runs that show a disagreement

Each finds a behaviour of the code that a sentence of the repository denies;
`PROJECT.json` quotes the sentence under `findings`.

| run | sentence | what happens |
| --- | --- | --- |
| `gate_orphan_agent` | one destructive action runs at a time | the agent of a cancelled route runs on beside the next |
| `xray_start_failure` | a failed core start rolls back | the failure of `systemctl restart` leaves the command before the rollback |
| `tunnel_name` | the hostname must look like obhod.tail1234.ts.net | the panel takes only a name with dots and the agent only one without: the button never turns the tunnel on |
| `subs_skip` | the bot pushes the registry after every change | a push fails after its write, the change is taken back, and the push of the remembered registry is skipped although the file differs |
| `relay_nft` | VK mode drops everything else | a repair accepts the port in the native chain, ahead of the rules of ufw |

### 3.3 Fairness

* `ActionGate`: weak fairness on the jobs of the event loop and on time. The loop
  runs every ready task, and nothing blocks it. Nothing is assumed of
  taps, nor of agents, which may hang for good; `AdmittedEnds` rests on
  the timeout and on the FIFO lock.
* `HoneypotGuard`: weak fairness on workers, whose every wait has a socket
  timeout, and on a listener that has a connection in hand. Peers need not send
  anything.
* `SubsPush`: weak fairness on what the event loop resumes (`Resumes`): answers,
  the time limit every call has, and the steps of a job without an agent.
  Agents may hang for good and nobody needs to tap.
* Both that and `ActionGate` take for granted that Telegram answers: the renders outside
  `wait_for` (`BOT/app.py:813`, `:875`, `:891`) have no time limit in the bot, and one that
  never returned would keep the lock. The error screen (`:875`) is not a step of its own.
* All other modules state safety only; their actions may stop at any point,
  which is how a kill or a hang looks.

`CHECK_DEADLOCK FALSE` is said where the system really may stop: of the honeypot,
whose bounded set of connections is used up or whose listeners have all ended,
and of the composed runs, where a wizard is over, a script has died, or the
bound of a part is used up.

## 4. Theorems

The proofs are in `<module>Proofs`, those of the gate and of the root agent in
`ActionProofs`, those of the two daemons in `DaemonProofs`; `RecursionLemmas` has what
several of them need of recursive functions. None assumes more than the named
assumptions of the constants, except where said. Every invariant and every action property
that a passing run checks is proved, the refinement of `SerialJobs` too; what stays with
TLC is liveness.

| module | proved | argument |
| --- | --- | --- |
| `RecursionLemmas` | `SetHasLeast`, `UpTo`, `RecursionExists`: lemmas, used by `DeploymentProofs`, `HostAgentsProofs` and `XrayPanelProofs` | The induction theorems of the library take an operator, which no prover here can instantiate. A set of naturals is an ordinary argument: that it is not empty gives it a least element (`WFMin`), hence induction over a set, and from it that a function defined on 0..N by recursion exists. |
| `ActionProofs`, of `ActionGate` | `GateTypeCorrect`, `OneThingAtATime` with its parts `RoutesNeverOverlap`, `FlagIsNeverLeftBehind`, `SecondIsRefused`, `AwaitedAgentsAreSerial`; `GateImplementsSerialJobs` | `GateInv`: to the three invariants it adds that, before any lapse, every operation in flight sees the flag set. Without it a drop or a settle could clear the flag of a second operation. The refinement takes each action to a step or a stutter of `SerialJobs`, using exclusion for `Start`. |
| `ActionProofs`, of `XrayAgent` | `TypeCorrect`, `FilesStayTested`; with a single agent `RollbackRestores`, `OkIsLive` | `FilesInv` adds that an agent between test and write carries an accepted payload. `ApplyInv` follows one apply through its steps and says what the disk and the core hold at each. Its premise `Alone` is needed: two agents share one backup. |
| `DaemonProofs` | of `HoneypotGuard` `GuardTypeCorrect`, `NoSlotIsLost`, `OpenStaysWithinLimits`, `EveryTouchIsLogged`; of `SubThrottle` `TypeCorrect`, `MissesStayBounded`, `BlockIsKept` | `GuardInv`: the counters equal the cardinality of what is held, and open connections are among them. `MissInv` counts the misses of an address with its requests in flight, which only `Throttled` may increase and only below the step. `BlockInv` remembers that an address in sight survives the sweep. |
| `SubsPushProofs` | `TypeCorrect`, `FileStaysKnown`, `OkIsServed` | `PushInv` follows an agent that nobody overlapped: from its write on, the file is what it was given; before its start, the unit has its port, and after it systemd keeps the service on that port; a server that is up is the one systemd wants. And what an agent has yet to write is the remembered registry or one that was handed out since. An agent that starts beside another ends the `alone` of both, so each claim is about the steps of one agent. |
| `DeploymentProofs` | of `Updater` alone `TypeCorrect`, `UpdatesAreSafe` with its parts `PendingWasCompiled`, `RestartIsChecked`, `FailureStays`; of all of `Deployment` `DeployedSafely`, `NewsStaysFresh`, `FetchesAreConfirmed`, `DoneWasInstalled`, `WizardStaysTrue`, `BootsAreSound`, `YesIsForValidFields`, `FormsAlwaysTrue` | `UpdateInv`: past the reset, the checkout is at the target and no orphan holds the index; past the compile, the target is not broken. `UpdaterPart` then shows that every step of the whole is a step or a stutter of the update. `NewsInv` pairs the age of an entry with the age of its answers under way: a request adds at most `Slow` to a term. `FetchInv` does so for a head that was read and not yet stored: it is as old as the fetch has run since, and the fetch has its limit. `CacheInv`: an agent was given the digest of the record its press was made from, and if the message showed that record, what the message listed. `ReinsInv` follows the script of a reinstall that began alone, with what was copied, said and placed by then. `WizardInv` has three parts: the plan agrees with the answers given so far (`PlanTyped`), what is on the disk before the installer runs is what was found (`Settled`), and each step of the installer knows what the ones before it have done (`JobInv`). `BootInv` ties the tree and the configuration to the step of the run. `ReaderInv`: what has arrived followed by what has not is the bytes of the keys that were pressed and not read. The bytes of a list of keys are a recursive function, and the reader takes exactly one key off their front, for lists of any length. |
| `HostAgentsProofs` | `PasswordKeepsAKey`, `BansAlwaysHold`, `FailedLoadPutsBack`, `InstallIsOnItsPorts`, `ScansAlwaysHold`, `GuardAlwaysHolds` | `HostInv` has one part for each agent, and a step moves one part. ssh: where a drop-in without passwords is written or in force there is a key, unless keys went after the look of the last agent that was to switch it off, and the file that a failure puts back is one that was in force. fail2ban: every drop is of a banned address behind the exemptions, and rules are taken away before the bans they stand for. anti flood: while a load runs, the saved rules are those of its start. decoy: past its write, an order has its ports in the settings, and the daemon was told what they say. scans: how long an agent has looked and how much it has found move together. relay firewall: `RelayInv` is about the calls an agent has still to make, whichever are left. `RulesInv`: none of them takes away the rule of a service that shares no number with the port, and deletions by number name lines that name the port and go from the highest down; no line moves between a listing and its deletions as long as one agent is at work. `VkInv`: while every call of a guard has worked and no other agent came beside it, what is in force and what is left narrow the port together, said for each firewall of its own. `NarrowHeld`: a port that was narrowed stays so until a guard is asked for it again. `HealCalm`: a repair that is about to open a port repairs none that is narrowed. The invariant of the steps is `SafeInv`: that, or ufw has seen two agents at once. |
| `BotMemoryProofs` | `TwoWindowsAtMostAlways`, `OneOwnerAlways`, `EngineAlwaysTrue`, `CountsAlwaysReal`, `NeverRepeats`, `PicksApplyOnce` | `OwnerInv`: whoever is obeyed is in the memory of the bot, in the file that a save carries or in the state file, and these never name two people. `ScriptInv`: what is cached or carried to bash has the pinned digest. `BudgetInv`: a bucket has counted what was let in since its window began, the tap that opened the window is as old as the window, and at most a window less that tap was let in before it, in the span before a sweep forgets. `CallsInv`, `PanelInv`: an answer that is not overtaken tells the links of the engine as it is; a link of the table is true, or the answer that replaces it or takes it away is on its way, or its name is in `stray`, or an answer was lost. `TrueHistory` with `PeersInv` counts what passed since the last reset, name by name. `CentreInv`: an event that is still quiet is remembered with its age, and events of a kind are as far apart as its cooldown, so what is still quiet fits into what the table keeps when it is cut. `TokensInv`, `TalliesInv`: a pick that was applied is in the window in which its second delivery is dropped. |
| `XrayPanelProofs` | `PortsStayRight` (under `Room`), `FreshLinksServed`, `KeysAlwaysFit`, `RowsAlwaysRight`, `LinksAlwaysOpen`, `AnswersAlwaysRight`, `InstallsAreTrue` | A step moves one part, so each part has an invariant. `PortInv`: lit inbounds have ports, files are whole, and a count: the slots and the strangers cannot take all ports. `LinkInv`: since the registry was built, it is on its way or is what is served, on its port if that was to be had. `KeyInv`: only reality waits for a signature, and a waiting switch has looked at the chain. `ScanInv`: a task that is done has a row whose verdict is that of its answers, and the rows are the best of what they were chosen from. `WireInv`: the halves of each pair belong together. `ServeInv`: what a request or the cache holds was at the path no earlier than its stamp says. `FetchInv`: what a job has been through before it is where it is. |

A listed theorem is a theorem of a specification, of the form `Spec => []Inv` or
`Spec => Property`, where the specification is that of the module, of the composition
(`HostAgents`, `BotMemory`, `XrayPanel`) or `Deploy`. Each invariant was first checked by TLC on
the instance of the run. `TouchIsLogged` (a connection that is over has left a line,
unless its thread could not be started) is proved and checked by no run.

What the proofs asked of the constants, beyond what the runs had used: that the model
values that stand for "nothing" (`Down`, `None`, "no tag", "no body", a page that is not a
script) are not among the values; that the panel waits for a scan no longer than its
agent looks (`PanelTime <= ScanTime`, which the code has with equality); that the
people who may claim the bot are not the states of its file; that an answer of GitHub lives at
all (`OkTtl > 0`); that the table of events is cut to no fewer than what the cooldowns let through
within the longest quiet (`Within("ssh") + Within("fail2ban") <= SeenKept`: 2 and 6 in
the code, which keeps 1024); and that services and relay networks are finite
sets, and no network is named like a word of the rules. Two definitions had `CASE` arms
that overlap, where the first one was meant and TLA+ takes any; their arms are disjoint
now.

`PortsStayRight` has the premise `Room`: more ports than twice the slots, the strangers and
four. With no port free `resolve_ports` keeps the one that is taken, so some premise
is needed; a host has 65 535 ports and a few dozen are in use. The instance of the run is
smaller (7 ports), and TLC finds the property there without the premise.

`GuardAlwaysHolds` has no premise on the constants: guards and repairs may be at work beside
each other, ufw may have nft next to it, and services may share numbers with the
engine. What fails there is named in the properties themselves. `OnlyEnginePort` and
`NarrowUntilAsked` say nothing of ufw once a guard and a repair have been at work at once
(`Lost`): each deletes by the numbers of a listing the other one outdates. `OnlyEnginePort`
leaves out a service with a line that names the engine's number, `NarrowUntilAsked` a port that
nft opened ahead of ufw (`early`) and one whose repair could not read its listing (`blind`).
Run `relay_nft` checks what the screen says of a narrowed port without the last two
exceptions and refutes it.

Other listed theorems carry exceptions of their own, which `PROJECT.json` repeats:
a claim with damaged files or failed saves (`OneOwner`), clients in `stray` (`EngineIsTrue`), pairs of
which one half was typed (`LinkOpensInbound`), scripts beside one that was given up
(`DoneIsInstalled`), messages that show an earlier check (`FetchedIsConfirmed`), answers
without an ETag (`FreshTag`), updates that end with an error (`UpdateIsSafe`), keys removed
after the look (`KeyBehindNoPassword`).

One property was wrong as it was stated. `NewsIsFresh` was said of steps, and took the
step of another thread for a repetition of the answer before it; it held on the
instance only because a request lasted one tick there, and with two TLC refutes it. An
answer is now judged until the clock ticks, and `NewsStaysFresh` proves for a request of
any length that it is younger than a term and a request.

Only model-checked, and why:

* the liveness properties `AdmittedEnds`, `SlotsComeBack` and `LockComesBack`: liveness
  under fairness is outside the prover;
* the type invariants of the parts, where no theorem rests on them (section 3);
* every counterexample.

What a `RECURSIVE` operator, a fold or `SelectSeq` with an operator as argument computes
is outside the prover too. Where a proof needed such a definition, the model says it as
a recursive function on 0..N instead (`Without` and `Deletions` of `RelayGuard`, the
bytes of `Setup`, the tasks and rows of `Scanner`), with the same meaning and the same runs.

## 5. Not modelled

* **Texts and rendering**: `strings.py`, `i18n.py`, the screens, icons and
  pictures of a menu. Nothing changes state there. The larger part of
  the lines of the repository is here and in the formats below.
* **Formats**: the JSON of `config.json`, the bytes of a QR code, the shape of log
  lines, of answers and of headers, the rules of nftables and sshd as text.
* **Watchdog**: a single pass that compares what it reads with a baseline and prints
  the differences; no state and no second actor.
* **Security log**: appends a line; the filters that read it are in `Fail2banAgent`.
* **Process start**: wires the parts and starts the loop.
* **Probes of DPI, of mobile whitelists and of nodes** (`dpi.py`, `chebur.py`): one
  request each whose verdict is shown.
* Agents on a host without systemd where the core is started as a child, and a
  `systemctl` that gives no answer when asked for a state.
* Detectors no caller reaches: `scan()`, `bruteforce()` and `silence()` of the
  notification centre.
* The trim of the replay table, the adoption of files of an older fail2ban
  installation, sysctl levels of the anti flood agent, speeds in the traffic screen.

## 6. What is left

1. What a guard of the relay firewall leaves behind when one of its calls fails, and which
   check of the code would make the next one repair it.
2. Orphans of the gate as overlapping agents of `XrayAgent`, which with `Alone`
   dropped shows which of its promises survive two agents.
3. The start without systemd.
4. Updates that end with an error or a time limit between the reset and the rollback: which
   of them the next start can still set right.

## 7. Noticed while modelling

Behaviour that surprised and that no run refutes a sentence with, by part.
Line numbers are of the files under `src/`.

**Gate and inline values.** A chosen inline value starts an agent beside the agent of
an operation: it asks neither for the flag nor for the lock (`actions` contains
it). A tap that is dropped at the lock has already put up its loading screen. The end
of an operation that timed out clears the flag a later one has set
(`BOT/app.py:824`, `:888`). The registry of tokens evicts by first insertion, so some
twenty inbounds push out the tokens of a screen that is still in use, and a list may
evict its own token; each restart makes all tokens stale, since `configure()` is never
called; ids of inbounds are used again, so an old button may write to a new
inbound. A value that failed and is picked again within 8 s is skipped silently.

**Proxy core.** Two agents that overlap share one `config.json.bak`; the
rollback of one can restore what the other wrote. This is why the theorems on the
rollback have the premise `Alone`. A running core cannot be overwritten in place.
`fetch_digest` lets its error through, so the pinned digests are never used when the
digest file is missing; an API that says nothing leads to the pinned release without
the notice of a fallback.

**Panel.** `new_inbound` keeps the first port in the tag, so tags may repeat
(`BOT/xray.py:716`). The path of the subscription changes with the first client by name
(README.md:77). A port of the bot equal to an unmoved metrics or subscription port is not
noticed; the metrics port creeps upwards (`BOT/panel.py:210`). README.md:98 says the
inbound is moved, the apply only reports it. The link of a removed client is served until
the next push. Half a typed pair of a signature is offered and breaks the link. Links
do not follow the chosen transport.

**Tunnel.** Even for a name both sides take: an `up` that fails after `tailscale up`
leaves the node joined; a failed check of the funnel leaves it on while the panel says
off; the install may take 900 s and the action is given up after 240 s; the
funnel keeps the old port when the port of the subscription moves.

**Scan of targets.** "Use" on an old screen counts in the new rows
(`BOT/panel.py:949`). A reset fills more candidates than a scan looks at, and "own target" is
then refused. The probe of one group has a wrong size, so its answer is never "yes".
Later looks resolve the name again and may meet another machine.

**Subscription.** The sweep forgets a block with its offences after two windows of
silence, so the exponential backoff (README.md:82) starts over. Serving the
links of a subscription records nothing, so it does not clear the misses that a plain
page clears. A registry that cannot be read answers 404 to good clients, whose misses
then block them; a first link over the budget is an empty answer. "The bot pushes the
registry after every change" does not hold of inline inputs, of FreeTurn buttons
whose links are in the registry, and of routes that raise or are cancelled: those
wait for the next tap in the proxy core panel. A registry for a port that
is taken is answered with ok while the server keeps its old port
(`xray_agent.py:1267`), and any ok may come before the server listens (`:1282`).

**Honeypot.** The bot hands the agent over as `python -c`, where `__file__` is undefined
(`honeypot_agent.py:531`): an install by button fails after its configuration is
written. Its answers, and those of the anti flood agent, lack the number of the
protocol, so the bot shows an error for each and neither raises notifications.
"Running" is any open port, whoever opened it. The daemon writes several log lines
for a connection that sends credentials.

**Anti flood and firewall.** The exposure check lists nothing (`ddos_agent.py:747`). On ufw a
guard and a repair that run at once delete by the numbers of listings that the other one
has outdated, and may take away the rule of ssh (`freeturn_agent.py:1029`). A repair whose
listing fails reads it as a closed port and opens it (`:576`, `:1451`). The codes of the tools
are looked at by nobody, so a guard of which half the calls failed reports as any other.
`ufw_clear` deletes every line in which the number of the engine occurs anywhere
(`mentions_port`, `:1015`), so a rule of another port that names it in a comment or as its
source goes too. `vk_cidrs` keeps a partial list for a day. `iptables_clear` flushes the chain all ports
share.

**Scans.** The limit of the panel (120 s) equals that of the agent, so a scan that is cut
short is always dropped and the agent goes on alone. `net.py` lets 512 ports pass and
`FtControl.net_scan` refuses more than 128. A host whose time ran out still gets a row.

**Limiter.** A window starts with a tap, so a span as long as a window can let in
two windows less one tap; README.md says "per minute". `REPLAY_WINDOW` is one second where
the documentation speaks of two.

**FreeTurn.** A removed client keeps its link in the table of the panel until the engine is
heard again. A typed name is added beside a route (`BOT/app.py:593`): an apply with a new key
that is heard first leaves the added client with a link of the old key. `remember_link`
compares the table with itself after it has changed it and never saves
(`BOT/ftpanel.py:607`), so a client that was removed and added again is served its old
link after a restart. bash opens the script
after its digest was looked at (`freeturn_agent.py:288`, `:495`), and an answer that does not come
from the sandbox makes the agent run it a second time.

**Notifications and traffic.** A second centre keeps an old switch (`BOT/app.py:114`,
`:139`). Bans that are muted or cooled count as announced and are lost. After a
restart the history of a client may be lost (`BOT/ftpanel.py:446`).

**Caches and lookups.** `new_etag or etag` pairs an old ETag with a new body; a later
thread overwrites a newer answer; a release that differs from the tag is offered even
when it is older. Every cached copy of the script is listed under one name and the
merge keeps the oldest, so a fetch that succeeded still reads "changed remotely". The
scripts screen shows the digest of the cached copy of a script that changed, not that of
the copy it would fetch (`scripts.py`, `short()`), so what is confirmed is that there is a
change. A check that saw nothing upstream lets the fetch take any script. `scripts_fetch` takes the
digest of the last check (`BOT/dbg.py:544`): where the screen of a second check did not come
through, the button of the first fetches what it never listed. Nothing
removes old copies though `strings.py:1387` says so.

**Updater and reinstall.** A `git clean` that runs out of time after HEAD has moved is one of
the errors of `Reset`, which does not tell it from a reset that failed. A compile that runs out of time, or a cancelled update, leaves a
tree that does not compile (`BOT/update.py:879`). Packages that a failed `pip install` has
changed stay when the files go back. `confirm` names a commit and `go` fetches again. The
transient unit of a reinstall has neither credentials nor a terminal, so `get.sh`
ends at once while the answer says that it runs; a child reinstall is in the bot's
control group, so stopping the bot ends it. `installer_report` takes "could not be copied" for the mark "copied " of a copy that is done
(`BOT/update.py:307`), and the screen says that the fresh tree is in place. `_restart` calls `detached([])`, which fails,
and two restarts follow (`BOT/update.py:847`).

**Installer.** `--purge-all` deletes the env file just written; a repair in its own tree
removes the bot (`obhod-install.sh:598-601`); "back" from the quick update turns into an
install; an install that fails at pip leaves the bot down. `admin_id` 0 is refused by the
bootstrap though `validate` says claim (`BOT/bootstrap.py:85`).
