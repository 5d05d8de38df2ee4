----------------------------- MODULE Fail2banAgent -----------------------------
(***************************************************************************)
(* The fail2ban agent (Storage/remote/fail2ban_agent.py) and the calls of  *)
(* the bot that drive it (app.ban_action, guard.GuardClient).              *)
(*                                                                         *)
(* install writes an action, filters and jails for fail2ban, has them      *)
(* tested and makes the server read them; every jail of obhod bans through *)
(* one shared iptables chain, in which the ports of sshd come first and    *)
(* return.  fail2ban itself is external: it starts the action of each      *)
(* jail, keeps the bans of a jail in its database and runs the commands of *)
(* the action for each ban.                                                *)
(***************************************************************************)
CONSTANTS
    Jails,      \* the jails that ban through the chain
    Lasting,    \* those uninstall() does not name when it lifts the bans
    Ips,        \* addresses
    Port22,     \* the port of an sshd whose files name none
    SshPorts,   \* the ports the files of sshd can name
    SubPort,    \* the port of the subscription server, which the bot passes
    None        \* no file, no server, no rule

JailConstants ==
    /\ Lasting \subseteq Jails
    /\ \A ports \in SUBSET (SshPorts \cup {Port22, SubPort}) : ports # None

VARIABLES
    sshFiles,   \* the ports named by sshd_config and its drop-ins
    actionFile, \* the exempt ports in the action file, or None
    jailFile,   \* whether the jail files are in place
    server,     \* the exempt ports fail2ban runs the jails with, or None
    returns,    \* the ports the chain returns, or None: no such chain
    hooked,     \* INPUT jumps to the chain
    drop,       \* for each address None or the ports returned before its rule
    bans,       \* the addresses each jail has banned
    at,         \* the next step of the agent
    exempt,     \* the ports install() has read
    reset,      \* the bot goes on with an install after this removal
    enabled,    \* fail2ban_enabled in the bot's state
    moved,      \* history: the ports of sshd changed after install() read them
    said        \* the last answer

chain == <<returns, hooked, drop>>
written == <<actionFile, jailFile>>
bot == <<reset, enabled>>
banVars == <<sshFiles, written, server, chain, bans, at, exempt, bot, moved, said>>

AllPorts == SshPorts \cup {Port22, SubPort}

\* ssh_port: every port the files name, or 22.
Listened == IF sshFiles = {} THEN {Port22} ELSE sshFiles

BanInit ==
    /\ sshFiles \in SUBSET SshPorts
    /\ actionFile = None /\ jailFile = FALSE
    /\ server = None
    /\ returns = None /\ hooked = FALSE /\ drop = [i \in Ips |-> None]
    /\ bans = [j \in Jails |-> {}]
    /\ at = "idle"
    /\ exempt = {}
    /\ reset = FALSE /\ enabled = FALSE
    /\ moved = FALSE
    /\ said = "none"

\* exempt_ports: and the port the bot has passed.
Exempt == Listened \cup {SubPort}

Banned == UNION {bans[j] : j \in Jails}
Returned == IF returns = None THEN {} ELSE returns

Goes(from, to) == at = from /\ at' = to /\ UNCHANGED said
Says(from, word) == at = from /\ at' = "idle" /\ said' = word

-----------------------------------------------------------------------------
(* The commands of the action file, as fail2ban runs them.                 *)

\* Rules that are there are not added again, so a port that is new returns
\* after the rules of the addresses that were dropped before.
ActionStart(ports) ==
    /\ returns' = Returned \cup ports
    /\ hooked' = TRUE

\* actionban: one rule for an address, whichever jail asks for it.
ActionBan(i, ports) ==
    drop' = [drop EXCEPT ![i] = IF @ = None THEN ports ELSE @]

\* actionunban takes the one rule away.
ActionUnban(i) == drop' = [drop EXCEPT ![i] = None]

\* The server stops: the bans of every jail are lifted, then the hook goes; the
\* chain stays, for the rules that return are still in it.
Stopped == [i \in Ips |-> None]

\* Jails start in turn and put back the bans of the database.
Served(ports, held) ==
    /\ server' = ports
    /\ returns' = Returned \cup ports
    /\ hooked' = TRUE
    /\ drop' = [i \in Ips |-> IF i \in held THEN Returned \cup ports ELSE None]

\* A variation: the running jails are not stopped first.
ServedOver(ports, held) ==
    /\ server' = ports
    /\ returns' = Returned \cup ports
    /\ hooked' = TRUE
    /\ drop' = [i \in Ips |-> IF drop[i] # None \/ i \notin held THEN drop[i]
                              ELSE Returned \cup ports]

Halted == server' = None /\ hooked' = FALSE /\ drop' = Stopped /\ UNCHANGED returns

\* The server reads its files again: reload, or a restart when that fails.
Reread ==
    IF jailFile /\ actionFile # None
    THEN Served(actionFile, Banned)
    ELSE Halted

-----------------------------------------------------------------------------
(* install.                                                                *)

Install ==
    /\ at = "idle"
    /\ at' = "ports"
    /\ said' = "none"
    /\ reset' = FALSE
    /\ UNCHANGED <<sshFiles, written, server, chain, bans, exempt, moved, enabled>>

\* A variation: only the main file is read, as the ssh agent does.
ReadPortsOfMain ==
    /\ Goes("ports", "action")
    /\ exempt' = {Port22, SubPort}
    /\ moved' = FALSE
    /\ UNCHANGED <<sshFiles, written, server, chain, bans, bot>>

\* The ports of sshd and the one the bot has passed; what is missing on the
\* host or out of range ends the call here.
ReadPorts ==
    /\ \/ /\ Goes("ports", "action")
          /\ exempt' = Exempt
          /\ moved' = FALSE
       \/ Says("ports", "refused") /\ UNCHANGED <<exempt, moved>>
    /\ UNCHANGED <<sshFiles, written, server, chain, bans, bot>>

\* Each file is replaced in one step; a file that cannot be written ends the
\* call.
WriteAction ==
    /\ \/ Goes("action", "jails") /\ actionFile' = exempt
       \/ Says("action", "write_failed") /\ UNCHANGED actionFile
    /\ UNCHANGED <<sshFiles, jailFile, server, chain, bans, exempt, moved, bot>>

WriteJails ==
    /\ \/ Goes("jails", "test") /\ jailFile' = TRUE
       \/ Says("jails", "write_failed") /\ UNCHANGED jailFile
    /\ UNCHANGED <<sshFiles, actionFile, server, chain, bans, exempt, moved, bot>>

\* fail2ban-client -t, a second time with the journal when no auth log exists.
\* The files stay where they are when they are rejected.
Test ==
    /\ Goes("test", "reload") \/ Says("test", "config_invalid")
    /\ UNCHANGED <<sshFiles, written, server, chain, bans, exempt, moved, bot>>

Reload ==
    /\ \/ Says("reload", "ok") /\ Reread /\ enabled' = (enabled \/ ~reset)
       \/ /\ Says("reload", "start_failed")
          /\ Halted \/ UNCHANGED <<server, chain>>
          /\ UNCHANGED enabled
    /\ UNCHANGED <<sshFiles, written, bans, exempt, moved, reset>>

-----------------------------------------------------------------------------
(* uninstall, set_ban and the rest of the world.                           *)

\* The files go, then the bans of the named jails are lifted; the bot's reset
\* installs again after it.
Uninstall(again) ==
    /\ at = "idle"
    /\ reset' = again
    /\ at' = "flush"
    /\ said' = "none"
    /\ actionFile' = None /\ jailFile' = FALSE
    /\ bans' = IF server = None THEN bans
               ELSE [j \in Jails |-> IF j \in Lasting THEN bans[j] ELSE {}]
    /\ drop' = IF server = None THEN drop
               ELSE [i \in Ips |-> IF \E j \in Jails \ Lasting : i \in bans[j]
                                   THEN None ELSE drop[i]]
    /\ UNCHANGED <<sshFiles, server, returns, hooked, exempt, moved, enabled>>

Flush ==
    /\ Goes("flush", "restart")
    /\ returns' = None /\ hooked' = FALSE /\ drop' = Stopped
    /\ UNCHANGED <<sshFiles, written, server, bans, exempt, moved, bot>>

\* The result of the restart is not looked at.
RestartServer ==
    /\ \/ reset /\ Goes("restart", "ports") /\ UNCHANGED enabled
       \/ ~reset /\ Says("restart", "removed") /\ enabled' = FALSE
    /\ Reread \/ Halted \/ UNCHANGED <<server, chain>>
    /\ UNCHANGED <<sshFiles, written, bans, exempt, moved, reset>>

\* report: what the client of fail2ban tells, and the bot keeps.
Reported(j) == IF server = None THEN {} ELSE bans[j]
Active == server # None

Status ==
    /\ at = "idle"
    /\ enabled' = Active
    /\ said' = "ok"
    /\ UNCHANGED <<sshFiles, written, server, chain, bans, at, exempt, reset, moved>>

\* A ban by a jail or by set_ban; when the hook is gone the action is started
\* again first.
Ban(j, i) ==
    /\ server # None
    /\ bans' = [bans EXCEPT ![j] = @ \cup {i}]
    /\ IF hooked THEN UNCHANGED <<returns, hooked>> ELSE ActionStart(server)
    /\ ActionBan(i, Returned \cup server)
    /\ UNCHANGED <<sshFiles, written, server, at, exempt, moved, said, bot>>

Unban(j, i) ==
    /\ i \in Reported(j)
    /\ bans' = [bans EXCEPT ![j] = @ \ {i}]
    /\ ActionUnban(i)
    /\ UNCHANGED <<sshFiles, written, server, returns, hooked, at, exempt, moved, said, bot>>

Die ==
    /\ at # "idle"
    /\ Says(at, "failed")
    /\ UNCHANGED <<sshFiles, written, server, chain, bans, exempt, moved, bot>>

\* A reboot empties the tables and starts fail2ban with the files there are.
Reboot ==
    /\ at' = "idle" /\ said' = "none"
    /\ LET on == jailFile /\ actionFile # None IN
       /\ server' = IF on THEN actionFile ELSE None
       /\ returns' = server' /\ hooked' = on
       /\ drop' = [i \in Ips |-> IF on /\ i \in Banned THEN actionFile ELSE None]
    /\ UNCHANGED <<sshFiles, written, bans, exempt, moved, bot>>

\* The ssh agent or the administrator changes the port of sshd.
MoveSsh ==
    /\ sshFiles' \in (SUBSET SshPorts) \ {sshFiles}
    /\ moved' = TRUE
    /\ UNCHANGED <<written, server, chain, bans, at, exempt, said, bot>>

BanNext ==
    \/ Install \/ Status \/ ReadPorts \/ WriteAction \/ WriteJails \/ Test \/ Reload
    \/ (\E again \in BOOLEAN : Uninstall(again)) \/ Flush \/ RestartServer \/ Die \/ Reboot \/ MoveSsh
    \/ \E j \in Jails, i \in Ips : Ban(j, i) \/ Unban(j, i)

BanSpec == BanInit /\ [][BanNext]_banVars

-----------------------------------------------------------------------------
(* Properties.                                                             *)

PortSets == SUBSET AllPorts

BanTypeOK ==
    /\ sshFiles \in SUBSET SshPorts
    /\ actionFile \in PortSets \cup {None} /\ jailFile \in BOOLEAN
    /\ server \in PortSets \cup {None}
    /\ returns \in PortSets \cup {None} /\ hooked \in BOOLEAN
    /\ drop \in [Ips -> PortSets \cup {None}]
    /\ bans \in [Jails -> SUBSET Ips]
    /\ at \in {"idle", "ports", "action", "jails", "test", "reload", "flush", "restart"}
    /\ exempt \in PortSets /\ moved \in BOOLEAN /\ reset \in BOOLEAN /\ enabled \in BOOLEAN
    /\ said \in {"none", "ok", "refused", "write_failed", "config_invalid",
                 "start_failed", "failed", "removed"}

\* While fail2ban runs with the ports that install() read last, an address that
\* any jail bans still reaches sshd: the ports of sshd return before the rule
\* that drops it, whatever was installed, moved and banned before, until the
\* files of sshd name another port (fail2ban_agent.py:87, 222).
SshBeforeDrops ==
    server = exempt /\ ~moved
        => \A i \in Ips : drop[i] # None => Listened \subseteq drop[i]

\* No address is dropped that no jail bans: whatever is lifted, restarted or
\* flushed leaves no rule behind (fail2ban_agent.py:104, 642).
DropsAreBanned == \A i \in Ips : drop[i] # None => i \in Banned

\* An address is dropped only while a jail bans it, and still reaches sshd.
BansHold == SshBeforeDrops /\ DropsAreBanned
===============================================================================
