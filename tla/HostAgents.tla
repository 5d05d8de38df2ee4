------------------------------ MODULE HostAgents ------------------------------
(***************************************************************************)
(* The agents that guard the host and look around it: ssh, fail2ban, the   *)
(* anti flood rules, the firewall of the relay engine, the honeypot and    *)
(* the scans.  They share no file, no service and no rule of the firewall  *)
(* that another one of them writes, so an interleaving of two of them      *)
(* shows no more than each of them alone: the first state picks one, and   *)
(* only that one and its surroundings move.                                *)
(***************************************************************************)
EXTENDS SshAgent

CONSTANTS Jails, Lasting, Ips, SshPorts, SubPort, None
CONSTANTS EnginePorts, Sockets, Panels, Expected
CONSTANTS Decoys, Defaults, MaxSlips, MaxOrders
CONSTANTS ScanHosts, ScanPorts, ScanTime, TraceTime, PanelTime, MaxScans
CONSTANTS Hosts, EngineNums, Services, Relays, Mentions, Beside, MaxFaults, MaxCommands

VARIABLES sshFiles, actionFile, jailFile, server, returns, hooked, drop, bans,
          at, exempt, reset, enabled, moved, said
VARIABLES engine, listening, policy, rules, table, unit, stage, wish, prior,
          seen, cut, exposed, error, ended
VARIABLES host, default, chain, inForce, stored, early, ranges, todo, job, intact,
          asked, blind, crossed, faults, commands
VARIABLES trap, trapUnit, lure, kept, services, order, shown, slips, orders
VARIABLES probes, waiter, answered
VARIABLE focus  \* the agent this behaviour is about

Ban == INSTANCE Fail2banAgent
Flood == INSTANCE DdosAgent
Relay == INSTANCE RelayGuard
Honey == INSTANCE Decoy

ASSUME HostConstants ==
    /\ Ban!JailConstants /\ Flood!SocketConstants /\ Relay!GuardConstants
    /\ Honey!DecoyConstants /\ Flood!ScanConstants

banVars == <<sshFiles, actionFile, jailFile, server, returns, hooked, drop, bans,
             at, exempt, reset, enabled, moved, said>>
floodVars == <<engine, listening, policy, rules, table, unit, stage, wish, prior,
               seen, cut, exposed, error, ended>>
relayVars == <<host, default, chain, inForce, stored, early, ranges, todo, job, intact,
               asked, blind, crossed, faults, commands>>
decoyVars == <<trap, trapUnit, lure, kept, services, order, shown, slips, orders>>
scanVars == <<probes, waiter, answered>>
hostVars == <<sshVars, banVars, floodVars, relayVars, decoyVars, scanVars, focus>>

\* The variables of a part that is not looked at have one value.
Init ==
    /\ SshInit /\ Ban!BanInit /\ Flood!FloodInit /\ Relay!GuardInit /\ Honey!DecoyInit
    /\ Flood!ScanInit
    /\ focus \in {"ssh", "ban", "flood", "relay", "decoy", "scan"}
    /\ focus # "ssh" => ~home /\ main.port = Port22 /\ \A u \in Accounts : keys[u] = {}
    /\ focus # "ban" => sshFiles = {}
    /\ focus # "flood" => listening = {} /\ engine = CHOOSE e \in EnginePorts : TRUE
    /\ focus # "decoy" => services = {}
    /\ focus # "relay" => /\ host = CHOOSE h \in Hosts : TRUE
                          /\ default = "drop"
                          /\ inForce = CHOOSE s \in Relay!Orders : TRUE

Next ==
    /\ UNCHANGED focus
    /\ \/ /\ focus = "ssh" /\ SshNext
          /\ UNCHANGED <<banVars, floodVars, relayVars, decoyVars, scanVars>>
       \/ /\ focus = "ban" /\ Ban!BanNext
          /\ UNCHANGED <<sshVars, floodVars, relayVars, decoyVars, scanVars>>
       \/ /\ focus = "flood" /\ Flood!FloodNext
          /\ UNCHANGED <<sshVars, banVars, relayVars, decoyVars, scanVars>>
       \/ /\ focus = "relay" /\ Relay!GuardNext
          /\ UNCHANGED <<sshVars, banVars, floodVars, decoyVars, scanVars>>
       \/ /\ focus = "decoy" /\ Honey!DecoyNext
          /\ UNCHANGED <<sshVars, banVars, floodVars, relayVars, scanVars>>
       \/ /\ focus = "scan" /\ Flood!ScanNext
          /\ UNCHANGED <<sshVars, banVars, floodVars, relayVars, decoyVars>>

Spec == Init /\ [][Next]_hostVars

\* The shape of the state of every part.
TypeOK ==
    /\ SshTypeOK /\ Ban!BanTypeOK /\ Flood!FloodTypeOK /\ Relay!GuardTypeOK
    /\ Honey!DecoyTypeOK /\ Flood!ScanTypeOK

\* See DdosAgent: a load that fails leaves the previous file.
FailedLoadRestores == Flood!FailedLoadRestores

\* See Decoy: an install that answers has its daemon on its ports.
OkIsOnItsPorts == Honey!OkIsOnItsPorts

\* See Fail2banAgent: who is dropped is banned, and reaches sshd.
BansHold == Ban!BansHold

\* See RelayGuard: the guard covers the port of the engine and stays narrow.
GuardHolds == Relay!GuardHolds

\* See RelayGuard: what the screen says of a narrowed port, with no exception.
StaysNarrow == Relay!StaysNarrow

\* See DdosAgent: a scan ends in its time and is shown whole.
ScansHold == Flood!ScansHold
===============================================================================
