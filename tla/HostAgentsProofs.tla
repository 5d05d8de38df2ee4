-------------------------- MODULE HostAgentsProofs --------------------------
(***************************************************************************)
(* Proofs about the agents of the host, for any keys, jails, ports, rules, *)
(* decoys and lengths of a scan.                                           *)
(*                                                                         *)
(* A behaviour of HostAgents moves one agent, so there is one inductive    *)
(* invariant for each and a step lemma for it; the composition needs only  *)
(* that an agent which rests keeps its invariant.  The firewall of the     *)
(* relay is the longest part: what a guard leaves is the work of a whole   *)
(* list of tool calls, so its invariant says of every list that may be     *)
(* left what it will still do.                                             *)
(***************************************************************************)
EXTENDS HostAgents, Naturals, RecursionLemmas, FunctionTheorems, FiniteSetTheorems,
        SequenceTheorems, TLAPS

-----------------------------------------------------------------------------
(* The ssh agent.                                                           *)

\* Whatever can switch password login off now or by a step that is on its way:
\* the running sshd, the drop-in, the call, and the drop-in it may put back.
PasswordGoes ==
    \/ live # Down /\ live.password = "no"
    \/ dropin # NoFile /\ dropin.password = "no"
    \/ step \in {"read", "write", "test"} /\ ask.password = "no"
    \/ step \in {"write", "test", "restore"} /\ was # NoFile /\ was.password = "no"

HasKey == \E u \in Accounts : keys[u] # {}

SshInv == SshTypeOK /\ main.password = "yes" /\ (PasswordGoes /\ ~revoked => HasKey)

LEMMA EffectiveIsRun ==
  ASSUME SshTypeOK, main.password = "yes"
  PROVE  /\ Effective(NoFile) \in Runs /\ Effective(NoFile).password = "yes"
         /\ Started \in Runs
         /\ Started # Down /\ Started.password = "no"
              => dropin # NoFile /\ dropin.password = "no"
  BY DEF SshTypeOK, Effective, Runs, Started, Options, NoOption

LEMMA NoOptionIsOne == NoOption \in Options
  BY DEF NoOption, Options

LEMMA SshTypeStep == SshInv /\ SshNext => SshTypeOK' /\ main'.password = "yes"
  <1> SUFFICES ASSUME SshInv, SshNext PROVE SshTypeOK' /\ main'.password = "yes"
    OBVIOUS
  <1> USE DEF SshInv, SshTypeOK, Go, Answer, files, admin, call
  <1>1. ASSUME NEW o \in Options, Harden(o) PROVE SshTypeOK' /\ main'.password = "yes"
    BY <1>1 DEF Harden
  <1>2. ASSUME NEW k \in Keys \cup {BadText}, AddKey(k) PROVE SshTypeOK' /\ main'.password = "yes"
    BY <1>2 DEF AddKey
  <1>3. CASE Remove
    BY <1>3, NoOptionIsOne DEF Remove
  <1>4. CASE Look
    BY <1>4 DEF Look
  <1>5. CASE CheckKeys
    BY <1>5 DEF CheckKeys, Seen
  <1>6. CASE ReadPrevious
    BY <1>6, NoOptionIsOne DEF ReadPrevious
  <1>7. CASE Write
    BY <1>7 DEF Write
  <1>8. CASE Test
    BY <1>8 DEF Test
  <1>9. CASE Restore
    BY <1>9 DEF Restore
  <1>10. CASE RestartSshd
    BY <1>10, EffectiveIsRun DEF RestartSshd, Runs
  <1>11. CASE AppendKey
    BY <1>11 DEF AppendKey, Clean
  <1>12. CASE Kill
    BY <1>12 DEF Kill
  <1>13. CASE RestartHost
    BY <1>13, EffectiveIsRun DEF RestartHost
  <1>14. CASE EditMain
    BY <1>14 DEF EditMain
  <1>15. ASSUME NEW u \in Accounts, Revoke(u) PROVE SshTypeOK' /\ main'.password = "yes"
    BY <1>15 DEF Revoke
  <1>16. CASE NewAccount
    BY <1>16 DEF NewAccount
  <1>17. QED
    BY <1>1, <1>2, <1>3, <1>4, <1>5, <1>6, <1>7, <1>8, <1>9, <1>10, <1>11, <1>12,
       <1>13, <1>14, <1>15, <1>16 DEF SshNext, Bot, Agent, Outside

\* The agent looks at the keys itself, and from then on only their being taken
\* away leaves none; what is put back was written after such a look as well.
LEMMA SshStep == SshInv /\ SshNext => SshInv'
  <1> SUFFICES ASSUME SshInv, SshNext PROVE (PasswordGoes /\ ~revoked => HasKey)'
    BY SshTypeStep DEF SshInv
  <1> USE DEF SshInv, SshTypeOK, PasswordGoes, HasKey, Go, Answer, files, admin, call
  <1>1. ASSUME NEW o \in Options, Harden(o) PROVE (PasswordGoes /\ ~revoked => HasKey)'
    BY <1>1 DEF Harden
  <1>2. ASSUME NEW k \in Keys \cup {BadText}, AddKey(k) PROVE (PasswordGoes /\ ~revoked => HasKey)'
    BY <1>2 DEF AddKey
  <1>3. CASE Remove
    BY <1>3 DEF Remove
  <1>4. CASE Look
    BY <1>4 DEF Look
  <1>5. CASE CheckKeys
    BY <1>5 DEF CheckKeys, Seen, Owner, Accounts
  <1>6. CASE ReadPrevious
    BY <1>6 DEF ReadPrevious, NoOption
  <1>7. CASE Write
    BY <1>7 DEF Write
  <1>8. CASE Test
    BY <1>8 DEF Test
  <1>9. CASE Restore
    BY <1>9 DEF Restore
  <1>10. CASE RestartSshd
    BY <1>10, EffectiveIsRun DEF RestartSshd
  <1>11. CASE AppendKey
    BY <1>11 DEF AppendKey, Owner, Accounts
  <1>12. CASE Kill
    BY <1>12 DEF Kill
  <1>13. CASE RestartHost
    BY <1>13, EffectiveIsRun DEF RestartHost
  <1>14. CASE EditMain
    BY <1>14 DEF EditMain
  <1>15. ASSUME NEW u \in Accounts, Revoke(u) PROVE (PasswordGoes /\ ~revoked => HasKey)'
    BY <1>15 DEF Revoke
  <1>16. CASE NewAccount
    BY <1>16 DEF NewAccount
  <1>17. QED
    BY <1>1, <1>2, <1>3, <1>4, <1>5, <1>6, <1>7, <1>8, <1>9, <1>10, <1>11, <1>12,
       <1>13, <1>14, <1>15, <1>16 DEF SshNext, Bot, Agent, Outside

-----------------------------------------------------------------------------
(* fail2ban.                                                                *)

\* Every rule returns at least the ports the running jails were started with,
\* and those are ports install() has read: never none at all.
Through == server # None => \A i \in Ips : drop[i] # None => server \subseteq drop[i]

ReadIsListened ==
    /\ exempt # {} /\ ~moved => Ban!Listened \subseteq exempt
    /\ at = "action" => exempt # {}
    /\ actionFile # {} /\ server # {}

BanInv == Ban!BanTypeOK /\ Through /\ ReadIsListened /\ Ban!DropsAreBanned

LEMMA NoneIsNoPorts == None \notin Ban!PortSets /\ None # {}
  BY HostConstants DEF Ban!JailConstants, Ban!PortSets, Ban!AllPorts

LEMMA PortsJoin ==
  ASSUME NEW S \in Ban!PortSets, NEW T \in Ban!PortSets
  PROVE  S \cup T \in Ban!PortSets
  BY DEF Ban!PortSets

\* What fail2ban does with its files keeps every part that names its rules.
LEMMA RereadStep ==
  ASSUME BanInv, Ban!Reread \/ Ban!Halted \/ UNCHANGED <<server, Ban!chain>>,
         bans' = bans
  PROVE  /\ server' \in Ban!PortSets \cup {None} /\ server' # {}
         /\ returns' \in Ban!PortSets \cup {None} /\ hooked' \in BOOLEAN
         /\ drop' \in [Ips -> Ban!PortSets \cup {None}]
         /\ Through' /\ Ban!DropsAreBanned'
  <1> USE DEF BanInv, Ban!BanTypeOK, Through, ReadIsListened, Ban!DropsAreBanned, Ban!Banned
  <1>1. Ban!Returned \in Ban!PortSets
    BY DEF Ban!Returned, Ban!PortSets
  <1>2. CASE jailFile /\ actionFile # None /\ Ban!Served(actionFile, Ban!Banned)
    <2>1. actionFile \in Ban!PortSets /\ Ban!Returned \cup actionFile \in Ban!PortSets
      BY <1>1, <1>2, PortsJoin
    <2>2. QED
      BY <1>2, <2>1 DEF Ban!Served
  <1>3. CASE Ban!Halted
    BY <1>3, NoneIsNoPorts DEF Ban!Halted, Ban!Stopped
  <1>4. CASE UNCHANGED <<server, Ban!chain>>
    BY <1>4 DEF Ban!chain
  <1>5. QED
    BY <1>2, <1>3, <1>4 DEF Ban!Reread

LEMMA BanStep == BanInv /\ Ban!BanNext => BanInv'
  <1> SUFFICES ASSUME BanInv, Ban!BanNext PROVE BanInv'
    OBVIOUS
  <1> USE DEF BanInv, Ban!BanTypeOK, Through, ReadIsListened, Ban!Listened,
              Ban!DropsAreBanned, Ban!Banned, Ban!Goes, Ban!Says, Ban!written, Ban!bot, Ban!chain
  <1>1. CASE Ban!Install
    BY <1>1 DEF Ban!Install
  <1>2. CASE Ban!Status
    BY <1>2 DEF Ban!Status, Ban!Active
  <1>3. CASE Ban!ReadPorts
    <2>1. Ban!Exempt \in Ban!PortSets /\ Ban!Listened \subseteq Ban!Exempt /\ Ban!Exempt # {}
      BY DEF Ban!Exempt, Ban!PortSets, Ban!AllPorts
    <2>2. /\ exempt' \in Ban!PortSets /\ moved' \in BOOLEAN
          /\ exempt' # {} /\ ~moved' => Ban!Listened \subseteq exempt'
          /\ at' = "action" => exempt' # {}
      BY <1>3, <2>1 DEF Ban!ReadPorts
    <2>3. /\ at' \in {"action", "idle"} /\ said' \in {said, "refused"}
          /\ UNCHANGED <<sshFiles, Ban!written, server, Ban!chain, bans, Ban!bot>>
      BY <1>3 DEF Ban!ReadPorts
    <2>4. QED
      BY <2>2, <2>3
  <1>4. CASE Ban!WriteAction
    BY <1>4 DEF Ban!WriteAction
  <1>5. CASE Ban!WriteJails
    <2>1. /\ jailFile' \in BOOLEAN /\ at' \in {"test", "idle"} /\ said' \in {said, "write_failed"}
          /\ UNCHANGED <<sshFiles, actionFile, server, Ban!chain, bans, exempt, moved, Ban!bot>>
      BY <1>5 DEF Ban!WriteJails
    <2>2. QED
      BY <2>1
  <1>6. CASE Ban!Test
    BY <1>6 DEF Ban!Test
  <1>7. CASE Ban!Reload
    <2>1. Ban!Reread \/ Ban!Halted \/ UNCHANGED <<server, Ban!chain>>
      BY <1>7 DEF Ban!Reload
    <2>2. bans' = bans /\ UNCHANGED <<sshFiles, actionFile, jailFile, exempt, moved, reset>>
      BY <1>7 DEF Ban!Reload
    <2>3. /\ server' \in Ban!PortSets \cup {None} /\ server' # {}
          /\ returns' \in Ban!PortSets \cup {None} /\ hooked' \in BOOLEAN
          /\ drop' \in [Ips -> Ban!PortSets \cup {None}]
          /\ Through' /\ Ban!DropsAreBanned'
      BY <2>1, <2>2, RereadStep
    <2>4. enabled' \in BOOLEAN /\ at' = "idle" /\ said' \in {"ok", "start_failed"}
      BY <1>7 DEF Ban!Reload
    <2>5. QED
      BY <2>2, <2>3, <2>4
  <1>8. ASSUME NEW again \in BOOLEAN, Ban!Uninstall(again) PROVE BanInv'
    <2>1. bans' \in [Jails -> SUBSET Ips] /\ drop' \in [Ips -> Ban!PortSets \cup {None}]
      BY <1>8 DEF Ban!Uninstall
    <2>2. \A i \in Ips : drop'[i] # None => drop'[i] = drop[i]
      BY <1>8 DEF Ban!Uninstall
    <2>3. Ban!DropsAreBanned'
      <3>1. SUFFICES ASSUME NEW i \in Ips, drop'[i] # None
                     PROVE  \E j \in Jails : i \in bans'[j]
        OBVIOUS
      <3>2. PICK j \in Jails : i \in bans[j]
        BY <2>2, <3>1
      <3>3. CASE server = None
        BY <1>8, <3>2, <3>3 DEF Ban!Uninstall
      <3>4. CASE server # None
        <4>1. \A k \in Jails \ Lasting : i \notin bans[k]
          BY <1>8, <3>1, <3>4 DEF Ban!Uninstall
        <4>2. bans'[j] = bans[j]
          BY <1>8, <3>2, <3>4, <4>1 DEF Ban!Uninstall
        <4>3. QED
          BY <3>2, <4>2
      <3>5. QED
        BY <3>3, <3>4
    <2>4. /\ actionFile' = None /\ jailFile' = FALSE /\ at' = "flush" /\ said' = "none"
          /\ reset' \in BOOLEAN
          /\ UNCHANGED <<sshFiles, server, returns, hooked, exempt, moved, enabled>>
      BY <1>8 DEF Ban!Uninstall
    <2>5. QED
      BY <2>1, <2>2, <2>3, <2>4, NoneIsNoPorts
  <1>9. CASE Ban!Flush
    BY <1>9 DEF Ban!Flush, Ban!Stopped
  <1>10. CASE Ban!RestartServer
    <2>1. Ban!Reread \/ Ban!Halted \/ UNCHANGED <<server, Ban!chain>>
      BY <1>10 DEF Ban!RestartServer
    <2>2. bans' = bans /\ UNCHANGED <<sshFiles, actionFile, jailFile, exempt, moved, reset>>
      BY <1>10 DEF Ban!RestartServer
    <2>3. /\ server' \in Ban!PortSets \cup {None} /\ server' # {}
          /\ returns' \in Ban!PortSets \cup {None} /\ hooked' \in BOOLEAN
          /\ drop' \in [Ips -> Ban!PortSets \cup {None}]
          /\ Through' /\ Ban!DropsAreBanned'
      BY <2>1, <2>2, RereadStep
    <2>4. enabled' \in BOOLEAN /\ at' \in {"ports", "idle"} /\ said' \in {said, "removed"}
      BY <1>10 DEF Ban!RestartServer
    <2>5. QED
      BY <2>2, <2>3, <2>4
  <1>11. CASE Ban!Die
    BY <1>11 DEF Ban!Die
  <1>12. CASE Ban!Reboot
    <2>1. /\ at' = "idle" /\ said' = "none" /\ hooked' \in BOOLEAN
          /\ server' \in {actionFile, None} /\ returns' = server'
          /\ UNCHANGED <<sshFiles, actionFile, jailFile, bans, exempt, moved, reset, enabled>>
      BY <1>12 DEF Ban!Reboot
    <2>2. /\ drop' \in [Ips -> Ban!PortSets \cup {None}]
          /\ \A i \in Ips : drop'[i] # None => i \in Ban!Banned /\ drop'[i] = server'
      BY <1>12 DEF Ban!Reboot
    <2>3. QED
      BY <2>1, <2>2, NoneIsNoPorts
  <1>13. CASE Ban!MoveSsh
    BY <1>13 DEF Ban!MoveSsh
  <1>14. ASSUME NEW j \in Jails, NEW i \in Ips, Ban!Ban(j, i) PROVE BanInv'
    <2>1. Ban!Returned \cup server \in Ban!PortSets /\ server # None /\ server \in Ban!PortSets
      BY <1>14, PortsJoin DEF Ban!Ban, Ban!Returned, Ban!PortSets
    <2>2. /\ returns' \in Ban!PortSets \cup {None} /\ hooked' \in BOOLEAN
          /\ UNCHANGED <<sshFiles, actionFile, jailFile, server, at, exempt, moved, said, reset, enabled>>
      BY <1>14, <2>1, PortsJoin DEF Ban!Ban, Ban!ActionStart, Ban!Returned, Ban!PortSets
    <2>3. bans' = [bans EXCEPT ![j] = @ \cup {i}]
      BY <1>14 DEF Ban!Ban
    <2>4. drop' = [drop EXCEPT ![i] = IF @ = None THEN Ban!Returned \cup server ELSE @]
      BY <1>14 DEF Ban!Ban, Ban!ActionBan
    <2>5. bans' \in [Jails -> SUBSET Ips] /\ drop' \in [Ips -> Ban!PortSets \cup {None}]
      BY <2>1, <2>3, <2>4
    <2>6. Through'
      BY <2>1, <2>2, <2>4
    <2>7. Ban!DropsAreBanned'
      <3>1. \A k \in Jails : bans[k] \subseteq bans'[k]
        BY <2>3
      <3>2. i \in bans'[j] /\ \A k \in Ips \ {i} : drop'[k] = drop[k]
        BY <2>3, <2>4
      <3>3. QED
        BY <3>1, <3>2
    <2>8. QED
      BY <2>2, <2>5, <2>6, <2>7
  <1>15. ASSUME NEW j \in Jails, NEW i \in Ips, Ban!Unban(j, i) PROVE BanInv'
    BY <1>15 DEF Ban!Unban, Ban!ActionUnban
  <1>16. QED
    BY <1>1, <1>2, <1>3, <1>4, <1>5, <1>6, <1>7, <1>8, <1>9, <1>10, <1>11, <1>12,
       <1>13, <1>14, <1>15 DEF Ban!BanNext

LEMMA BansAreHeld == BanInv => Ban!BansHold
  BY NoneIsNoPorts DEF BanInv, Ban!BanTypeOK, Through, ReadIsListened, Ban!BansHold, Ban!SshBeforeDrops

-----------------------------------------------------------------------------
(* The anti flood rules.                                                    *)

\* What the load puts back is what the call found: nobody writes the rules
\* between the question and the read, and the table is gone when the load runs.
FloodInv ==
    /\ wish.command \in Flood!Commands
    /\ stage \in {"check", "write"} => wish.command = "install" /\ wish.on /\ rules = seen
    /\ stage = "drop" => wish.command \in {"install", "remove"}
    /\ stage = "drop" /\ wish.command = "install" /\ wish.on => prior = seen
    /\ stage = "load" => prior = seen /\ table = None

LEMMA FloodStep == FloodInv /\ Flood!FloodNext => FloodInv'
  <1> SUFFICES ASSUME FloodInv, Flood!FloodNext PROVE FloodInv'
    OBVIOUS
  <1> USE DEF FloodInv, Flood!Commands, Flood!Shown, Flood!host, Flood!screen
  <1>1. ASSUME NEW c \in Flood!Commands, NEW on \in BOOLEAN, Flood!Ask(c, on) PROVE FloodInv'
    BY <1>1 DEF Flood!Ask
  <1>2. CASE Flood!Tell
    BY <1>2 DEF Flood!Tell
  <1>3. CASE Flood!Check
    BY <1>3 DEF Flood!Check
  <1>4. CASE Flood!Write
    BY <1>4 DEF Flood!Write
  <1>5. CASE Flood!Drop
    BY <1>5 DEF Flood!Drop
  <1>6. CASE Flood!Load
    BY <1>6 DEF Flood!Load
  <1>7. CASE Flood!Conf
    BY <1>7 DEF Flood!Conf
  <1>8. CASE Flood!EnableUnit
    BY <1>8 DEF Flood!EnableUnit
  <1>9. CASE Flood!Unlink
    BY <1>9 DEF Flood!Unlink
  <1>10. CASE Flood!Killed
    BY <1>10 DEF Flood!Killed
  <1>11. CASE Flood!Boot
    BY <1>11 DEF Flood!Boot
  <1>12. CASE Flood!MoveEngine
    BY <1>12 DEF Flood!MoveEngine
  <1>13. CASE Flood!Listen
    BY <1>13 DEF Flood!Listen
  <1>14. QED
    BY <1>1, <1>2, <1>3, <1>4, <1>5, <1>6, <1>7, <1>8, <1>9, <1>10, <1>11, <1>12,
       <1>13 DEF Flood!FloodNext

\* Of all the steps only a load that fails ends a call at "load" in a failure.
LEMMA FailedLoad ==
  ASSUME FloodInv, Flood!FloodNext, stage = "load", stage' = "idle", ended' = "failed"
  PROVE  /\ seen # None => rules' = seen
         /\ table' \in {None, seen}
  <1>1. Flood!Load
    BY DEF Flood!FloodNext, Flood!Ask, Flood!Tell, Flood!Check, Flood!Write, Flood!Drop,
           Flood!Conf, Flood!EnableUnit, Flood!Unlink, Flood!Killed, Flood!Shown, Flood!Boot,
           Flood!MoveEngine, Flood!Listen
  <1>2. QED
    BY <1>1 DEF FloodInv, Flood!Load, Flood!Shown

-----------------------------------------------------------------------------
(* The honeypot.                                                            *)

\* From the unit on, the file holds the ports of the command, which are some,
\* so whatever daemon is started then is told these.
Commands ==
  [at : {"check", "open", "fill", "unit", "enable", "restart", "state",
         "disable", "stop", "unlink", "control"},
   cmd : Honey!Buttons \cup {"restart"}, by : {"button", "hand"},
   ports : (SUBSET Decoys) \ {{}}]

Filled == {"unit", "enable", "restart", "state"}

DecoyInv ==
  /\ order \in Commands \cup {Honey!Rest}
  /\ order.at \in Filled => trap = order.ports
  /\ Honey!OkIsOnItsPorts

LEMMA ToldItsPorts ==
  ASSUME DecoyInv, order.at \in Filled
  PROVE  Honey!Bound.told = order.ports
  BY HostConstants
  DEF Honey!DecoyConstants, DecoyInv, Commands, Filled, Honey!Rest, Honey!Bound, Honey!Told

LEMMA DecoyStep == DecoyInv /\ Honey!DecoyNext => DecoyInv'
  <1> SUFFICES ASSUME DecoyInv, Honey!DecoyNext PROVE DecoyInv'
    OBVIOUS
  <1> USE DEF DecoyInv, Commands, Filled, Honey!OkIsOnItsPorts, Honey!Answer, Honey!Step, Honey!Rest
  <1>1. ASSUME NEW cmd \in Honey!Buttons \cup {"restart"}, NEW by \in {"button", "hand"},
               NEW ports \in (SUBSET Decoys) \ {{}}, Honey!Order(cmd, by, ports)
        PROVE DecoyInv'
    BY <1>1 DEF Honey!Order, Honey!Buttons
  <1>2. CASE Honey!Check
    BY <1>2 DEF Honey!Check
  <1>3. CASE Honey!OpenTrap
    BY <1>3 DEF Honey!OpenTrap
  <1>4. CASE Honey!FillTrap
    BY <1>4 DEF Honey!FillTrap
  <1>5. CASE Honey!WriteUnit
    BY <1>5 DEF Honey!WriteUnit
  <1>6. CASE Honey!Enable
    BY <1>6 DEF Honey!Enable
  <1>7. CASE Honey!Restart
    BY <1>7, ToldItsPorts DEF Honey!Restart
  <1>8. CASE Honey!State
    BY <1>8 DEF Honey!State
  <1>9. CASE Honey!Control
    BY <1>9 DEF Honey!Control
  <1>10. CASE Honey!Disable
    BY <1>10 DEF Honey!Disable
  <1>11. CASE Honey!StopDaemon
    BY <1>11 DEF Honey!StopDaemon
  <1>12. CASE Honey!Unlink
    BY <1>12 DEF Honey!Unlink
  <1>13. CASE Honey!Selfcheck
    BY <1>13 DEF Honey!Selfcheck
  <1>14. ASSUME NEW p \in Decoys, Honey!Comes(p) PROVE DecoyInv'
    BY <1>14 DEF Honey!Comes
  <1>15. CASE Honey!Respawn
    BY <1>15, ToldItsPorts DEF Honey!Respawn
  <1>16. CASE Honey!Boot
    BY <1>16 DEF Honey!Boot
  <1>17. Defaults \in (SUBSET Decoys) \ {{}}
    BY HostConstants DEF Honey!DecoyConstants
  <1>18. QED
    BY <1>1, <1>2, <1>3, <1>4, <1>5, <1>6, <1>7, <1>8, <1>9, <1>10, <1>11, <1>12,
       <1>13, <1>14, <1>15, <1>16, <1>17 DEF Honey!DecoyNext

-----------------------------------------------------------------------------
(* The scans.                                                               *)

Probe ==
    [at : {"starting", "host", "port", "trying", "tracing", "gone"}, kind : {"scan", "trace"},
     hosts : Nat, rows : Nat, port : Nat, whole : BOOLEAN, spent : Nat, age : {0, 1}]

\* Of a scan only a connection takes time, and it is begun in time.
InTime(a) ==
    a.kind = "scan" => /\ a.spent <= ScanTime + 1
                       /\ a.at = "starting" => a.spent = 0
                       /\ a.at = "trying" /\ a.age = 0 => a.spent <= ScanTime
                       /\ a.at # "tracing"

\* Nothing was cut short of an agent that the panel still waits for.
Whole(a, waited) == a.spent <= waited /\ a.whole

ScanInv ==
    /\ probes \in Seq(Probe)
    /\ \A i \in 1..Len(probes) : InTime(probes[i])
    /\ waiter \in {Flood!NoWait} \cup [at : {"waiting"}, waited : 0..PanelTime]
    /\ waiter # Flood!NoWait => Len(probes) > 0 /\ Whole(probes[Len(probes)], waiter.waited)
    /\ Flood!ShownIsWhole

LEMMA TimesAreNumbers ==
    /\ ScanHosts \in Nat /\ ScanPorts \in Nat /\ ScanTime \in Nat /\ TraceTime \in Nat
    /\ PanelTime \in Nat /\ MaxScans \in Nat /\ PanelTime <= ScanTime
  BY HostConstants DEF Flood!ScanConstants

\* One agent moves and nobody takes an answer.
LEMMA OneProbeMoves ==
  ASSUME ScanInv, NEW i \in 1..Len(probes), NEW a \in Probe, Flood!Becomes(i, a),
         UNCHANGED <<waiter, answered>>, InTime(a),
         \A w \in Nat : Whole(probes[i], w) /\ w <= ScanTime => Whole(a, w)
  PROVE  ScanInv'
  <1>1. /\ probes' \in Seq(Probe) /\ Len(probes') = Len(probes)
        /\ \A j \in 1..Len(probes) : probes'[j] = IF j = i THEN a ELSE probes[j]
    BY ExceptSeq DEF ScanInv, Flood!Becomes
  <1>2. waiter # Flood!NoWait => waiter.waited \in Nat /\ waiter.waited <= ScanTime
    BY TimesAreNumbers DEF ScanInv
  <1>3. waiter # Flood!NoWait => Whole(probes'[Len(probes)], waiter.waited)
    BY <1>1, <1>2 DEF ScanInv
  <1>4. QED
    BY <1>1, <1>3 DEF ScanInv, Flood!ShownIsWhole

\* One agent ends, and the panel takes its answer if it waits for this one.
LEMMA OneProbeAnswers ==
  ASSUME ScanInv, NEW i \in 1..Len(probes), NEW told, Flood!Answers(i, told),
         i = Len(probes) /\ waiter # Flood!NoWait /\ told.kind = "scan" => told.whole
  PROVE  ScanInv'
  <1> DEFINE a == [probes[i] EXCEPT !.at = "gone"]
  <1>1. probes[i] \in Probe /\ InTime(probes[i])
    BY ElementOfSeq DEF ScanInv
  <1>2. a \in Probe /\ InTime(a) /\ \A w \in Nat : Whole(probes[i], w) => Whole(a, w)
    BY <1>1 DEF Probe, InTime, Whole
  <1>3. Flood!Becomes(i, a)
    BY DEF Flood!Answers
  <1>4. CASE UNCHANGED <<waiter, answered>>
    BY <1>2, <1>3, <1>4, OneProbeMoves
  <1>5. CASE i = Len(probes) /\ waiter # Flood!NoWait /\ answered' = told /\ waiter' = Flood!NoWait
    <2>1. /\ probes' \in Seq(Probe) /\ Len(probes') = Len(probes)
          /\ \A j \in 1..Len(probes) : probes'[j] = IF j = i THEN a ELSE probes[j]
      BY <1>2, <1>3, ExceptSeq DEF ScanInv, Flood!Becomes
    <2>2. QED
      BY <1>2, <1>5, <2>1 DEF ScanInv, Flood!ShownIsWhole
  <1>6. QED
    BY <1>4, <1>5 DEF Flood!Answers, Flood!Last

\* The panel has stopped waiting before the time of a scan is over.
LEMMA WaitedForIsInTime ==
  ASSUME ScanInv, waiter # Flood!NoWait
  PROVE  ~Flood!Over(probes[Len(probes)]) /\ probes[Len(probes)].whole
  <1>1. probes[Len(probes)] \in Probe
    BY ElementOfSeq, LenProperties DEF ScanInv
  <1>2. QED
    BY <1>1, TimesAreNumbers DEF ScanInv, Whole, Flood!Over, Probe

LEMMA AskStep ==
  ASSUME ScanInv, NEW kind \in {"scan", "trace"}, NEW hosts \in Nat, Flood!AskAgent(kind, hosts)
  PROVE  ScanInv'
  <1> DEFINE a == Flood!Fresh(kind, hosts)
  <1>1. a \in Probe /\ InTime(a) /\ Whole(a, 0)
    BY TimesAreNumbers DEF Flood!Fresh, Probe, InTime, Whole
  <1>2. probes' = Append(probes, a) /\ waiter' = [at |-> "waiting", waited |-> 0]
        /\ answered' = answered
    BY DEF Flood!AskAgent
  <1> HIDE DEF a
  <1>3. /\ probes' \in Seq(Probe) /\ Len(probes') = Len(probes) + 1
        /\ \A j \in 1..Len(probes) : probes'[j] = probes[j]
        /\ probes'[Len(probes) + 1] = a /\ Len(probes) \in Nat
    BY <1>1, <1>2, AppendProperties, LenProperties DEF ScanInv
  <1>4. \A j \in 1..Len(probes') : InTime(probes'[j])
    BY <1>1, <1>3 DEF ScanInv
  <1>5. waiter' \in [at : {"waiting"}, waited : 0..PanelTime] /\ waiter'.waited = 0
    BY <1>2, TimesAreNumbers
  <1>6. Len(probes') > 0 /\ Whole(probes'[Len(probes')], waiter'.waited)
    BY <1>1, <1>3, <1>5
  <1>7. QED
    BY <1>2, <1>3, <1>4, <1>5, <1>6 DEF ScanInv, Flood!ShownIsWhole

\* A tick is at most one more for each agent, and one more for the panel.
LEMMA OlderInTime ==
  ASSUME NEW a \in Probe, InTime(a), Flood!MayWait(a)
  PROVE  /\ Flood!Older(a) \in Probe /\ InTime(Flood!Older(a))
         /\ \A w \in Nat : Whole(a, w) => Whole(Flood!Older(a), w + 1)
  <1> USE TimesAreNumbers DEF Probe, InTime, Whole, Flood!MayWait
  <1>1. CASE a.at = "trying"
    <2>1. a.age = 0 /\ Flood!Older(a) = [a EXCEPT !.spent = @ + 1, !.age = 1]
      BY <1>1 DEF Flood!Older
    <2>2. Flood!Older(a) \in Probe
      <3>1. a.spent + 1 \in Nat
        OBVIOUS
      <3>2. QED
        BY <2>1, <3>1
    <2>3. InTime(Flood!Older(a))
      BY <1>1, <2>1
    <2>4. \A w \in Nat : Whole(a, w) => Whole(Flood!Older(a), w + 1)
      BY <2>1
    <2>5. QED
      BY <2>2, <2>3, <2>4
  <1>2. CASE a.at = "tracing"
    BY <1>2 DEF Flood!Older
  <1>3. CASE a.at \notin {"trying", "tracing"}
    BY <1>3 DEF Flood!Older
  <1>4. QED
    BY <1>1, <1>2, <1>3

LEMMA TickStep == ScanInv /\ Flood!ScanTick => ScanInv'
  <1> SUFFICES ASSUME ScanInv, Flood!ScanTick PROVE ScanInv'
    OBVIOUS
  <1>1. Len(probes) \in Nat /\ DOMAIN probes = 1..Len(probes)
    BY LenProperties DEF ScanInv
  <1>2. probes' = [i \in 1..Len(probes) |-> Flood!Older(probes[i])]
    BY <1>1 DEF Flood!ScanTick
  <1>3. \A i \in 1..Len(probes) : probes[i] \in Probe /\ InTime(probes[i]) /\ Flood!MayWait(probes[i])
    BY <1>1, ElementOfSeq DEF ScanInv, Flood!ScanTick
  <1>4. \A i \in 1..Len(probes) : Flood!Older(probes[i]) \in Probe /\ InTime(Flood!Older(probes[i]))
    BY <1>3, OlderInTime
  <1>5. probes' \in Seq(Probe) /\ Len(probes') = Len(probes)
    BY <1>1, <1>2, <1>4, SeqDef
  <1>6. \A i \in 1..Len(probes') : InTime(probes'[i])
    BY <1>2, <1>4, <1>5
  <1>7. ASSUME waiter # Flood!NoWait
        PROVE  /\ waiter' \in [at : {"waiting"}, waited : 0..PanelTime]
               /\ Len(probes') > 0 /\ Whole(probes'[Len(probes')], waiter'.waited)
    <2>1. /\ waiter.waited \in Nat /\ waiter.waited < PanelTime /\ waiter.at = "waiting"
          /\ waiter' = [waiter EXCEPT !.waited = @ + 1]
      BY <1>7, TimesAreNumbers DEF ScanInv, Flood!ScanTick, Flood!Expired
    <2>2. waiter' \in [at : {"waiting"}, waited : 0..PanelTime] /\ waiter'.waited = waiter.waited + 1
      BY <1>7, <2>1, TimesAreNumbers DEF ScanInv
    <2>3. Len(probes) \in 1..Len(probes) /\ Whole(probes[Len(probes)], waiter.waited)
      BY <1>1, <1>7 DEF ScanInv
    <2>4. Whole(Flood!Older(probes[Len(probes)]), waiter.waited + 1)
      BY <1>3, <2>1, <2>3, OlderInTime
    <2>5. QED
      BY <1>2, <1>5, <2>2, <2>3, <2>4
  <1>8. waiter = Flood!NoWait => waiter' = Flood!NoWait
    BY DEF Flood!ScanTick
  <1>9. answered' = answered
    BY DEF Flood!ScanTick
  <1>10. QED
    BY <1>5, <1>6, <1>7, <1>8, <1>9 DEF ScanInv, Flood!ShownIsWhole

LEMMA ScanStep == ScanInv /\ Flood!ScanNext => ScanInv'
  <1> SUFFICES ASSUME ScanInv, Flood!ScanNext PROVE ScanInv'
    OBVIOUS
  <1>1. CASE Flood!Refuse
    BY <1>1 DEF Flood!Refuse, Flood!scanVars, ScanInv, Flood!ShownIsWhole
  <1>2. CASE Flood!TooMany
    BY <1>2 DEF Flood!TooMany, Flood!Nothing, ScanInv, Flood!ShownIsWhole
  <1>3. CASE Flood!AskScan
    BY <1>3, AskStep, TimesAreNumbers DEF Flood!AskScan
  <1>4. CASE Flood!AskTrace
    BY <1>4, AskStep DEF Flood!AskTrace
  <1>5. CASE Flood!GiveUp
    BY <1>5 DEF Flood!GiveUp, Flood!Nothing, ScanInv, Flood!ShownIsWhole
  <1>6. CASE Flood!ScanTick
    BY <1>6, TickStep
  <1>7. ASSUME NEW i \in 1..Len(probes),
               Flood!Starts(i) \/ Flood!Host(i) \/ Flood!Port(i) \/ Flood!Tried(i) \/ Flood!Traced(i)
        PROVE  ScanInv'
    <2>1. probes[i] \in Probe /\ InTime(probes[i])
      BY ElementOfSeq DEF ScanInv
    <2>2. Flood!Fails(i) => ScanInv'
      BY OneProbeAnswers DEF Flood!Fails, Flood!Nothing
    <2>3. CASE Flood!Starts(i)
      <3> DEFINE a == [probes[i] EXCEPT !.at = IF @ = "starting" /\ probes[i].kind = "scan"
                                               THEN "host" ELSE "tracing"]
      <3>1. /\ a \in Probe /\ InTime(a)
            /\ \A w \in Nat : Whole(probes[i], w) => Whole(a, w)
        BY <2>1, <2>3 DEF Flood!Starts, Probe, InTime, Whole
      <3>2. Flood!Fails(i) \/ (Flood!Becomes(i, a) /\ UNCHANGED <<waiter, answered>>)
        BY <2>3 DEF Flood!Starts
      <3>3. QED
        BY <2>2, <3>1, <3>2, OneProbeMoves
    <2>4. CASE Flood!Host(i)
      <3>1. CASE probes[i].rows = probes[i].hosts \/ Flood!Over(probes[i])
        <4> DEFINE told == [kind |-> "scan", rows |-> probes[i].rows,
                            whole |-> probes[i].whole /\ probes[i].rows = probes[i].hosts]
        <4>1. Flood!Answers(i, told)
          BY <2>4, <3>1 DEF Flood!Host
        <4>2. i = Len(probes) /\ waiter # Flood!NoWait => told.whole
          BY <3>1, WaitedForIsInTime
        <4>3. QED
          BY <4>1, <4>2, OneProbeAnswers
      <3>2. CASE ~(probes[i].rows = probes[i].hosts \/ Flood!Over(probes[i]))
        <4> DEFINE a == [probes[i] EXCEPT !.at = "port", !.port = 1]
        <4>1. /\ a \in Probe /\ InTime(a)
              /\ \A w \in Nat : Whole(probes[i], w) => Whole(a, w)
          BY <2>1 DEF Probe, InTime, Whole
        <4>2. Flood!Becomes(i, a) /\ UNCHANGED <<waiter, answered>>
          BY <2>4, <3>2 DEF Flood!Host
        <4>3. QED
          BY <4>1, <4>2, OneProbeMoves
      <3>3. QED
        BY <3>1, <3>2
    <2>5. CASE Flood!Port(i)
      <3> DEFINE a == probes[i]
                 b == IF a.port > ScanPorts \/ Flood!Over(a)
                      THEN [a EXCEPT !.at = "host", !.rows = @ + 1, !.port = 0,
                                     !.whole = @ /\ a.port > ScanPorts]
                      ELSE [a EXCEPT !.at = "trying", !.age = 0]
      <3>1. b \in Probe /\ InTime(b)
        <4>1. CASE a.port > ScanPorts \/ Flood!Over(a)
          <5> DEFINE full == a.whole /\ a.port > ScanPorts
          <5>1. full \in BOOLEAN
            OBVIOUS
          <5>2. b = [a EXCEPT !.at = "host", !.rows = @ + 1, !.port = 0, !.whole = full]
            BY <4>1
          <5> HIDE DEF full, b
          <5>3. b \in Probe
            <6>1. a.rows + 1 \in Nat
              BY <2>1 DEF Probe
            <6>2. QED
              BY <2>1, <5>1, <5>2, <6>1 DEF Probe
          <5>4. InTime(b)
            BY <2>1, <5>2 DEF Probe, InTime
          <5>5. QED
            BY <5>3, <5>4
        <4>2. CASE ~(a.port > ScanPorts \/ Flood!Over(a))
          <5>1. b = [a EXCEPT !.at = "trying", !.age = 0]
            BY <4>2
          <5> HIDE DEF b
          <5>2. b \in Probe
            BY <2>1, <5>1 DEF Probe
          <5>3. InTime(b)
            BY <2>1, <4>2, <5>1, TimesAreNumbers DEF Probe, InTime, Flood!Over
          <5>4. QED
            BY <5>2, <5>3
        <4>3. QED
          BY <4>1, <4>2
      <3>2. \A w \in Nat : Whole(a, w) /\ w <= ScanTime => Whole(b, w)
        BY <2>1, TimesAreNumbers DEF Flood!Over, Probe, Whole
      <3>3. Flood!Becomes(i, b) /\ UNCHANGED <<waiter, answered>>
        BY <2>5 DEF Flood!Port
      <3>4. QED
        BY <3>1, <3>2, <3>3, OneProbeMoves
    <2>6. CASE Flood!Tried(i)
      <3> DEFINE a == [probes[i] EXCEPT !.at = "port", !.port = @ + 1, !.age = 0]
      <3>1. /\ a \in Probe /\ InTime(a)
            /\ \A w \in Nat : Whole(probes[i], w) => Whole(a, w)
        <4>1. a \in Probe
          <5>1. probes[i].port + 1 \in Nat
            BY <2>1 DEF Probe
          <5>2. QED
            BY <2>1, <5>1 DEF Probe
        <4>2. InTime(a) /\ \A w \in Nat : Whole(probes[i], w) => Whole(a, w)
          BY <2>1 DEF Probe, InTime, Whole
        <4>3. QED
          BY <4>1, <4>2
      <3>2. Flood!Becomes(i, a) /\ UNCHANGED <<waiter, answered>>
        BY <2>6 DEF Flood!Tried
      <3>3. QED
        BY <3>1, <3>2, OneProbeMoves
    <2>7. CASE Flood!Traced(i)
      <3>1. Flood!Answers(i, [kind |-> "trace", rows |-> 0, whole |-> TRUE]) \/ Flood!Fails(i)
        BY <2>7 DEF Flood!Traced
      <3>2. QED
        BY <2>2, <3>1, OneProbeAnswers
    <2>8. QED
      BY <1>7, <2>3, <2>4, <2>5, <2>6, <2>7
  <1>8. DOMAIN probes = 1..Len(probes)
    BY LenProperties DEF ScanInv
  <1>9. QED
    BY <1>1, <1>2, <1>3, <1>4, <1>5, <1>6, <1>7, <1>8 DEF Flood!ScanNext

-----------------------------------------------------------------------------
(* The relay firewall: lists, and what a member of them is.                *)

\* A list has x.
In(x, s) == \E i \in 1..Len(s) : s[i] = x

LEMMA InIsRange ==
  ASSUME NEW T, NEW s \in Seq(T), NEW x
  PROVE  x \in Relay!Range(s) <=> In(x, s)
  BY DEF Relay!Range, In

LEMMA InAppend ==
  ASSUME NEW T, NEW s \in Seq(T), NEW x \in T
  PROVE  /\ Append(s, x) \in Seq(T) /\ Len(Append(s, x)) = Len(s) + 1
         /\ \A y : In(y, Append(s, x)) <=> In(y, s) \/ y = x
  <1> DEFINE t == Append(s, x)
  <1>1. t \in Seq(T) /\ Len(t) = Len(s) + 1 /\ Len(s) \in Nat
    OBVIOUS
  <1>2. t[Len(s) + 1] = x /\ \A i \in 1..Len(s) : t[i] = s[i]
    OBVIOUS
  <1> HIDE DEF t
  <1>3. ASSUME NEW y, In(y, t) PROVE In(y, s) \/ y = x
    <2>1. PICK i \in 1..Len(t) : t[i] = y
      BY <1>3 DEF In
    <2>2. i \in 1..Len(s) \/ i = Len(s) + 1
      BY <1>1
    <2>3. QED
      BY <1>2, <2>1, <2>2 DEF In
  <1>4. ASSUME NEW y, In(y, s) PROVE In(y, t)
    <2>1. PICK i \in 1..Len(s) : s[i] = y
      BY <1>4 DEF In
    <2>2. i \in 1..Len(t)
      BY <1>1
    <2>3. QED
      BY <1>2, <2>1, <2>2 DEF In
  <1>5. In(x, t)
    <2>1. Len(s) + 1 \in 1..Len(t)
      BY <1>1
    <2>2. QED
      BY <1>2, <2>1 DEF In
  <1>6. QED
    BY <1>1, <1>3, <1>4, <1>5 DEF t

LEMMA Joined ==
  ASSUME NEW T, NEW s \in Seq(T), NEW t \in Seq(T)
  PROVE  /\ s \o t \in Seq(T) /\ Len(s \o t) = Len(s) + Len(t)
         /\ \A i \in 1..Len(s) : (s \o t)[i] = s[i]
         /\ \A i \in 1..Len(t) : (s \o t)[Len(s) + i] = t[i]
  OBVIOUS

LEMMA InConcat ==
  ASSUME NEW T, NEW s \in Seq(T), NEW t \in Seq(T)
  PROVE  /\ s \o t \in Seq(T) /\ Len(s \o t) = Len(s) + Len(t)
         /\ \A y : In(y, s \o t) <=> In(y, s) \/ In(y, t)
  <1> DEFINE u == s \o t
  <1>1. u \in Seq(T) /\ Len(u) = Len(s) + Len(t) /\ Len(s) \in Nat /\ Len(t) \in Nat
    OBVIOUS
  <1>2. \A i \in 1..Len(s) : u[i] = s[i]
    OBVIOUS
  <1>3. \A i \in 1..Len(t) : u[Len(s) + i] = t[i]
    OBVIOUS
  <1> HIDE DEF u
  <1>4. ASSUME NEW y, In(y, u) PROVE In(y, s) \/ In(y, t)
    <2>1. PICK i \in 1..Len(u) : u[i] = y
      BY <1>4 DEF In
    <2>2. CASE i <= Len(s)
      <3>1. i \in 1..Len(s)
        BY <1>1, <2>2
      <3>2. QED
        BY <1>2, <2>1, <3>1 DEF In
    <2>3. CASE i > Len(s)
      <3>1. i - Len(s) \in 1..Len(t) /\ Len(s) + (i - Len(s)) = i
        BY <1>1, <2>3
      <3>2. t[i - Len(s)] = y
        BY <1>3, <2>1, <3>1
      <3>3. QED
        BY <3>1, <3>2 DEF In
    <2>4. QED
      BY <1>1, <2>2, <2>3
  <1>5. ASSUME NEW y, In(y, s) PROVE In(y, u)
    <2>1. PICK i \in 1..Len(s) : s[i] = y
      BY <1>5 DEF In
    <2>2. i \in 1..Len(u)
      BY <1>1
    <2>3. QED
      BY <1>2, <2>1, <2>2 DEF In
  <1>6. ASSUME NEW y, In(y, t) PROVE In(y, u)
    <2>1. PICK i \in 1..Len(t) : t[i] = y
      BY <1>6 DEF In
    <2>2. Len(s) + i \in 1..Len(u)
      BY <1>1
    <2>3. u[Len(s) + i] = y
      BY <1>3, <2>1
    <2>4. QED
      BY <2>2, <2>3 DEF In
  <1>7. QED
    BY <1>1, <1>4, <1>5, <1>6 DEF u

\* What is put in front of a list moves the rest by one place.
LEMMA InFront ==
  ASSUME NEW T, NEW s \in Seq(T), NEW x \in T
  PROVE  /\ <<x>> \o s \in Seq(T) /\ Len(<<x>> \o s) = Len(s) + 1
         /\ (<<x>> \o s)[1] = x
         /\ \A i \in 1..Len(s) : (<<x>> \o s)[i + 1] = s[i]
         /\ \A y : In(y, <<x>> \o s) <=> In(y, s) \/ y = x
  <1> DEFINE one == <<x>>
  <1>1. one \in Seq(T) /\ Len(one) = 1 /\ one[1] = x
    OBVIOUS
  <1>2. \A y : In(y, one) <=> y = x
    <2>1. ASSUME NEW y, In(y, one) PROVE y = x
      <3>1. PICK i \in 1..Len(one) : one[i] = y
        BY <2>1 DEF In
      <3>2. i = 1
        BY <1>1
      <3>3. QED
        BY <1>1, <3>1, <3>2
    <2>2. In(x, one)
      <3>1. 1 \in 1..Len(one)
        BY <1>1
      <3>2. QED
        BY <1>1, <3>1 DEF In
    <2>3. QED
      BY <2>1, <2>2
  <1>3. (one \o s)[1] = x /\ \A i \in 1..Len(s) : (one \o s)[i + 1] = s[i]
    OBVIOUS
  <1> HIDE DEF one
  <1>4. /\ one \o s \in Seq(T) /\ Len(one \o s) = Len(one) + Len(s)
        /\ \A y : In(y, one \o s) <=> In(y, one) \/ In(y, s)
    BY <1>1, InConcat
  <1>5. Len(one \o s) = Len(s) + 1
    BY <1>1, <1>4
  <1>6. QED
    BY <1>2, <1>3, <1>4, <1>5 DEF one

LEMMA InRest ==
  ASSUME NEW T, NEW s \in Seq(T), NEW p \in 1..Len(s)
  PROVE  LET t == Relay!RemoveAt(s, p)
         IN  /\ t \in Seq(T) /\ Len(t) = Len(s) - 1
             /\ \A i \in 1..Len(t) : t[i] = IF i < p THEN s[i] ELSE s[i + 1]
             /\ \A y : In(y, t) => In(y, s)
             /\ \A y : In(y, s) /\ y # s[p] => In(y, t)
  <1> DEFINE before == SubSeq(s, 1, p - 1)
             after == SubSeq(s, p + 1, Len(s))
             t == before \o after
             n == Len(s)
  <1>1. n \in Nat /\ p \in Nat /\ 1 <= p /\ p <= n
    OBVIOUS
  <1>2. before \in Seq(T) /\ Len(before) = p - 1 /\ \A i \in 1..p - 1 : before[i] = s[i]
    BY <1>1
  <1>3. after \in Seq(T) /\ Len(after) = n - p /\ \A i \in 1..n - p : after[i] = s[p + i]
    BY <1>1
  <1> HIDE DEF before, after, n
  <1>0. before \in Seq(T) /\ after \in Seq(T)
    BY <1>2, <1>3
  <1>a. /\ t \in Seq(T) /\ Len(t) = Len(before) + Len(after)
        /\ \A i \in 1..Len(before) : t[i] = before[i]
        /\ \A i \in 1..Len(after) : t[Len(before) + i] = after[i]
    BY <1>0, Joined
  <1> HIDE DEF t
  <1>4. t \in Seq(T) /\ Len(t) = n - 1
    BY <1>1, <1>2, <1>3, <1>a
  <1>5. ASSUME NEW i \in 1..Len(t) PROVE t[i] = IF i < p THEN s[i] ELSE s[i + 1]
    <2>1. CASE i < p
      <3>1. i \in 1..Len(before) /\ i \in 1..p - 1
        BY <1>1, <1>2, <2>1
      <3>2. t[i] = before[i]
        BY <1>a, <3>1
      <3>3. QED
        BY <1>2, <2>1, <3>1, <3>2
    <2>2. CASE ~(i < p)
      <3>1. i - Len(before) \in 1..Len(after) /\ i - Len(before) \in 1..n - p
            /\ p + (i - Len(before)) = i + 1
        BY <1>1, <1>2, <1>3, <1>4, <2>2
      <3>2. t[Len(before) + (i - Len(before))] = after[i - Len(before)]
        BY <1>a, <3>1
      <3>0. Len(before) + (i - Len(before)) = i
        BY <1>1, <1>2, <1>4
      <3>3. after[i - Len(before)] = s[i + 1]
        BY <1>3, <3>1
      <3>4. QED
        BY <2>2, <3>0, <3>2, <3>3
    <2>3. QED
      BY <2>1, <2>2
  <1>6. ASSUME NEW y, In(y, t) PROVE In(y, s)
    <2>1. PICK i \in 1..Len(t) : t[i] = y
      BY <1>6 DEF In
    <2>2. i \in 1..Len(s) /\ i + 1 \in 1..Len(s)
      BY <1>1, <1>4 DEF n
    <2>3. QED
      BY <1>5, <2>1, <2>2 DEF In
  <1>7. ASSUME NEW y, In(y, s), y # s[p] PROVE In(y, t)
    <2>1. PICK i \in 1..Len(s) : s[i] = y
      BY <1>7 DEF In
    <2>2. i \in 1..n /\ i # p
      BY <1>7, <2>1 DEF n
    <2>3. CASE i < p
      <3>1. i \in 1..Len(t)
        BY <1>1, <1>4, <2>2, <2>3
      <3>2. t[i] = y
        BY <1>5, <2>1, <2>3, <3>1
      <3>3. QED
        BY <3>1, <3>2 DEF In
    <2>4. CASE i > p
      <3>1. i - 1 \in 1..Len(t) /\ ~(i - 1 < p) /\ (i - 1) + 1 = i
        BY <1>1, <1>4, <2>2, <2>4
      <3>2. t[i - 1] = y
        BY <1>5, <2>1, <3>1
      <3>3. QED
        BY <3>1, <3>2 DEF In
    <2>5. QED
      BY <1>1, <2>2, <2>3, <2>4
  <1>8. Relay!RemoveAt(s, p) = t
    BY DEF Relay!RemoveAt, t, before, after
  <1>9. QED
    BY <1>4, <1>5, <1>6, <1>7, <1>8 DEF n

LEMMA InWithout ==
  ASSUME NEW T, NEW s \in Seq(T), NEW gone
  PROVE  /\ Relay!Without(s, gone) \in Seq(T)
         /\ \A y : In(y, Relay!Without(s, gone)) <=> In(y, s) /\ y \notin gone
  <1> DEFINE N == Len(s)
             S == Seq(T)
             Onto(n, b) == IF s[n] \in gone THEN b ELSE Append(b, s[n])
             turn == [n \in 1..N |-> [b \in S |-> Onto(n, b)]]
             none == << >>
             Body(f) == [n \in 0..N |-> IF n = 0 THEN << >>
                                        ELSE Onto(n, f[n - 1])]
             left == CHOOSE g : g = Body(g)
  <1>1. N \in Nat /\ none \in S /\ \A n \in 1..N : s[n] \in T
    OBVIOUS
  <1>2. Relay!Without(s, gone) = left[N]
    BY DEF Relay!Without
  <1>3. \A n \in 1..N, b \in S : Onto(n, b) \in S
    BY <1>1
  <1>4. turn \in [1..N -> [S -> S]]
    BY <1>3
  <1>5. \A n \in 1..N, b \in S : turn[n][b] = Onto(n, b)
    OBVIOUS
  <1> HIDE DEF N, S
  <1> HIDE DEF Onto
  <1>6. PICK f \in [0..N -> S] : f[0] = << >> /\ \A n \in 1..N : f[n] = turn[n][f[n - 1]]
    <2> HIDE DEF turn, none
    <2>1. \E f \in [0..N -> S] : Recurs(f, N, none, turn)
      BY <1>1, <1>4, RecursionExists
    <2>2. QED
      BY <2>1 DEF none, Recurs
  <1> HIDE DEF turn
  <1>7. f = Body(f)
    <2>1. ASSUME NEW n \in 1..N PROVE f[n] = Onto(n, f[n - 1])
      BY <1>1, <1>5, <1>6
    <2>2. \A n \in 0..N : f[n] = IF n = 0 THEN << >> ELSE Onto(n, f[n - 1])
      BY <1>1, <1>6, <2>1
    <2>3. QED
      BY <2>2
  <1>8. left = Body(left)
    BY <1>7
  <1> HIDE DEF left
  <1> DEFINE Holds(n) ==
               /\ left[n] \in S
               /\ \A y : In(y, left[n]) <=> y \notin gone /\ \E i \in 1..N : i <= n /\ s[i] = y
             U == {n \in 0..N : Holds(n)}
  <1>9. 0..N \subseteq U
    <2>1. 0 \in U
      <3>1. left[0] = << >>
        BY <1>1, <1>8
      <3>2. \A y : ~In(y, << >>)
        BY DEF In
      <3>3. \A i \in 1..N : ~(i <= 0)
        BY <1>1
      <3>4. QED
        BY <1>1, <3>1, <3>2, <3>3
    <2>2. ASSUME NEW n \in 1..N, n - 1 \in U PROVE n \in U
      <3>1. Holds(n - 1) /\ n \in 0..N /\ s[n] \in T
        BY <1>1, <2>2
      <3>2. left[n] = IF s[n] \in gone THEN left[n - 1] ELSE Append(left[n - 1], s[n])
        <4>1. left[n] = Onto(n, left[n - 1])
          BY <1>1, <1>8
        <4>2. QED
          BY <4>1 DEF Onto
      <3>3. \A i \in 1..N : i <= n <=> i <= n - 1 \/ i = n
        BY <1>1
      <3>4. CASE s[n] \in gone
        BY <3>1, <3>2, <3>3, <3>4
      <3>5. CASE s[n] \notin gone
        <4>1. left[n] = Append(left[n - 1], s[n])
          BY <3>2, <3>5
        <4>2. /\ left[n] \in S
              /\ \A y : In(y, left[n]) <=> In(y, left[n - 1]) \/ y = s[n]
          BY <3>1, <4>1, InAppend DEF S
        <4>3. QED
          BY <3>1, <3>3, <3>5, <4>2
      <3>6. QED
        BY <3>4, <3>5
    <2> HIDE DEF U
    <2>3. QED
      BY <1>1, <2>1, <2>2, UpTo
  <1>10. Holds(N)
    <2>1. N \in 0..N
      BY <1>1
    <2>2. QED
      BY <1>9, <2>1
  <1>11. \A y : (\E i \in 1..N : i <= N /\ s[i] = y) <=> In(y, s)
    BY <1>1 DEF In, N
  <1>12. QED
    BY <1>2, <1>10, <1>11 DEF S

-----------------------------------------------------------------------------
(* The relay firewall: the rules, and what one call of a tool does to them.*)

RuleSet ==
    [num : Nat, proto : {"tcp", "udp"}, from : Relays \cup {"any"},
     to : {"accept", "drop", "chain", "nft"}]
Words == {"established", "drop"} \cup Relays

\* A rule for traffic to the engine.
EngineRule(r, n) ==
    r \in RuleSet /\ r.num = n /\ r.proto = "udp" /\ r.to \in {"accept", "drop"}

\* The calls of a guard and of a repair of one number, by firewall.
IptablesCall(c, n) ==
    /\ c.boot = FALSE
    /\ \/ c.does \in {"unhook", "unaccept", "hook", "accept"} /\ c.arg = n
       \/ c.does \in {"flush", "deleteChain", "newChain"}
       \/ c.does = "append" /\ c.arg \in Words
UfwCall(c, n) ==
    /\ c.boot = FALSE
    /\ \/ c.does = "list" /\ c.arg = n
       \/ c.does = "delete" /\ c.arg \in Nat
       \/ c.does \in {"insert", "allow"} /\ EngineRule(c.arg, n)
FirewalldCall(c, n) ==
    /\ c.boot \in BOOLEAN
    /\ \/ c.does \in {"unport", "unrich"} /\ c.arg = n
       \/ c.does \in {"port", "rich"} /\ EngineRule(c.arg, n)
GuardCall(c, n, wall) ==
    \/ wall = "iptables" /\ IptablesCall(c, n)
    \/ wall = "ufw" /\ UfwCall(c, n)
    \/ wall = "firewalld" /\ FirewalldCall(c, n)
\* A repair looks before it touches the firewall.
LookCall(c, n, wall) ==
    /\ c.boot = FALSE /\ c.arg = n
    /\ c.does \in {"judge", "nft"}
Names == {"unhook", "unaccept", "hook", "accept", "flush", "deleteChain", "newChain",
          "append", "list", "delete", "insert", "allow", "unport", "unrich", "port",
          "rich", "judge", "nft"}
AllCalls == [does : Names, arg : Nat \cup RuleSet \cup Words, boot : BOOLEAN]
GuardSet(n, wall) == {c \in AllCalls : GuardCall(c, n, wall)}
AnySet(n, wall) == {c \in AllCalls : GuardCall(c, n, wall) \/ LookCall(c, n, wall)}

LEMMA JumpIsRule == ASSUME NEW n \in Nat PROVE Relay!Jump(n) \in RuleSet
  BY DEF Relay!Jump, Relay!Rule, RuleSet

\* What is taken away.
LEMMA Removals ==
  ASSUME NEW s \in Seq(RuleSet), NEW c
  PROVE  /\ c.does = "unhook" =>
              /\ Relay!Edited(c, s) \in Seq(RuleSet)
              /\ \A y : In(y, Relay!Edited(c, s)) <=> In(y, s) /\ y # Relay!Jump(c.arg)
         /\ c.does \in {"unaccept", "unport"} =>
              /\ Relay!Edited(c, s) \in Seq(RuleSet)
              /\ \A y : In(y, Relay!Edited(c, s)) <=>
                          In(y, s) /\ ~(y.num = c.arg /\ y.to = "accept" /\ y.from = "any")
         /\ c.does = "unrich" =>
              /\ Relay!Edited(c, s) \in Seq(RuleSet)
              /\ \A y : In(y, Relay!Edited(c, s)) <=>
                          In(y, s) /\ ~(y.num = c.arg /\ (y.from # "any" \/ y.to = "drop"))
  <1>1. \A y : y \in Relay!Range(s) <=> In(y, s)
    BY InIsRange
  <1>2. ASSUME c.does = "unhook"
        PROVE  /\ Relay!Edited(c, s) \in Seq(RuleSet)
               /\ \A y : In(y, Relay!Edited(c, s)) <=> In(y, s) /\ y # Relay!Jump(c.arg)
    <2>1. Relay!Edited(c, s) = Relay!Without(s, {Relay!Jump(c.arg)})
      BY <1>2 DEF Relay!Edited
    <2>2. QED
      BY <2>1, InWithout
  <1>3. ASSUME c.does \in {"unaccept", "unport"}
        PROVE  /\ Relay!Edited(c, s) \in Seq(RuleSet)
               /\ \A y : In(y, Relay!Edited(c, s)) <=>
                          In(y, s) /\ ~(y.num = c.arg /\ y.to = "accept" /\ y.from = "any")
    <2>1. Relay!Edited(c, s) = Relay!Without(s, Relay!Whole(s, c.arg))
      BY <1>3 DEF Relay!Edited
    <2>2. \A y : In(y, s) => (y \in Relay!Whole(s, c.arg)
                                <=> y.num = c.arg /\ y.to = "accept" /\ y.from = "any")
      BY <1>1 DEF Relay!Whole
    <2>3. QED
      BY <2>1, <2>2, InWithout
  <1>4. ASSUME c.does = "unrich"
        PROVE  /\ Relay!Edited(c, s) \in Seq(RuleSet)
               /\ \A y : In(y, Relay!Edited(c, s)) <=>
                          In(y, s) /\ ~(y.num = c.arg /\ (y.from # "any" \/ y.to = "drop"))
    <2>1. Relay!Edited(c, s) = Relay!Without(s, Relay!Narrowing(s, c.arg))
      BY <1>4 DEF Relay!Edited
    <2>2. \A y : In(y, s) => (y \in Relay!Narrowing(s, c.arg)
                                <=> y.num = c.arg /\ (y.from # "any" \/ y.to = "drop"))
      BY <1>1 DEF Relay!Narrowing
    <2>3. QED
      BY <2>1, <2>2, InWithout
  <1>5. QED
    BY <1>2, <1>3, <1>4

\* What is added.
LEMMA AddsRule ==
  ASSUME NEW s \in Seq(RuleSet), NEW r \in RuleSet
  PROVE  /\ Relay!First(s, r) \in Seq(RuleSet)
         /\ \A y : In(y, Relay!First(s, r)) <=> In(y, s) \/ y = r
         /\ Relay!AtEnd(s, r) \in Seq(RuleSet)
         /\ \A y : In(y, Relay!AtEnd(s, r)) <=> In(y, s) \/ y = r
         /\ Relay!Placed(s, r) \in Seq(RuleSet)
         /\ \A y : In(y, Relay!Placed(s, r)) <=> In(y, s) \/ y = r
  <1>1. \A y : y \in Relay!Range(s) <=> In(y, s)
    BY InIsRange
  <1> DEFINE front == <<r>> \o s
             back == Append(s, r)
             whole == {x \in Relay!Range(s) : x.from = "any"}
             some == Relay!Without(s, whole)
             others == Relay!Without(s, Relay!Range(s) \ whole)
             mid == some \o <<r>> \o others
  <1>2. front \in Seq(RuleSet) /\ \A y : In(y, front) <=> In(y, s) \/ y = r
    BY InFront
  <1>3. back \in Seq(RuleSet) /\ \A y : In(y, back) <=> In(y, s) \/ y = r
    BY InAppend
  <1>4. mid \in Seq(RuleSet) /\ \A y : In(y, mid) <=> In(y, s) \/ y = r
    <2>1. some \in Seq(RuleSet) /\ \A y : In(y, some) <=> In(y, s) /\ y \notin whole
      BY InWithout
    <2>2. others \in Seq(RuleSet)
          /\ \A y : In(y, others) <=> In(y, s) /\ y \notin Relay!Range(s) \ whole
      BY InWithout
    <2> DEFINE two == some \o <<r>>
    <2>3. \A y : y \in whole => In(y, s)
      BY <1>1
    <2> HIDE DEF whole, some, others
    <2>4. two \in Seq(RuleSet) /\ \A y : In(y, two) <=> In(y, some) \/ y = r
      <3>1. two = Append(some, r)
        BY <2>1
      <3>2. /\ Append(some, r) \in Seq(RuleSet)
            /\ \A y : In(y, Append(some, r)) <=> In(y, some) \/ y = r
        BY <2>1, InAppend
      <3>3. QED
        BY <3>1, <3>2
    <2> HIDE DEF two
    <2>5. two \o others \in Seq(RuleSet)
          /\ \A y : In(y, two \o others) <=> In(y, two) \/ In(y, others)
      BY <2>2, <2>4, InConcat
    <2>6. \A y : In(y, two \o others) <=> In(y, s) \/ y = r
      BY <1>1, <2>1, <2>2, <2>3, <2>4, <2>5
    <2>7. QED
      BY <2>5, <2>6 DEF two
  <1> HIDE DEF front, back, mid
  <1>5. /\ (Relay!First(s, r) = s /\ In(r, s)) \/ Relay!First(s, r) = front
        /\ (Relay!AtEnd(s, r) = s /\ In(r, s)) \/ Relay!AtEnd(s, r) = back
        /\ (Relay!Placed(s, r) = s /\ In(r, s)) \/ Relay!Placed(s, r) \in {front, back, mid}
    BY <1>1, Zenon DEF Relay!First, Relay!AtEnd, Relay!Placed, front, back, mid
  <1>6. QED
    BY <1>2, <1>3, <1>4, <1>5

LEMMA Additions ==
  ASSUME NEW s \in Seq(RuleSet), NEW c, c.does \in {"insert", "allow", "port", "rich"},
         c.arg \in RuleSet
  PROVE  /\ Relay!Edited(c, s) \in Seq(RuleSet)
         /\ \A y : In(y, Relay!Edited(c, s)) <=> In(y, s) \/ y = c.arg
  <1>1. Relay!Edited(c, s) \in {Relay!First(s, c.arg), Relay!AtEnd(s, c.arg), Relay!Placed(s, c.arg)}
    BY DEF Relay!Edited
  <1> DEFINE r == c.arg
  <1>2. r \in RuleSet
    OBVIOUS
  <1> HIDE DEF r
  <1>3. /\ Relay!First(s, r) \in Seq(RuleSet)
        /\ \A y : In(y, Relay!First(s, r)) <=> In(y, s) \/ y = r
        /\ Relay!AtEnd(s, r) \in Seq(RuleSet)
        /\ \A y : In(y, Relay!AtEnd(s, r)) <=> In(y, s) \/ y = r
        /\ Relay!Placed(s, r) \in Seq(RuleSet)
        /\ \A y : In(y, Relay!Placed(s, r)) <=> In(y, s) \/ y = r
    BY <1>2, AddsRule
  <1>4. Relay!Edited(c, s) \in {Relay!First(s, r), Relay!AtEnd(s, r), Relay!Placed(s, r)}
    BY <1>1 DEF r
  <1>5. CASE Relay!Edited(c, s) = Relay!First(s, r)
    BY <1>3, <1>5, Zenon DEF r
  <1>6. CASE Relay!Edited(c, s) = Relay!AtEnd(s, r)
    BY <1>3, <1>6, Zenon DEF r
  <1>7. CASE Relay!Edited(c, s) = Relay!Placed(s, r)
    BY <1>3, <1>7, Zenon DEF r
  <1>8. QED
    BY <1>4, <1>5, <1>6, <1>7

\* The calls that put a rule of iptables in front.
LEMMA Fronted ==
  ASSUME NEW s \in Seq(RuleSet), NEW c
  PROVE  /\ c.does = "hook" => Relay!Edited(c, s) \in {s, <<Relay!Jump(c.arg)>> \o s}
         /\ c.does = "hook" /\ chain # Relay!Absent
              => Relay!Edited(c, s) = <<Relay!Jump(c.arg)>> \o s
         /\ c.does = "accept"
              => Relay!Edited(c, s) = Relay!First(s, Relay!Rule(c.arg, "udp", "any", "accept"))
         /\ c.does = "nft" =>
              \/ Relay!Edited(c, s) = s
              \/ /\ Relay!Of(c.arg) = {} /\ Relay!Backend = "iptables"
                 /\ Relay!Edited(c, s) = <<Relay!Rule(c.arg, "udp", "any", "nft")>> \o s
         /\ c.does \in {"flush", "deleteChain", "newChain", "append", "list", "judge"}
              => Relay!Edited(c, s) = s
         /\ c.does = "delete" /\ c.arg \in 1..Len(s)
              => Relay!Edited(c, s) = Relay!RemoveAt(s, c.arg)
  BY DEF Relay!Edited

-----------------------------------------------------------------------------
(* The relay firewall: a call edits its own number; what ufw deletes.      *)

Adder == {"insert", "allow", "port", "rich"}

\* One call edits the rules of its own number only, and adds its own rule only.
LEMMA EditsItsNumber ==
  ASSUME NEW n \in Nat, NEW s \in Seq(RuleSet), NEW c \in AnySet(n, Relay!Backend),
         c.does = "delete" => c.arg \in 1..Len(s) /\ Relay!MentionsPort(s[c.arg], n)
  PROVE  /\ Relay!Edited(c, s) \in Seq(RuleSet)
         /\ \A y : ~Relay!MentionsPort(y, n) => (In(y, Relay!Edited(c, s)) <=> In(y, s))
         /\ Relay!Backend # "iptables" =>
              \A y : In(y, Relay!Edited(c, s)) => In(y, s) \/ (c.does \in Adder /\ y = c.arg)
  <1> DEFINE t == Relay!Edited(c, s)
             Goal == /\ t \in Seq(RuleSet)
                     /\ \A y : ~Relay!MentionsPort(y, n) => (In(y, t) <=> In(y, s))
                     /\ Relay!Backend # "iptables" =>
                          \A y : In(y, t) => In(y, s) \/ (c.does \in Adder /\ y = c.arg)
  <1>0. \A y : ~Relay!MentionsPort(y, n) => y.num # n
    BY DEF Relay!MentionsPort
  <1>1. c.does \in Names /\ c.boot \in BOOLEAN
    BY DEF AnySet, AllCalls
  <1>2. /\ c.does \in {"unhook", "unaccept", "unport", "unrich", "nft", "hook", "accept"} => c.arg = n
        /\ c.does \in {"hook", "accept"} => Relay!Backend = "iptables"
        /\ c.does \in Adder => c.arg \in RuleSet /\ c.arg.num = n
    BY DEF AnySet, GuardCall, LookCall, IptablesCall, UfwCall, FirewalldCall, EngineRule, Adder
  <1>3. Relay!Jump(n).num = n /\ Relay!Jump(n) \in RuleSet
    BY JumpIsRule DEF Relay!Jump, Relay!Rule
  <1>4. \A from \in Relays \cup {"any"}, to \in {"accept", "drop", "chain", "nft"} :
          Relay!Rule(n, "udp", from, to) \in RuleSet /\ Relay!Rule(n, "udp", from, to).num = n
    BY DEF Relay!Rule, RuleSet
  <1>5. ASSUME t = s PROVE Goal
    BY <1>5
  <1>6. ASSUME c.does = "unhook" PROVE Goal
    <2>1. t \in Seq(RuleSet) /\ \A y : In(y, t) <=> In(y, s) /\ y # Relay!Jump(n)
      BY <1>2, <1>6, Removals
    <2>2. QED
      BY <1>0, <1>3, <2>1
  <1>7. ASSUME c.does \in {"unaccept", "unport"} PROVE Goal
    <2>1. /\ t \in Seq(RuleSet)
          /\ \A y : In(y, t) <=> In(y, s) /\ ~(y.num = n /\ y.to = "accept" /\ y.from = "any")
      BY <1>2, <1>7, Removals
    <2>2. QED
      BY <1>0, <2>1
  <1>8. ASSUME c.does = "unrich" PROVE Goal
    <2>1. /\ t \in Seq(RuleSet)
          /\ \A y : In(y, t) <=> In(y, s) /\ ~(y.num = n /\ (y.from # "any" \/ y.to = "drop"))
      BY <1>2, <1>8, Removals
    <2>2. QED
      BY <1>0, <2>1
  <1>9. ASSUME c.does \in Adder PROVE Goal
    <2>1. t \in Seq(RuleSet) /\ \A y : In(y, t) <=> In(y, s) \/ y = c.arg
      BY <1>2, <1>9, Additions DEF Adder
    <2>2. QED
      BY <1>0, <1>2, <1>9, <2>1
  <1>10. ASSUME NEW r \in RuleSet, r.num = n, t = <<r>> \o s, Relay!Backend = "iptables" PROVE Goal
    <2>1. t \in Seq(RuleSet) /\ \A y : In(y, t) <=> In(y, s) \/ y = r
      BY <1>10, InFront
    <2>2. QED
      BY <1>0, <1>10, <2>1
  <1>11. ASSUME c.does = "accept" PROVE Goal
    <2> DEFINE r == Relay!Rule(n, "udp", "any", "accept")
    <2>1. r \in RuleSet /\ r.num = n
      BY <1>4
    <2>2. t = Relay!First(s, r)
      <3>1. t = Relay!First(s, Relay!Rule(c.arg, "udp", "any", "accept"))
        BY <1>11, Fronted
      <3>2. c.arg = n
        BY <1>2, <1>11
      <3>3. QED
        BY <3>1, <3>2
    <2> HIDE DEF r, t
    <2>3. /\ Relay!First(s, r) \in Seq(RuleSet)
          /\ \A y : In(y, Relay!First(s, r)) <=> In(y, s) \/ y = r
      BY <2>1, AddsRule
    <2>4. QED
      BY <1>0, <1>2, <1>11, <2>1, <2>2, <2>3
  <1>12. ASSUME c.does = "hook" PROVE Goal
    BY <1>2, <1>3, <1>5, <1>10, <1>12, Fronted
  <1>13. ASSUME c.does = "nft" PROVE Goal
    <2> DEFINE r == Relay!Rule(n, "udp", "any", "nft")
    <2>1. r \in RuleSet /\ r.num = n
      BY <1>4
    <2>2. t = s \/ (Relay!Backend = "iptables" /\ t = <<r>> \o s)
      <3>1. \/ t = s
            \/ Relay!Backend = "iptables" /\ t = <<Relay!Rule(c.arg, "udp", "any", "nft")>> \o s
        BY <1>13, Fronted
      <3>2. c.arg = n
        BY <1>2, <1>13
      <3>3. QED
        BY <3>1, <3>2
    <2> HIDE DEF r, t, Goal
    <2>3. QED
      BY <1>5, <1>10, <2>1, <2>2
  <1>14. ASSUME c.does = "delete" PROVE Goal
    <2>1. t = Relay!RemoveAt(s, c.arg) /\ c.arg \in 1..Len(s) /\ Relay!MentionsPort(s[c.arg], n)
      BY <1>14, Fronted
    <2>2. /\ t \in Seq(RuleSet) /\ \A y : In(y, t) => In(y, s)
          /\ \A y : In(y, s) /\ y # s[c.arg] => In(y, t)
      BY <2>1, InRest
    <2>3. QED
      BY <2>1, <2>2
  <1>15. ASSUME c.does \in {"flush", "deleteChain", "newChain", "append", "list", "judge"} PROVE Goal
    BY <1>5, <1>15, Fronted
  <1>16. Goal
    BY <1>1, <1>6, <1>7, <1>8, <1>9, <1>11, <1>12, <1>13, <1>14, <1>15 DEF Names, Adder
  <1>17. QED
    BY <1>16

-----------------------------------------------------------------------------
\* What ufw_clear deletes: every rule of the number, the highest first.
Descends(d, s, n) ==
    /\ \A i \in 1..Len(d) : /\ d[i].does = "delete" /\ d[i].arg \in 1..Len(s)
                            /\ Relay!MentionsPort(s[d[i].arg], n)
    /\ \A i, j \in 1..Len(d) : i < j => d[j].arg < d[i].arg

LEMMA DeletesOfNumber ==
  ASSUME NEW n \in Nat, inForce \in Seq(RuleSet), Relay!Backend = "ufw"
  PROVE  LET d == Relay!Deletions(n)
         IN  /\ d \in Seq(GuardSet(n, "ufw")) /\ Descends(d, inForce, n)
             /\ \A p \in 1..Len(inForce) :
                  Relay!MentionsPort(inForce[p], n) => In(Relay!Call("delete", p), d)
  <1> DEFINE N == Len(inForce)
             S == Seq(GuardSet(n, "ufw"))
             Hit(k) == Relay!MentionsPort(inForce[k], n)
             Cut(k) == Relay!Call("delete", k)
             Onto(k, b) == IF Hit(k) THEN <<Cut(k)>> \o b ELSE b
             turn == [k \in 1..N |-> [b \in S |-> Onto(k, b)]]
             none == << >>
             Body(f) == [k \in 0..N |-> IF k = 0 THEN << >> ELSE Onto(k, f[k - 1])]
             left == CHOOSE g : g = Body(g)
  <1>1. N \in Nat /\ none \in S
    OBVIOUS
  <1>2. Relay!Deletions(n) = left[N]
    BY DEF Relay!Deletions
  <1>3. \A k \in 1..N : Cut(k) \in GuardSet(n, "ufw") /\ Cut(k).does = "delete" /\ Cut(k).arg = k
    BY <1>1 DEF Relay!Call, GuardSet, AllCalls, Names, GuardCall, UfwCall
  <1> HIDE DEF N, S, Cut, Hit
  <1>4. ASSUME NEW k \in 1..N, NEW b \in S
        PROVE  /\ <<Cut(k)>> \o b \in S /\ Len(<<Cut(k)>> \o b) = Len(b) + 1
               /\ (<<Cut(k)>> \o b)[1] = Cut(k)
               /\ \A i \in 1..Len(b) : (<<Cut(k)>> \o b)[i + 1] = b[i]
               /\ \A y : In(y, <<Cut(k)>> \o b) <=> In(y, b) \/ y = Cut(k)
    BY <1>3, InFront DEF S
  <1>5. \A k \in 1..N, b \in S : Onto(k, b) \in S
    BY <1>4
  <1> HIDE DEF Onto
  <1>6. turn \in [1..N -> [S -> S]] /\ \A k \in 1..N, b \in S : turn[k][b] = Onto(k, b)
    BY <1>5
  <1>7. PICK f \in [0..N -> S] : f[0] = << >> /\ \A k \in 1..N : f[k] = turn[k][f[k - 1]]
    <2> HIDE DEF turn, none
    <2>1. \E f \in [0..N -> S] : Recurs(f, N, none, turn)
      BY <1>1, <1>6, RecursionExists
    <2>2. QED
      BY <2>1 DEF none, Recurs
  <1> HIDE DEF turn
  <1>8. f = Body(f)
    <2>1. ASSUME NEW k \in 1..N PROVE f[k] = Onto(k, f[k - 1])
      BY <1>1, <1>6, <1>7
    <2>2. \A k \in 0..N : f[k] = IF k = 0 THEN << >> ELSE Onto(k, f[k - 1])
      BY <1>1, <1>7, <2>1
    <2>3. QED
      BY <2>2
  <1>9. left = Body(left)
    BY <1>8
  <1> HIDE DEF left
  <1> DEFINE Holds(k) ==
               /\ left[k] \in S
               /\ \A i \in 1..Len(left[k]) : /\ left[k][i].does = "delete"
                                             /\ left[k][i].arg \in 1..k
                                             /\ Hit(left[k][i].arg)
               /\ \A i, j \in 1..Len(left[k]) : i < j => left[k][j].arg < left[k][i].arg
               /\ \A p \in 1..k : Hit(p) => In(Cut(p), left[k])
             U == {k \in 0..N : Holds(k)}
  <1>10. 0..N \subseteq U
    <2>1. 0 \in U
      <3>1. left[0] = << >> /\ << >> \in S
        BY <1>1, <1>9
      <3>2. 0 \in 0..N /\ Len(<< >>) = 0 /\ 1..0 = {}
        BY <1>1
      <3>3. QED
        BY <3>1, <3>2
    <2>2. ASSUME NEW k \in 1..N, k - 1 \in U PROVE k \in U
      <3>1. Holds(k - 1) /\ k \in 0..N /\ k \in Nat
        BY <1>1, <2>2
      <3> DEFINE b == left[k - 1]
      <3>2. left[k] = IF Hit(k) THEN <<Cut(k)>> \o b ELSE b
        <4>1. left[k] = Onto(k, left[k - 1])
          BY <1>1, <1>9
        <4>2. QED
          BY <4>1 DEF Onto
      <3>3. b \in S /\ Len(b) \in Nat
        BY <3>1 DEF S
      <3>4. \A i \in 1..Len(b) : b[i].does = "delete" /\ b[i].arg \in 1..k - 1 /\ Hit(b[i].arg)
        BY <3>1
      <3>5. \A i, j \in 1..Len(b) : i < j => b[j].arg < b[i].arg
        BY <3>1
      <3>6. \A p \in 1..k - 1 : Hit(p) => In(Cut(p), b)
        BY <3>1
      <3> HIDE DEF b
      <3>7. \A p : p \in 1..k <=> p \in 1..k - 1 \/ p = k
        BY <3>1
      <3>8. CASE ~Hit(k)
        <4>1. left[k] = b
          BY <3>2, <3>8
        <4>2. \A i \in 1..Len(b) : b[i].arg \in 1..k
          BY <3>4, <3>7
        <4>3. \A p \in 1..k : Hit(p) => In(Cut(p), b)
          BY <3>6, <3>7, <3>8
        <4>4. QED
          BY <3>1, <3>3, <3>4, <3>5, <4>1, <4>2, <4>3
      <3>9. CASE Hit(k)
        <4> DEFINE t == <<Cut(k)>> \o b
        <4>1. left[k] = t
          BY <3>2, <3>9
        <4>2. /\ t \in S /\ Len(t) = Len(b) + 1 /\ t[1] = Cut(k)
              /\ \A i \in 1..Len(b) : t[i + 1] = b[i]
              /\ \A y : In(y, t) <=> In(y, b) \/ y = Cut(k)
          BY <1>4, <3>3
        <4> HIDE DEF t
        <4>3. \A i \in 1..Len(t) : i = 1 \/ (i - 1 \in 1..Len(b) /\ (i - 1) + 1 = i)
          BY <3>3, <4>2
        <4>3a. \A i \in 1..Len(t) : i = 1 \/ (i - 1 \in 1..Len(b) /\ t[i] = b[i - 1])
          BY <4>2, <4>3
        <4>4. \A i \in 1..Len(t) : t[i].does = "delete" /\ t[i].arg \in 1..k /\ Hit(t[i].arg)
          BY <1>3, <3>4, <3>7, <3>9, <4>2, <4>3a
        <4>5. ASSUME NEW i \in 1..Len(t), NEW j \in 1..Len(t), i < j PROVE t[j].arg < t[i].arg
          <5>1. j - 1 \in 1..Len(b) /\ t[j] = b[j - 1] /\ j - 1 \in Nat
            BY <4>3a, <4>5
          <5>2. CASE i = 1
            <6>1. t[i].arg = k /\ t[j].arg \in 1..k - 1
              BY <1>3, <3>4, <4>2, <5>1, <5>2
            <6>2. QED
              BY <3>1, <6>1
          <5>3. CASE i # 1
            <6>1. i - 1 \in 1..Len(b) /\ t[i] = b[i - 1] /\ i - 1 < j - 1
              BY <4>3a, <4>5, <5>3
            <6>2. QED
              BY <3>5, <5>1, <6>1
          <5>4. QED
            BY <5>2, <5>3
        <4>6. \A p \in 1..k : Hit(p) => In(Cut(p), t)
          BY <3>6, <3>7, <4>2
        <4>7. QED
          BY <3>1, <4>1, <4>2, <4>4, <4>5, <4>6
      <3>10. QED
        BY <3>8, <3>9
    <2> HIDE DEF U
    <2>3. QED
      BY <1>1, <2>1, <2>2, UpTo
  <1>11. Holds(N)
    <2>1. N \in 0..N
      BY <1>1
    <2>2. QED
      BY <1>10, <2>1
  <1>12. QED
    BY <1>2, <1>11 DEF S, N, Hit, Cut, Descends

-----------------------------------------------------------------------------
(* The relay firewall: the order of a list of calls.                       *)

\* The order of a guard that narrows: it clears, makes the chain, hooks it, fills it.
Rank(c) ==
    CASE c.does \in {"unhook", "unaccept", "flush", "deleteChain", "accept", "list",
                     "delete", "unport", "unrich"} -> 0
      [] c.does = "newChain" -> 1
      [] c.does = "hook" -> 2
      [] OTHER -> 3
Ordered(s) == \A i, j \in 1..Len(s) : i < j => Rank(s[i]) <= Rank(s[j])
Flat(s, k) == \A i \in 1..Len(s) : Rank(s[i]) = k

LEMMA OrderedJoin ==
  ASSUME NEW T, NEW s \in Seq(T), NEW t \in Seq(T), Ordered(s), Ordered(t),
         \A x, y : In(x, s) /\ In(y, t) => Rank(x) <= Rank(y)
  PROVE  Ordered(s \o t)
  <1> DEFINE u == s \o t
             n == Len(s)
  <1>1. /\ u \in Seq(T) /\ Len(u) = n + Len(t)
        /\ \A i \in 1..n : u[i] = s[i]
        /\ \A i \in 1..Len(t) : u[n + i] = t[i]
    BY Joined
  <1>2. n \in Nat /\ Len(t) \in Nat /\ n = Len(s)
    OBVIOUS
  <1> HIDE DEF u, n
  <1>3. ASSUME NEW i \in 1..Len(u), NEW j \in 1..Len(u), i < j PROVE Rank(u[i]) <= Rank(u[j])
    <2>1. CASE j <= n
      <3>1. i \in 1..n /\ j \in 1..n
        BY <1>1, <1>2, <1>3, <2>1
      <3>2. QED
        BY <1>1, <1>2, <1>3, <3>1 DEF Ordered
    <2>2. CASE i > n
      <3>1. i - n \in 1..Len(t) /\ j - n \in 1..Len(t) /\ i - n < j - n
            /\ n + (i - n) = i /\ n + (j - n) = j
        BY <1>1, <1>2, <1>3, <2>2
      <3>2. u[n + (i - n)] = t[i - n] /\ u[n + (j - n)] = t[j - n]
        BY <1>1, <3>1
      <3>2a. u[i] = t[i - n] /\ u[j] = t[j - n]
        BY <3>1, <3>2
      <3>3. QED
        BY <3>1, <3>2a DEF Ordered
    <2>3. CASE i <= n /\ n < j
      <3>1. i \in 1..n /\ j - n \in 1..Len(t) /\ n + (j - n) = j
        BY <1>1, <1>2, <1>3, <2>3
      <3>2. u[i] = s[i] /\ u[n + (j - n)] = t[j - n]
        BY <1>1, <3>1
      <3>2a. u[j] = t[j - n]
        BY <3>1, <3>2
      <3>3. In(s[i], s) /\ In(t[j - n], t)
        BY <1>2, <3>1 DEF In
      <3>4. QED
        BY <3>2, <3>2a, <3>3
    <2>4. QED
      BY <1>1, <1>2, <2>1, <2>2, <2>3
  <1>4. QED
    BY <1>3 DEF Ordered, u

LEMMA FlatIsOrdered ==
  ASSUME NEW s, NEW k \in Nat, Flat(s, k)
  PROVE  Ordered(s) /\ \A x : In(x, s) => Rank(x) = k
  BY DEF Flat, Ordered, In

\* What is left of a list after its first member.
LEMMA InTail ==
  ASSUME NEW T, NEW s \in Seq(T), s # << >>
  PROVE  /\ Head(s) = s[1] /\ s[1] \in T /\ In(s[1], s) /\ Len(s) \in Nat /\ Len(s) >= 1
         /\ Tail(s) \in Seq(T) /\ Len(Tail(s)) = Len(s) - 1
         /\ \A i \in 1..Len(Tail(s)) : Tail(s)[i] = s[i + 1] /\ i + 1 \in 1..Len(s)
         /\ \A y : In(y, Tail(s)) => In(y, s)
         /\ \A y : In(y, s) => y = s[1] \/ In(y, Tail(s))
  <1> DEFINE t == Tail(s)
  <1>1. Head(s) = s[1] /\ Len(s) \in Nat /\ Len(s) >= 1 /\ 1 \in 1..Len(s)
    OBVIOUS
  <1>2. t \in Seq(T) /\ Len(t) = Len(s) - 1 /\ \A i \in 1..Len(t) : t[i] = s[i + 1]
    OBVIOUS
  <1>3. s[1] \in T /\ In(s[1], s)
    BY <1>1 DEF In
  <1> HIDE DEF t
  <1>4. \A i \in 1..Len(t) : i + 1 \in 1..Len(s)
    BY <1>1, <1>2
  <1>5. ASSUME NEW y, In(y, t) PROVE In(y, s)
    BY <1>2, <1>4, <1>5 DEF In
  <1>6. ASSUME NEW y, In(y, s), y # s[1] PROVE In(y, t)
    <2>1. PICK i \in 1..Len(s) : s[i] = y
      BY <1>6 DEF In
    <2>2. i - 1 \in 1..Len(t) /\ (i - 1) + 1 = i
      BY <1>1, <1>2, <1>6, <2>1
    <2>3. t[i - 1] = y
      BY <1>2, <2>1, <2>2
    <2>4. QED
      BY <2>2, <2>3 DEF In
  <1>7. QED
    BY <1>1, <1>2, <1>3, <1>4, <1>5, <1>6 DEF t

LEMMA OrderedTail ==
  ASSUME NEW T, NEW s \in Seq(T), s # << >>, Ordered(s)
  PROVE  Ordered(Tail(s)) /\ \A y : In(y, Tail(s)) => Rank(s[1]) <= Rank(y)
  <1> DEFINE t == Tail(s)
  <1>1. /\ Len(s) \in Nat /\ Len(t) = Len(s) - 1 /\ Len(s) >= 1
        /\ \A i \in 1..Len(t) : t[i] = s[i + 1] /\ i + 1 \in 1..Len(s)
    BY InTail
  <1> HIDE DEF t
  <1>2. Ordered(t)
    <2>1. ASSUME NEW i \in 1..Len(t), NEW j \in 1..Len(t), i < j PROVE Rank(t[i]) <= Rank(t[j])
      <3>1. i + 1 \in 1..Len(s) /\ j + 1 \in 1..Len(s) /\ i + 1 < j + 1
        BY <1>1, <2>1
      <3>2. Rank(s[i + 1]) <= Rank(s[j + 1])
        BY <3>1 DEF Ordered
      <3>3. QED
        BY <1>1, <3>2
    <2>2. QED
      BY <2>1 DEF Ordered
  <1>3. ASSUME NEW y, In(y, t) PROVE Rank(s[1]) <= Rank(y)
    <2>1. PICK i \in 1..Len(t) : t[i] = y
      BY <1>3 DEF In
    <2>2. i + 1 \in 1..Len(s) /\ 1 \in 1..Len(s) /\ 1 < i + 1 /\ s[i + 1] = y
      BY <1>1, <2>1
    <2>3. QED
      BY <2>2 DEF Ordered
  <1>4. QED
    BY <1>2, <1>3 DEF t

\* The instance counts as the modules of the library do.
LEMMA InstanceCounts ==
  /\ \A S : Relay!IsFiniteSet(S) <=> IsFiniteSet(S)
  /\ \A S : Relay!Cardinality(S) = Cardinality(S)
  <1>1. \A S : Relay!IsFiniteSet(S) <=> IsFiniteSet(S)
    BY DEF Relay!IsFiniteSet, IsFiniteSet
  <1>2. \A S : Relay!Cardinality(S) = Cardinality(S)
    BY DEF Relay!Cardinality, Cardinality
  <1>3. QED
    BY <1>1, <1>2

\* A set in some order.
LEMMA SetToSeqIsSeq ==
  ASSUME NEW S, IsFiniteSet(S)
  PROVE  /\ Relay!SetToSeq(S) \in Seq(S)
         /\ S # {} => Relay!SetToSeq(S) # << >>
  <1> DEFINE n == Cardinality(S)
  <1>1. n \in Nat /\ Bijection(1..n, S) # {}
    BY FS_CardinalityType, Fun_ExistsBij
  <1>2. PICK f \in Bijection(1..n, S) : TRUE
    BY <1>1
  <1>3. f \in [1..n -> S] /\ \A a, b \in 1..n : f[a] = f[b] => a = b
    BY Fun_BijectionProperties
  <1>4. Relay!IsInjective(f)
    BY <1>3 DEF Relay!IsInjective
  <1>5. Relay!SetToSeq(S) \in [1..n -> S]
    BY <1>3, <1>4, InstanceCounts DEF Relay!SetToSeq
  <1>6. S # {} => n # 0
    BY FS_EmptySet
  <1> HIDE DEF n
  <1>7. Relay!SetToSeq(S) \in Seq(S) /\ Len(Relay!SetToSeq(S)) = n
    BY <1>1, <1>5
  <1>8. QED
    BY <1>6, <1>7

LEMMA CidrsAreRanges ==
  ASSUME ranges \subseteq Relays
  PROVE  /\ Relay!Cidrs \in Seq(Relays)
         /\ ranges # {} => Relay!Cidrs # << >>
  <1>1. IsFiniteSet(Relays)
    BY HostConstants, InstanceCounts DEF Relay!GuardConstants
  <1>2. IsFiniteSet(ranges)
    BY <1>1, FS_Subset
  <1>3. Relay!Cidrs \in Seq(ranges) /\ (ranges # {} => Relay!Cidrs # << >>)
    BY <1>2, SetToSeqIsSeq DEF Relay!Cidrs
  <1>4. QED
    BY <1>3

-----------------------------------------------------------------------------
(* The relay firewall: the lists a guard and a repair start with.          *)

\* A listing is the next call, a judgement the last, and a deletion comes only
\* after deletions of higher places, which leave its place as it is.
Timely(s, list, n) ==
    \A i \in 1..Len(s) :
        /\ s[i].does = "list" => i = 1
        /\ s[i].does = "judge" => i = Len(s)
        /\ s[i].does = "delete" =>
              /\ s[i].arg \in 1..Len(list) /\ Relay!MentionsPort(list[s[i].arg], n)
              /\ \A j \in 1..i - 1 : s[j].does = "delete" /\ s[i].arg < s[j].arg

\* The members of a list are of this rank at least.
From(s, k) == \A x : In(x, s) => k <= Rank(x)

Drop(n) == Relay!Rule(n, "udp", "any", "drop")
Let(n, from) == Relay!Rule(n, "udp", from, "accept")
\* A rule that lets in, or may let in, more than the relays.
Bad(r) == r.from = "any" /\ r.to # "drop"
Harmless(s) == \A c : In(c, s) /\ c.does \in Adder => ~Bad(c.arg)
RangesOf(n) == {r \in RuleSet : r.num = n /\ r.proto = "udp" /\ r.from # "any"}

\* The call of a list that adds one of the rules S to copy b.
Brings(s, b, S) == \E c : In(c, s) /\ c.does \in Adder /\ c.boot = b /\ c.arg \in S

LEMMA QuietIsTimely ==
  ASSUME NEW n \in Nat, NEW wall \in {"iptables", "firewalld"},
         NEW s \in Seq(GuardSet(n, wall)), NEW list
  PROVE  Timely(s, list, n)
  <1>1. \A i \in 1..Len(s) : s[i] \in GuardSet(n, wall)
    OBVIOUS
  <1>2. \A c \in GuardSet(n, wall) : c.does \notin {"list", "judge", "delete"}
    BY DEF GuardSet, GuardCall, IptablesCall, FirewalldCall
  <1>3. QED
    BY <1>1, <1>2 DEF Timely

LEMMA RuleFields ==
  ASSUME NEW n \in Nat, NEW from \in Relays
  PROVE  /\ Drop(n) \in RuleSet /\ EngineRule(Drop(n), n) /\ ~Bad(Drop(n))
         /\ Drop(n).from = "any" /\ Drop(n).to = "drop" /\ Drop(n).num = n
         /\ Let(n, from) \in RuleSet /\ EngineRule(Let(n, from), n) /\ ~Bad(Let(n, from))
         /\ Let(n, from) \in RangesOf(n)
         /\ EngineRule(Let(n, "any"), n)
  <1>1. from # "any"
    BY HostConstants DEF Relay!GuardConstants
  <1>2. QED
    BY <1>1 DEF Drop, Let, RuleSet, EngineRule, Bad, RangesOf, Relay!Rule

LEMMA DropFields ==
  ASSUME NEW n \in Nat
  PROVE  /\ Drop(n) \in RuleSet /\ EngineRule(Drop(n), n) /\ ~Bad(Drop(n))
         /\ Drop(n).from = "any" /\ Drop(n).to = "drop" /\ Drop(n).num = n
         /\ Drop(n).proto = "udp"
         /\ EngineRule(Let(n, "any"), n) /\ Let(n, "any") \in RuleSet
  BY DEF Drop, Let, RuleSet, EngineRule, Bad, RangesOf, Relay!Rule

-----------------------------------------------------------------------------
\* A guard on iptables.
LEMMA IptablesStarts ==
  ASSUME NEW n \in Nat, NEW mode \in {"open", "vk", "closed"}, ranges \subseteq Relays
  PROVE  LET s == Relay!ApplyIptables(n, mode)
         IN  /\ s \in Seq(GuardSet(n, "iptables"))
             /\ mode = "vk" => /\ Ordered(s)
                               /\ In(Relay!Call("newChain", 0), s)
                               /\ In(Relay!Call("hook", n), s)
                               /\ In(Relay!Call("append", "drop"), s)
  <1> DEFINE G == GuardSet(n, "iptables")
             C(d, x) == Relay!Call(d, x)
             cidrs == Relay!Cidrs
             clear == Relay!ClearIptables(n)
             made == <<C("newChain", 0), C("hook", n), C("append", "established")>>
             mid == [i \in DOMAIN cidrs |-> C("append", cidrs[i])]
             last == <<C("append", "drop")>>
             s == Relay!ApplyIptables(n, mode)
  <1>1. /\ \A d \in {"unhook", "unaccept", "hook", "accept"} : C(d, n) \in G /\ C(d, n).does = d
        /\ \A d \in {"flush", "deleteChain", "newChain"} : C(d, 0) \in G /\ C(d, 0).does = d
        /\ \A w \in Words : C("append", w) \in G /\ C("append", w).does = "append"
    BY DEF GuardSet, GuardCall, IptablesCall, AllCalls, Names, Words, Relay!Call
  <1>2. cidrs \in Seq(Relays) /\ Len(cidrs) \in Nat /\ DOMAIN cidrs = 1..Len(cidrs)
    BY CidrsAreRanges
  <1> HIDE DEF cidrs, G, C
  <1>3. clear \in Seq(G) /\ Flat(clear, 0)
    <2>1. clear = <<C("unhook", n), C("unaccept", n), C("flush", 0), C("deleteChain", 0)>>
      BY DEF C, Relay!ClearIptables
    <2>2. clear \in Seq(G) /\ Len(clear) = 4
      BY <1>1, <2>1
    <2>3. \A i \in 1..4 : clear[i].does \in {"unhook", "unaccept", "flush", "deleteChain"}
      BY <1>1, <2>1
    <2>4. QED
      BY <2>2, <2>3 DEF Flat, Rank
  <1>4. /\ made \in Seq(G) /\ Ordered(made) /\ In(C("newChain", 0), made) /\ In(C("hook", n), made)
        /\ From(made, 1)
    <2>1. "established" \in Words /\ Len(made) = 3
      BY DEF Words
    <2>2. made \in Seq(G)
      BY <1>1, <2>1
    <2>3. made[1].does = "newChain" /\ made[2].does = "hook" /\ made[3].does = "append"
      BY <1>1, <2>1
    <2>3a. Rank(made[1]) = 1 /\ Rank(made[2]) = 2 /\ Rank(made[3]) = 3
      BY <2>3 DEF Rank
    <2>4. made[1] = C("newChain", 0) /\ made[2] = C("hook", n)
      OBVIOUS
    <2> HIDE DEF made
    <2>5. \A i \in 1..3 : i = 1 \/ i = 2 \/ i = 3
      OBVIOUS
    <2>6. Ordered(made)
      BY <2>1, <2>3a, <2>5 DEF Ordered
    <2>7. QED
      BY <2>1, <2>2, <2>3a, <2>4, <2>5, <2>6 DEF From, In
  <1>5. mid \in Seq(G) /\ Flat(mid, 3)
    <2>1. \A i \in 1..Len(cidrs) : cidrs[i] \in Words
      BY <1>2 DEF Words
    <2>2. \A i \in 1..Len(cidrs) : mid[i] \in G /\ mid[i].does = "append"
      BY <1>1, <1>2, <2>1
    <2>3. mid \in Seq(G) /\ Len(mid) = Len(cidrs)
      BY <1>2, <2>2
    <2>4. QED
      BY <2>2, <2>3 DEF Flat, Rank
  <1>6. last \in Seq(G) /\ Flat(last, 3) /\ In(C("append", "drop"), last)
    <2>1. "drop" \in Words /\ Len(last) = 1 /\ last[1] = C("append", "drop")
      BY DEF Words
    <2>2. QED
      BY <1>1, <2>1 DEF Flat, Rank, In
  <1> HIDE DEF clear, made, mid, last
  <1>7. CASE mode = "vk"
    <2> DEFINE one == made \o mid
               two == one \o last
    <2>1. s = clear \o two
      BY <1>7 DEF Relay!ApplyIptables, clear, made, mid, last, C, cidrs
    <2>2. \A y : In(y, mid) => Rank(y) = 3
      BY <1>5, FlatIsOrdered
    <2>3. \A y : In(y, last) => Rank(y) = 3
      BY <1>6, FlatIsOrdered
    <2>4. \A y : In(y, clear) => Rank(y) = 0
      BY <1>3, FlatIsOrdered
    <2>5. Ordered(mid) /\ Ordered(last) /\ Ordered(clear)
      BY <1>3, <1>5, <1>6, FlatIsOrdered
    <2>6. \A y : Rank(y) \in 0..3
      BY DEF Rank
    <2>7. one \in Seq(G) /\ \A y : In(y, one) <=> In(y, made) \/ In(y, mid)
      BY <1>4, <1>5, InConcat
    <2>8. Ordered(one)
      BY <1>4, <1>5, <2>2, <2>5, <2>6, OrderedJoin
    <2> HIDE DEF one
    <2>9. two \in Seq(G) /\ \A y : In(y, two) <=> In(y, one) \/ In(y, last)
      BY <1>6, <2>7, InConcat
    <2>10. Ordered(two)
      BY <1>6, <2>3, <2>5, <2>6, <2>7, <2>8, OrderedJoin
    <2> HIDE DEF two, s
    <2>11. clear \o two \in Seq(G) /\ \A y : In(y, clear \o two) <=> In(y, clear) \/ In(y, two)
      BY <1>3, <2>9, InConcat
    <2>12. Ordered(clear \o two)
      BY <1>3, <2>4, <2>5, <2>6, <2>9, <2>10, OrderedJoin
    <2>13. QED
      BY <1>4, <1>6, <2>1, <2>7, <2>9, <2>11, <2>12 DEF s, G, C
  <1>8. CASE mode = "open"
    <2> DEFINE one == <<C("accept", n)>>
    <2>1. one \in Seq(G)
      BY <1>1
    <2>2. s = clear \o one
      BY <1>8 DEF Relay!ApplyIptables, clear, C
    <2> HIDE DEF one, s
    <2>3. clear \o one \in Seq(G)
      BY <1>3, <2>1, InConcat
    <2>4. QED
      BY <1>8, <2>2, <2>3 DEF s, G
  <1>9. CASE mode = "closed"
    <2> DEFINE none == << >>
    <2>1. s = clear \o none /\ none \in Seq(G)
      BY <1>9 DEF Relay!ApplyIptables, clear
    <2> HIDE DEF none, s
    <2>2. clear \o none \in Seq(G)
      BY <1>3, <2>1, InConcat
    <2>3. QED
      BY <1>9, <2>1, <2>2 DEF s, G
  <1>10. QED
    BY <1>7, <1>8, <1>9

-----------------------------------------------------------------------------
\* A guard on ufw.
LEMMA UfwStarts ==
  ASSUME NEW n \in Nat, NEW mode \in {"open", "vk", "closed"}, ranges \subseteq Relays, NEW list
  PROVE  LET s == Relay!ApplyUfw(n, mode)
         IN  /\ s \in Seq(GuardSet(n, "ufw")) /\ Timely(s, list, n)
             /\ mode = "vk" /\ ranges # {} =>
                  /\ Ordered(s) /\ Harmless(s) /\ In(Relay!Call("list", n), s)
                  /\ Brings(s, FALSE, {Drop(n)}) /\ Brings(s, FALSE, RangesOf(n))
  <1> DEFINE G == GuardSet(n, "ufw")
             C(d, x) == Relay!Call(d, x)
             cidrs == Relay!Cidrs
             look == C("list", n)
             mid == [i \in DOMAIN cidrs |-> C("insert", Let(n, cidrs[i]))]
             last == <<C("allow", Drop(n))>>
             s == Relay!ApplyUfw(n, mode)
  <1>1. /\ \A r : EngineRule(r, n) => C("insert", r) \in G /\ C("allow", r) \in G
        /\ look \in G
    BY DEF GuardSet, GuardCall, UfwCall, AllCalls, Names, EngineRule, Relay!Call
  <1>2. /\ \A d, r : C(d, r).does = d /\ C(d, r).arg = r /\ C(d, r).boot = FALSE
        /\ look.does = "list" /\ Rank(look) = 0
    BY DEF Relay!Call, Rank
  <1>3. cidrs \in Seq(Relays) /\ Len(cidrs) \in Nat /\ DOMAIN cidrs = 1..Len(cidrs)
    BY CidrsAreRanges
  <1>3a. ranges # {} => 1 \in 1..Len(cidrs)
    <2>1. ranges # {} => cidrs # << >>
      BY CidrsAreRanges
    <2>2. QED
      BY <1>3, <2>1
  <1> HIDE DEF cidrs, G, C, look
  \* What follows the listing.
  <1>4. ASSUME NEW rest \in Seq(G), \A i \in 1..Len(rest) : rest[i].does \in {"insert", "allow"},
               s = <<look>> \o rest
        PROVE  /\ s \in Seq(G) /\ Timely(s, list, n) /\ Ordered(s) /\ In(look, s)
               /\ \A y : In(y, s) <=> In(y, rest) \/ y = look
    <2> DEFINE t == <<look>> \o rest
    <2>1. /\ t \in Seq(G) /\ Len(t) = Len(rest) + 1 /\ t[1] = look
          /\ \A i \in 1..Len(rest) : t[i + 1] = rest[i]
          /\ \A y : In(y, t) <=> In(y, rest) \/ y = look
      BY <1>1, <1>4, InFront
    <2>2. Len(rest) \in Nat
      OBVIOUS
    <2> HIDE DEF t
    <2>3. \A i \in 1..Len(t) : i = 1 \/ (i - 1 \in 1..Len(rest) /\ (i - 1) + 1 = i)
      BY <2>1, <2>2
    <2>4. \A i \in 1..Len(t) : i = 1 \/ t[i].does \in {"insert", "allow"}
      BY <1>4, <2>1, <2>3
    <2>5. Timely(t, list, n)
      BY <1>2, <2>1, <2>4 DEF Timely
    <2>6. \A i \in 1..Len(t) : IF i = 1 THEN Rank(t[i]) = 0 ELSE Rank(t[i]) = 3
      BY <1>2, <2>1, <2>4 DEF Rank
    <2>7. Ordered(t)
      <3>1. ASSUME NEW i \in 1..Len(t), NEW j \in 1..Len(t), i < j PROVE Rank(t[i]) <= Rank(t[j])
        <4>1. j # 1
          BY <2>1, <2>2, <3>1
        <4>2. QED
          BY <2>6, <4>1
      <3>2. QED
        BY <3>1 DEF Ordered
    <2>8. s = t
      BY <1>4 DEF t
    <2> HIDE DEF s
    <2>9. QED
      BY <2>1, <2>5, <2>7, <2>8
  <1>5. CASE mode = "closed"
    <2> DEFINE rest == << >>
    <2>1. rest \in Seq(G) /\ Len(rest) = 0 /\ s = <<look>> \o rest
      BY <1>5 DEF Relay!ApplyUfw, look, C
    <2>1a. \A i \in 1..Len(rest) : rest[i].does \in {"insert", "allow"}
      BY <2>1
    <2> HIDE DEF rest, s
    <2>2. s \in Seq(G) /\ Timely(s, list, n)
      BY <1>4, <2>1, <2>1a
    <2>3. QED
      BY <1>5, <2>2 DEF s, G
  <1>6. CASE mode = "open"
    <2> DEFINE rest == <<C("allow", Let(n, "any"))>>
    <2>1. rest \in Seq(G) /\ Len(rest) = 1 /\ rest[1].does = "allow"
      BY <1>1, <1>2, DropFields
    <2>2. s = <<look>> \o rest
      BY <1>6 DEF Relay!ApplyUfw, look, C, Let
    <2> HIDE DEF rest, s
    <2>3. \A i \in 1..Len(rest) : rest[i].does \in {"insert", "allow"}
      BY <2>1
    <2>4. s \in Seq(G) /\ Timely(s, list, n)
      BY <1>4, <2>1, <2>2, <2>3
    <2>5. QED
      BY <1>6, <2>4 DEF s, G
  <1>7. CASE mode = "vk"
    <2>1. mid \in Seq(G) /\ Len(mid) = Len(cidrs)
          /\ \A i \in 1..Len(cidrs) : mid[i] = C("insert", Let(n, cidrs[i])) /\ cidrs[i] \in Relays
      <3>1. \A i \in 1..Len(cidrs) : cidrs[i] \in Relays
        BY <1>3
      <3>2. \A i \in 1..Len(cidrs) : C("insert", Let(n, cidrs[i])) \in G
        BY <1>1, <3>1, RuleFields
      <3>3. QED
        BY <1>3, <3>1, <3>2
    <2>2. last \in Seq(G) /\ Len(last) = 1 /\ last[1] = C("allow", Drop(n))
      BY <1>1, DropFields
    <2> DEFINE rest == mid \o last
    <2>3. s = <<look>> \o rest
      BY <1>7 DEF Relay!ApplyUfw, look, C, cidrs, mid, last, Let, Drop
    <2> HIDE DEF mid, last, s
    <2>4. rest \in Seq(G) /\ \A y : In(y, rest) <=> In(y, mid) \/ In(y, last)
      BY <2>1, <2>2, InConcat
    <2>5. \A y : In(y, mid) => \E f \in Relays : y = C("insert", Let(n, f))
      BY <2>1 DEF In
    <2>6. \A y : In(y, last) <=> y = C("allow", Drop(n))
      <3>1. \A i \in 1..Len(last) : i = 1
        BY <2>2
      <3>2. 1 \in 1..Len(last)
        BY <2>2
      <3>3. QED
        BY <2>2, <3>1, <3>2 DEF In
    <2> HIDE DEF rest
    <2>7. \A i \in 1..Len(rest) : rest[i].does \in {"insert", "allow"}
      <3>1. \A i \in 1..Len(rest) : In(rest[i], rest)
        BY DEF In
      <3>2. QED
        BY <1>2, <2>4, <2>5, <2>6, <3>1
    <2>8. /\ s \in Seq(G) /\ Timely(s, list, n) /\ Ordered(s) /\ In(look, s)
          /\ \A y : In(y, s) <=> In(y, rest) \/ y = look
      BY <1>4, <2>3, <2>4, <2>7
    <2>9. Harmless(s)
      <3>1. ASSUME NEW c, In(c, s), c.does \in Adder PROVE ~Bad(c.arg)
        <4>1. c = look \/ c = C("allow", Drop(n)) \/ \E f \in Relays : c = C("insert", Let(n, f))
          BY <2>4, <2>5, <2>6, <2>8, <3>1
        <4>2. look.does \notin Adder
          BY <1>2 DEF Adder
        <4>3. QED
          BY <1>2, <3>1, <4>1, <4>2, RuleFields, DropFields
      <3>2. QED
        BY <3>1 DEF Harmless
    <2>10. Brings(s, FALSE, {Drop(n)})
      <3>1. In(C("allow", Drop(n)), s)
        BY <2>4, <2>6, <2>8
      <3>2. QED
        BY <1>2, <3>1 DEF Brings, Adder
    <2>11. ranges # {} => Brings(s, FALSE, RangesOf(n))
      <3>1. SUFFICES ASSUME ranges # {} PROVE Brings(s, FALSE, RangesOf(n))
        OBVIOUS
      <3>2. mid[1] = C("insert", Let(n, cidrs[1])) /\ cidrs[1] \in Relays /\ In(mid[1], mid)
        BY <1>3a, <2>1, <3>1 DEF In
      <3>3. In(C("insert", Let(n, cidrs[1])), s)
        BY <2>4, <2>8, <3>2
      <3>4. Let(n, cidrs[1]) \in RangesOf(n)
        BY <3>2, RuleFields
      <3>5. QED
        BY <1>2, <3>3, <3>4 DEF Brings, Adder
    <2>12. QED
      BY <2>8, <2>9, <2>10, <2>11 DEF s, G, look, C
  <1>8. QED
    BY <1>5, <1>6, <1>7

\* Both copies of a list of calls.
LEMMA TwiceIsBoth ==
  ASSUME NEW n \in Nat, NEW calls \in Seq(GuardSet(n, "firewalld")),
         \A c : In(c, calls) => c.boot = FALSE
  PROVE  LET t == Relay!Twice(calls)
         IN  /\ t \in Seq(GuardSet(n, "firewalld"))
             /\ Ordered(calls) => Ordered(t)
             /\ \A c : In(c, t) => \E x : In(x, calls) /\ x.does = c.does /\ x.arg = c.arg
             /\ \A x, b : In(x, calls) /\ b \in BOOLEAN =>
                  \E c : In(c, t) /\ c.does = x.does /\ c.arg = x.arg /\ c.boot = b
  <1> DEFINE G == GuardSet(n, "firewalld")
             m == Len(calls)
             half(i) == (i + 1) \div 2
             t == Relay!Twice(calls)
  <1>1. m \in Nat /\ \A k \in 1..m : calls[k] \in G /\ In(calls[k], calls)
    BY DEF In
  <1>2. \A c \in G : Relay!Boot(c) \in G /\ Relay!Boot(c).does = c.does
                     /\ Relay!Boot(c).arg = c.arg /\ Relay!Boot(c).boot = TRUE
    BY DEF GuardSet, GuardCall, FirewalldCall, AllCalls, Relay!Boot
  <1>3. \A i \in 1..2 * m : /\ half(i) \in 1..m
                            /\ i % 2 # 1 => i \div 2 = half(i)
                            /\ i = 2 * half(i) - 1 \/ i = 2 * half(i)
    BY <1>1
  <1>4. t = [i \in 1..2 * m |-> IF i % 2 = 1 THEN calls[half(i)] ELSE Relay!Boot(calls[i \div 2])]
    BY DEF Relay!Twice
  <1>5. \A i, j \in 1..2 * m : i < j => half(i) < half(j) \/ half(i) = half(j)
    BY <1>1
  <1>6. \A k \in 1..m : /\ 2 * k - 1 \in 1..2 * m /\ 2 * k \in 1..2 * m
                        /\ (2 * k - 1) % 2 = 1 /\ (2 * k) % 2 # 1
                        /\ half(2 * k - 1) = k /\ half(2 * k) = k
    BY <1>1
  <1> HIDE DEF half, G, t
  <1>7. \A i \in 1..2 * m : t[i] = IF i % 2 = 1 THEN calls[half(i)] ELSE Relay!Boot(calls[half(i)])
    BY <1>3, <1>4
  <1>8. \A i \in 1..2 * m : t[i] \in G /\ t[i].does = calls[half(i)].does /\ t[i].arg = calls[half(i)].arg
    BY <1>1, <1>2, <1>3, <1>7
  <1>9. t \in Seq(G) /\ Len(t) = 2 * m
    <2>1. t \in [1..2 * m -> G] /\ 2 * m \in Nat
      BY <1>1, <1>4, <1>8
    <2>2. QED
      BY <2>1
  <1>10. \A c, d : c.does = d.does => Rank(c) = Rank(d)
    BY DEF Rank
  <1>11. ASSUME Ordered(calls) PROVE Ordered(t)
    <2>1. ASSUME NEW i \in 1..2 * m, NEW j \in 1..2 * m, i < j PROVE Rank(t[i]) <= Rank(t[j])
      <3>1. Rank(t[i]) = Rank(calls[half(i)]) /\ Rank(t[j]) = Rank(calls[half(j)])
        BY <1>8, <1>10
      <3>2. half(i) \in 1..m /\ half(j) \in 1..m /\ (half(i) < half(j) \/ half(i) = half(j))
        BY <1>3, <1>5, <2>1
      <3>3. Rank(calls[half(i)]) \in Nat
        BY DEF Rank
      <3>4. QED
        BY <1>11, <3>1, <3>2, <3>3 DEF Ordered
    <2>2. QED
      BY <1>9, <2>1 DEF Ordered
  <1>12. ASSUME NEW c, In(c, t)
         PROVE  \E x : In(x, calls) /\ x.does = c.does /\ x.arg = c.arg
    <2>1. PICK i \in 1..2 * m : t[i] = c
      BY <1>9, <1>12 DEF In
    <2>2. half(i) \in 1..m
      BY <1>3
    <2>3. QED
      BY <1>1, <1>8, <2>1, <2>2
  <1>13. ASSUME NEW x, NEW b \in BOOLEAN, In(x, calls)
         PROVE  \E c : In(c, t) /\ c.does = x.does /\ c.arg = x.arg /\ c.boot = b
    <2>1. PICK k \in 1..m : calls[k] = x
      BY <1>13 DEF In
    <2>2. x \in G /\ x.boot = FALSE
      BY <1>1, <2>1, <1>13
    <2>3. t[2 * k - 1] = x /\ t[2 * k] = Relay!Boot(x)
      BY <1>6, <1>7, <2>1
    <2>4. In(x, t) /\ In(Relay!Boot(x), t)
      BY <1>6, <1>9, <2>3 DEF In
    <2>5. CASE b = TRUE
      BY <1>2, <2>2, <2>4, <2>5
    <2>6. CASE b = FALSE
      BY <2>2, <2>4, <2>6
    <2>7. QED
      BY <2>5, <2>6
  <1>14. QED
    BY <1>9, <1>11, <1>12, <1>13 DEF t, G

\* A guard on firewalld.
LEMMA FirewalldStarts ==
  ASSUME NEW n \in Nat, NEW mode \in {"open", "vk", "closed"}, ranges \subseteq Relays
  PROVE  LET s == Relay!ApplyFirewalld(n, mode)
         IN  /\ s \in Seq(GuardSet(n, "firewalld"))
             /\ mode = "vk" =>
                  /\ Ordered(s) /\ Harmless(s)
                  /\ \A b \in BOOLEAN :
                       /\ Brings(s, b, {Drop(n)})
                       /\ \E c : In(c, s) /\ c.does = "unport" /\ c.arg = n /\ c.boot = b
  <1> DEFINE G == GuardSet(n, "firewalld")
             C(d, x) == Relay!Call(d, x)
             cidrs == Relay!Cidrs
             clear == <<C("unport", n), C("unrich", n)>>
             mid == [i \in DOMAIN cidrs |-> C("rich", Let(n, cidrs[i]))]
             last == <<C("rich", Drop(n))>>
             s == Relay!ApplyFirewalld(n, mode)
  <1>1. /\ \A r : EngineRule(r, n) => C("port", r) \in G /\ C("rich", r) \in G
        /\ C("unport", n) \in G /\ C("unrich", n) \in G
    BY DEF GuardSet, GuardCall, FirewalldCall, AllCalls, Names, EngineRule, Relay!Call
  <1>2. \A d, r : C(d, r).does = d /\ C(d, r).arg = r /\ C(d, r).boot = FALSE
    BY DEF Relay!Call
  <1>3. cidrs \in Seq(Relays) /\ Len(cidrs) \in Nat /\ DOMAIN cidrs = 1..Len(cidrs)
    BY CidrsAreRanges
  <1> HIDE DEF cidrs, G, C
  <1>4. /\ clear \in Seq(G) /\ Flat(clear, 0)
        /\ \A y : In(y, clear) <=> y \in {C("unport", n), C("unrich", n)}
    <2>1. clear \in Seq(G) /\ Len(clear) = 2 /\ clear[1] = C("unport", n) /\ clear[2] = C("unrich", n)
      BY <1>1
    <2> HIDE DEF clear
    <2>2. \A i : i \in 1..Len(clear) <=> i = 1 \/ i = 2
      BY <2>1
    <2>3. Rank(C("unport", n)) = 0 /\ Rank(C("unrich", n)) = 0
      BY <1>2 DEF Rank
    <2>4. QED
      BY <2>1, <2>2, <2>3 DEF Flat, In
  <1>5. ASSUME NEW rest \in Seq(G), \A c : In(c, rest) => c.does \in {"port", "rich"} /\ c.boot = FALSE,
               s = Relay!Twice(clear \o rest)
        PROVE  /\ s \in Seq(G) /\ Ordered(s)
               /\ \A c : In(c, s) => \/ c.does \in {"unport", "unrich"}
                                     \/ \E x : In(x, rest) /\ x.does = c.does /\ x.arg = c.arg
               /\ \A x, b : (In(x, rest) \/ x = C("unport", n)) /\ b \in BOOLEAN =>
                     \E c : In(c, s) /\ c.does = x.does /\ c.arg = x.arg /\ c.boot = b
    <2> DEFINE both == clear \o rest
    <2>1. both \in Seq(G) /\ \A y : In(y, both) <=> In(y, clear) \/ In(y, rest)
      BY <1>4, InConcat
    <2>2. \A c : In(c, rest) => Rank(c) = 3
      BY <1>5 DEF Rank
    <2>3. Flat(rest, 3)
      <3>1. \A i \in 1..Len(rest) : In(rest[i], rest)
        BY DEF In
      <3>2. QED
        BY <2>2, <3>1 DEF Flat
    <2>4. Ordered(clear) /\ Ordered(rest) /\ \A y : In(y, clear) => Rank(y) = 0
      BY <1>4, <2>3, FlatIsOrdered
    <2>5. Ordered(both)
      <3>1. \A x, y : In(x, clear) /\ In(y, rest) => Rank(x) <= Rank(y)
        BY <2>2, <2>4
      <3>2. QED
        BY <1>4, <2>4, <3>1, OrderedJoin
    <2> HIDE DEF clear, both, s
    <2>6. \A c : In(c, both) => c.boot = FALSE
      BY <1>2, <1>4, <1>5, <2>1
    <2>7. s = Relay!Twice(both)
      BY <1>5 DEF both
    <2>8. /\ s \in Seq(G) /\ Ordered(s)
          /\ \A c : In(c, s) => \E x : In(x, both) /\ x.does = c.does /\ x.arg = c.arg
          /\ \A x, b : In(x, both) /\ b \in BOOLEAN =>
               \E c : In(c, s) /\ c.does = x.does /\ c.arg = x.arg /\ c.boot = b
      <3> DEFINE t == Relay!Twice(both)
      <3>1. both \in Seq(GuardSet(n, "firewalld"))
        BY <2>1 DEF G
      <3>2. /\ t \in Seq(GuardSet(n, "firewalld")) /\ (Ordered(both) => Ordered(t))
            /\ \A c : In(c, t) => \E x : In(x, both) /\ x.does = c.does /\ x.arg = c.arg
            /\ \A x, b : In(x, both) /\ b \in BOOLEAN =>
                 \E c : In(c, t) /\ c.does = x.does /\ c.arg = x.arg /\ c.boot = b
        BY <2>6, <3>1, TwiceIsBoth
      <3>3. s = t
        BY <2>7
      <3> HIDE DEF t
      <3>4. QED
        BY <2>5, <3>2, <3>3 DEF G
    <2>9. ASSUME NEW c, In(c, s)
          PROVE  \/ c.does \in {"unport", "unrich"}
                 \/ \E x : In(x, rest) /\ x.does = c.does /\ x.arg = c.arg
      <3>1. PICK x : In(x, both) /\ x.does = c.does /\ x.arg = c.arg
        BY <2>8, <2>9
      <3>2. QED
        BY <1>2, <1>4, <2>1, <3>1
    <2>10. \A x : In(x, rest) \/ x = C("unport", n) => In(x, both)
      BY <1>4, <2>1
    <2>11. QED
      BY <2>8, <2>9, <2>10
  <1>6. \A x, y : In(y, <<x>>) <=> y = x
    BY DEF In
  <1>7. CASE mode = "closed"
    <2> DEFINE rest == << >>
    <2>1. rest \in Seq(G) /\ \A c : ~In(c, rest)
      BY DEF In
    <2>2. s = Relay!Twice(clear \o rest)
      BY <1>7 DEF Relay!ApplyFirewalld, clear, C
    <2> HIDE DEF rest, s, clear
    <2>3. s \in Seq(G)
      BY <1>5, <2>1, <2>2
    <2>4. QED
      BY <1>7, <2>3 DEF s, G
  <1>8. CASE mode = "open"
    <2> DEFINE rest == <<C("port", Let(n, "any"))>>
    <2>1. rest \in Seq(G) /\ \A c : In(c, rest) => c.does \in {"port", "rich"} /\ c.boot = FALSE
      BY <1>1, <1>2, <1>6, DropFields
    <2>2. s = Relay!Twice(clear \o rest)
      BY <1>8 DEF Relay!ApplyFirewalld, clear, C, Let
    <2> HIDE DEF rest, s, clear
    <2>3. s \in Seq(G)
      BY <1>5, <2>1, <2>2
    <2>4. QED
      BY <1>8, <2>3 DEF s, G
  <1>9. CASE mode = "vk"
    <2>1. /\ mid \in Seq(G) /\ Len(mid) = Len(cidrs)
          /\ \A i \in 1..Len(cidrs) : mid[i] = C("rich", Let(n, cidrs[i])) /\ cidrs[i] \in Relays
      <3>1. \A i \in 1..Len(cidrs) : cidrs[i] \in Relays
        BY <1>3
      <3>2. \A i \in 1..Len(cidrs) : C("rich", Let(n, cidrs[i])) \in G
        BY <1>1, <3>1, RuleFields
      <3>3. QED
        BY <1>3, <3>1, <3>2
    <2>2. last \in Seq(G) /\ \A y : In(y, last) <=> y = C("rich", Drop(n))
      BY <1>1, <1>6, DropFields
    <2> DEFINE rest == mid \o last
    <2>3. s = Relay!Twice(clear \o rest)
      BY <1>9 DEF Relay!ApplyFirewalld, clear, C, cidrs, mid, last, Let, Drop
    <2> HIDE DEF mid, last, s, clear
    <2>4. rest \in Seq(G) /\ \A y : In(y, rest) <=> In(y, mid) \/ In(y, last)
      BY <2>1, <2>2, InConcat
    <2>5. \A y : In(y, mid) => \E f \in Relays : y = C("rich", Let(n, f))
      BY <2>1 DEF In
    <2> HIDE DEF rest
    <2>6. \A c : In(c, rest) => c.does \in {"port", "rich"} /\ c.boot = FALSE /\ ~Bad(c.arg)
      BY <1>2, <2>2, <2>4, <2>5, RuleFields, DropFields
    <2>7. /\ s \in Seq(G) /\ Ordered(s)
          /\ \A c : In(c, s) => \/ c.does \in {"unport", "unrich"}
                                \/ \E x : In(x, rest) /\ x.does = c.does /\ x.arg = c.arg
          /\ \A x, b : (In(x, rest) \/ x = C("unport", n)) /\ b \in BOOLEAN =>
                \E c : In(c, s) /\ c.does = x.does /\ c.arg = x.arg /\ c.boot = b
      BY <1>5, <2>3, <2>4, <2>6
    <2>8. Harmless(s)
      BY <2>6, <2>7 DEF Harmless, Adder
    <2>9. ASSUME NEW b \in BOOLEAN
          PROVE  /\ Brings(s, b, {Drop(n)})
                 /\ \E c : In(c, s) /\ c.does = "unport" /\ c.arg = n /\ c.boot = b
      <3>1. In(C("rich", Drop(n)), rest)
        BY <2>2, <2>4
      <3>2. \E c : In(c, s) /\ c.does = "rich" /\ c.arg = Drop(n) /\ c.boot = b
        BY <1>2, <2>7, <3>1
      <3>3. \E c : In(c, s) /\ c.does = "unport" /\ c.arg = n /\ c.boot = b
        BY <1>2, <2>7
      <3>4. QED
        BY <3>2, <3>3 DEF Brings, Adder
    <2>10. QED
      BY <2>7, <2>8, <2>9 DEF s, G
  <1>10. QED
    BY <1>7, <1>8, <1>9

\* What a repair does when it does not leave the port alone.
LEMMA OpeningIsList ==
  ASSUME NEW n \in Nat, Relay!Backend \in {"iptables", "ufw", "firewalld"}, NEW list
  PROVE  /\ Relay!Opening(n) \in Seq(GuardSet(n, Relay!Backend))
         /\ Timely(Relay!Opening(n), list, n)
  <1> DEFINE s == Relay!Opening(n)
             r == Let(n, "any")
             G == GuardSet(n, Relay!Backend)
  <1>0. EngineRule(r, n)
    BY DropFields
  <1>1. CASE Relay!Backend = "iptables"
    <2>1. Relay!Call("accept", n) \in GuardSet(n, "iptables")
      BY DEF GuardSet, GuardCall, IptablesCall, AllCalls, Names, Relay!Call
    <2>2. s = <<Relay!Call("accept", n)>>
      BY <1>1 DEF Relay!Opening
    <2>3. s \in Seq(GuardSet(n, "iptables"))
      BY <2>1, <2>2
    <2>4. QED
      BY <1>1, <2>3, QuietIsTimely
  <1>2. CASE Relay!Backend = "ufw"
    <2>1. Relay!Call("list", n) \in GuardSet(n, "ufw") /\ Relay!Call("allow", r) \in GuardSet(n, "ufw")
      BY <1>0 DEF GuardSet, GuardCall, UfwCall, AllCalls, Names, EngineRule, Relay!Call
    <2>2. s = <<Relay!Call("list", n), Relay!Call("allow", r)>>
      BY <1>2 DEF Relay!Opening, Let
    <2>3. s \in Seq(GuardSet(n, "ufw"))
      BY <2>1, <2>2
    <2>4. Len(s) = 2 /\ s[1].does = "list" /\ s[2].does = "allow"
      BY <2>2 DEF Relay!Call
    <2> HIDE DEF s
    <2>5. \A i \in 1..Len(s) : i = 1 \/ i = 2
      BY <2>4
    <2>6. Timely(s, list, n)
      BY <2>4, <2>5 DEF Timely
    <2>7. QED
      BY <1>2, <2>3, <2>6 DEF s
  <1>3. CASE Relay!Backend = "firewalld"
    <2> DEFINE one == <<Relay!Call("port", r)>>
    <2>1. Relay!Call("port", r) \in GuardSet(n, "firewalld")
      BY <1>0 DEF GuardSet, GuardCall, FirewalldCall, AllCalls, Names, EngineRule, Relay!Call
    <2>2. s = Relay!Twice(one)
      BY <1>3 DEF Relay!Opening, Let
    <2>3. one \in Seq(GuardSet(n, "firewalld")) /\ \A c : In(c, one) => c.boot = FALSE
      <3>1. Len(one) = 1 /\ one[1].boot = FALSE
        BY DEF Relay!Call
      <3>2. QED
        BY <2>1, <3>1 DEF In
    <2> HIDE DEF one, s
    <2>4. s \in Seq(GuardSet(n, "firewalld"))
      BY <2>2, <2>3, TwiceIsBoth
    <2>5. QED
      BY <1>3, <2>4, QuietIsTimely DEF s
  <1>4. QED
    BY <1>1, <1>2, <1>3

\* A repair looks at the native chains, then judges.
LEMMA HealStarts ==
  ASSUME NEW n \in Nat, NEW list
  PROVE  LET s == Relay!HealCalls(n)
         IN  /\ s \in Seq(AnySet(n, Relay!Backend)) /\ Timely(s, list, n)
             /\ \A c : In(c, s) => c.does \in {"nft", "judge"}
  <1> DEFINE s == Relay!HealCalls(n)
             nft == Relay!Call("nft", n)
             judge == Relay!Call("judge", n)
  <1>1. judge \in AnySet(n, Relay!Backend) /\ nft \in AnySet(n, Relay!Backend)
    BY DEF AnySet, LookCall, AllCalls, Names, Relay!Call
  <1>2. judge.does = "judge" /\ nft.does = "nft"
    BY DEF Relay!Call
  <1>3. s = IF host[2] THEN <<nft>> \o <<judge>> ELSE << >> \o <<judge>>
    BY DEF Relay!HealCalls
  <1> HIDE DEF nft, judge, s
  <1>4. CASE host[2]
    <2>1. s \in Seq(AnySet(n, Relay!Backend)) /\ Len(s) = 2 /\ s[1] = nft /\ s[2] = judge
      BY <1>1, <1>3, <1>4
    <2>2. \A i \in 1..Len(s) : i = 1 \/ i = 2
      BY <2>1
    <2>3. QED
      BY <1>2, <2>1, <2>2 DEF Timely, In, s
  <1>5. CASE ~host[2]
    <2>1. s \in Seq(AnySet(n, Relay!Backend)) /\ Len(s) = 1 /\ s[1] = judge
      BY <1>1, <1>3, <1>5
    <2>2. \A i \in 1..Len(s) : i = 1
      BY <2>1
    <2>3. QED
      BY <1>2, <2>1, <2>2 DEF Timely, In, s
  <1>6. QED
    BY <1>4, <1>5

-----------------------------------------------------------------------------
(* The relay firewall: the ports of the services stay as they are.         *)

Modes == {"idle", "heal", "open", "vk", "closed"}
ServiceRules == {Relay!Rule(v.num, v.proto, "any", "accept") : v \in Services}

RelayTyped ==
    /\ host \in Hosts
    /\ inForce \in Seq(RuleSet) /\ stored \in Seq(RuleSet)
    /\ chain \in Seq(Words \cup {"absent"})
    /\ ranges \subseteq Relays
    /\ job \in [Relay!Agents -> [mode : Modes, num : Nat]]
    /\ intact \in [Relay!Agents -> BOOLEAN]
    /\ todo \in [Relay!Agents -> Seq(AllCalls)]

\* An agent works on a port of the engine, its calls fit the firewall, and on ufw
\* it is alone.
CallsFit ==
    /\ \A a \in Relay!Agents :
          /\ Relay!Busy(a) => job[a].num \in EngineNums
          /\ ~Relay!Busy(a) => todo[a] = << >>
          /\ Timely(todo[a], inForce, job[a].num)
    /\ host[1] = "ufw" => ~(Relay!Busy("guard") /\ Relay!Busy("heal"))
    /\ todo["guard"] \in Seq(GuardSet(job["guard"].num, host[1]))
    /\ todo["heal"] \in Seq(AnySet(job["heal"].num, host[1]))

\* A rule whose line names no number of the engine.
Foreign(r) == \A n \in EngineNums : ~Relay!MentionsPort(r, n)

\* Now and after a boot, the rules of other ports are those of the services.
ServicesKept ==
    /\ \A r : Foreign(r) => (In(r, inForce) <=> r \in ServiceRules)
    /\ \A r : Foreign(r) => (In(r, stored) <=> r \in ServiceRules)
    /\ host[1] # "iptables" =>
          \A r : In(r, inForce) \/ In(r, stored) => r.to \in {"accept", "drop"}
    /\ host[1] = "ufw" => stored = inForce

RulesInv == RelayTyped /\ CallsFit /\ ServicesKept

LEMMA HostIs ==
  ASSUME host \in Hosts
  PROVE  host[1] \in {"iptables", "ufw", "firewalld"}
  <1>1. Hosts \subseteq {"iptables", "ufw", "firewalld"} \X BOOLEAN
    BY HostConstants DEF Relay!GuardConstants
  <1>2. PICK w \in {"iptables", "ufw", "firewalld"}, b \in BOOLEAN : host = <<w, b>>
    BY <1>1
  <1>3. QED
    BY <1>2

\* Where no call deletes by place, a list fits whatever the rules are.
LEMMA QuietFits ==
  ASSUME NEW n, NEW wall \in {"iptables", "firewalld"}, NEW s \in Seq(AnySet(n, wall)),
         NEW list, NEW other, Timely(s, list, n)
  PROVE  Timely(s, other, n)
  <1>1. \A i \in 1..Len(s) : s[i] \in AnySet(n, wall)
    OBVIOUS
  <1>2. \A c \in AnySet(n, wall) : c.does # "delete"
    BY DEF AnySet, GuardCall, LookCall, IptablesCall, FirewalldCall
  <1>3. QED
    BY <1>1, <1>2 DEF Timely

\* The agent at work: on ufw it is alone, and its next call fits.
LEMMA Caller ==
  ASSUME RulesInv, NEW a \in Relay!Agents, todo[a] # << >>
  PROVE  LET s == todo[a] n == job[a].num
         IN  /\ Relay!Busy(a) /\ n \in EngineNums /\ n \in Nat
             /\ host[1] = "ufw" =>
                  \A b \in Relay!Agents : b # a => ~Relay!Busy(b) /\ todo[b] = << >>
             /\ s \in Seq(AnySet(n, host[1])) /\ s[1] \in AnySet(n, host[1])
             /\ a = "guard" => s \in Seq(GuardSet(n, host[1])) /\ s[1] \in GuardSet(n, host[1])
             /\ s[1].does = "delete" =>
                  /\ host[1] = "ufw" /\ s[1].arg \in 1..Len(inForce)
                  /\ Relay!MentionsPort(inForce[s[1].arg], n)
             /\ s[1].boot \in BOOLEAN /\ (host[1] # "firewalld" => s[1].boot = FALSE)
  <1> DEFINE s == todo[a]
             n == job[a].num
  <1>1. Relay!Busy(a) /\ n \in EngineNums /\ n \in Nat
    BY HostConstants DEF RulesInv, CallsFit, Relay!GuardConstants
  <1>2. host[1] = "ufw" => \A b \in Relay!Agents : b # a => ~Relay!Busy(b) /\ todo[b] = << >>
    BY <1>1 DEF RulesInv, CallsFit, Relay!Agents
  <1>3. a = "guard" => s \in Seq(GuardSet(n, host[1]))
    BY DEF RulesInv, CallsFit
  <1>4. GuardSet(n, host[1]) \subseteq AnySet(n, host[1])
    BY DEF GuardSet, AnySet
  <1>5. s \in Seq(AnySet(n, host[1]))
    <2>1. a = "heal" => s \in Seq(AnySet(n, host[1]))
      BY DEF RulesInv, CallsFit
    <2>2. a = "guard" => s \in Seq(AnySet(n, host[1]))
      BY <1>3, <1>4
    <2>3. QED
      BY <2>1, <2>2 DEF Relay!Agents
  <1>6. Timely(s, inForce, n)
    BY DEF RulesInv, CallsFit
  <1>7. s # << >>
    OBVIOUS
  <1> HIDE DEF s, n
  <1>8. s[1] \in AnySet(n, host[1]) /\ 1 \in 1..Len(s)
    BY <1>5, <1>7
  <1>9. a = "guard" => s[1] \in GuardSet(n, host[1])
    BY <1>3, <1>7
  <1>10. s[1].does = "delete" => host[1] = "ufw"
    BY <1>8 DEF AnySet, GuardCall, LookCall, IptablesCall, UfwCall, FirewalldCall
  <1>11. s[1].boot \in BOOLEAN /\ (host[1] # "firewalld" => s[1].boot = FALSE)
    BY <1>8 DEF AnySet, AllCalls, GuardCall, LookCall, IptablesCall, UfwCall, FirewalldCall
  <1>12. s[1].does = "delete" => s[1].arg \in 1..Len(inForce) /\ Relay!MentionsPort(inForce[s[1].arg], n)
    BY <1>6, <1>8 DEF Timely
  <1>13. QED
    BY <1>1, <1>2, <1>3, <1>5, <1>8, <1>9, <1>10, <1>11, <1>12 DEF s, n

\* What a call that works does to the two copies of the rules.
LEMMA CallEdits ==
  ASSUME RulesInv, NEW a \in Relay!Agents, Relay!Step(a)
  PROVE  LET c == todo[a][1] n == job[a].num
         IN  /\ inForce' \in Seq(RuleSet) /\ stored' \in Seq(RuleSet)
             /\ \A y : ~Relay!MentionsPort(y, n) => (In(y, inForce') <=> In(y, inForce))
             /\ \A y : ~Relay!MentionsPort(y, n) => (In(y, stored') <=> In(y, stored))
             /\ host[1] # "iptables" =>
                  \A y : In(y, inForce') => In(y, inForce) \/ (c.does \in Adder /\ y = c.arg)
             /\ host[1] # "iptables" =>
                  \A y : In(y, stored') => In(y, stored) \/ (c.does \in Adder /\ y = c.arg)
             /\ host[1] = "ufw" => stored' = inForce' /\ inForce' = Relay!Edited(c, inForce)
             /\ host[1] # "ufw" /\ c.boot =>
                  stored' = Relay!Edited(c, stored) /\ inForce' = inForce
             /\ host[1] # "ufw" /\ ~c.boot =>
                  inForce' = Relay!Edited(c, inForce) /\ stored' = stored
  <1> DEFINE c == todo[a][1]
             n == job[a].num
  <1>1. todo[a] # << >> /\ Head(todo[a]) = c /\ Relay!Edit(c)
    BY DEF Relay!Step, Relay!Does, RulesInv, RelayTyped
  <1>2. /\ n \in Nat /\ c \in AnySet(n, host[1]) /\ c.boot \in BOOLEAN
        /\ c.does = "delete" => host[1] = "ufw" /\ c.arg \in 1..Len(inForce) /\ Relay!MentionsPort(inForce[c.arg], n)
    BY <1>1, Caller
  <1>3. inForce \in Seq(RuleSet) /\ stored \in Seq(RuleSet) /\ (host[1] = "ufw" => stored = inForce)
    BY DEF RulesInv, RelayTyped, ServicesKept
  <1> HIDE DEF c, n
  <1>4. /\ host[1] = "ufw" => inForce' = Relay!Edited(c, inForce) /\ stored' = inForce'
        /\ host[1] # "ufw" /\ c.boot => stored' = Relay!Edited(c, stored) /\ inForce' = inForce
        /\ host[1] # "ufw" /\ ~c.boot => inForce' = Relay!Edited(c, inForce) /\ stored' = stored
    BY <1>1, <1>2 DEF Relay!Edit, Relay!Backend
  <1>5. ASSUME NEW s \in Seq(RuleSet), s = inForce \/ c.does # "delete"
        PROVE  /\ Relay!Edited(c, s) \in Seq(RuleSet)
               /\ \A y : ~Relay!MentionsPort(y, n) => (In(y, Relay!Edited(c, s)) <=> In(y, s))
               /\ host[1] # "iptables" =>
                    \A y : In(y, Relay!Edited(c, s)) => In(y, s) \/ (c.does \in Adder /\ y = c.arg)
    <2>1. c.does = "delete" => c.arg \in 1..Len(s) /\ Relay!MentionsPort(s[c.arg], n)
      BY <1>2, <1>5
    <2>2. c \in AnySet(n, Relay!Backend)
      BY <1>2 DEF Relay!Backend
    <2>3. QED
      BY <1>2, <2>1, <2>2, EditsItsNumber DEF Relay!Backend
  <1>6. inForce' = inForce \/ inForce' = Relay!Edited(c, inForce)
    BY <1>2, <1>4
  <1>7. stored' = stored \/ (stored' = Relay!Edited(c, stored) /\ (stored = inForce \/ c.does # "delete"))
    BY <1>2, <1>3, <1>4
  <1>8. /\ inForce' \in Seq(RuleSet)
        /\ \A y : ~Relay!MentionsPort(y, n) => (In(y, inForce') <=> In(y, inForce))
        /\ host[1] # "iptables" =>
             \A y : In(y, inForce') => In(y, inForce) \/ (c.does \in Adder /\ y = c.arg)
    <2>1. CASE inForce' = inForce
      BY <1>3, <2>1
    <2>2. CASE inForce' = Relay!Edited(c, inForce)
      BY <1>3, <1>5, <2>2
    <2>3. QED
      BY <1>6, <2>1, <2>2
  <1>9. /\ stored' \in Seq(RuleSet)
        /\ \A y : ~Relay!MentionsPort(y, n) => (In(y, stored') <=> In(y, stored))
        /\ host[1] # "iptables" =>
             \A y : In(y, stored') => In(y, stored) \/ (c.does \in Adder /\ y = c.arg)
    <2>1. CASE stored' = stored
      BY <1>3, <2>1
    <2>2. CASE stored' = Relay!Edited(c, stored) /\ (stored = inForce \/ c.does # "delete")
      BY <1>3, <1>5, <2>2
    <2>3. QED
      BY <1>7, <2>1, <2>2
  <1>10. QED
    BY <1>4, <1>8, <1>9 DEF c, n

\* The calls left after a call that worked.
LEMMA CallsLeft ==
  ASSUME RulesInv, NEW a \in Relay!Agents, Relay!Step(a)
  PROVE  LET s == todo[a] n == job[a].num more == Relay!Adds(s[1]) rest == Tail(s)
         IN  /\ todo' = [todo EXCEPT ![a] = more \o rest]
             /\ todo'[a] \in Seq(AnySet(n, host[1])) /\ todo'[a] = more \o rest
             /\ a = "guard" => todo'[a] \in Seq(GuardSet(n, host[1]))
             /\ Timely(todo'[a], inForce', n)
             /\ s[1].does \notin {"list", "judge"} => todo'[a] = rest
             /\ s[1].does = "list" => more = Relay!Deletions(n) /\ host[1] = "ufw" /\ inForce' = inForce
             /\ s[1].does = "judge" =>
                  /\ rest = << >> /\ todo'[a] = Relay!Judged(n)
                  /\ inForce' = inForce /\ stored' = stored
  <1> DEFINE s == todo[a]
             n == job[a].num
             c == s[1]
             more == Relay!Adds(c)
             rest == Tail(s)
             G == GuardSet(n, host[1])
             A == AnySet(n, host[1])
  <1>1. s # << >> /\ Head(s) = c /\ todo' = [todo EXCEPT ![a] = more \o rest]
    BY DEF Relay!Step, RulesInv, RelayTyped
  <1>2. /\ n \in Nat /\ s \in Seq(A) /\ c \in A /\ n \in EngineNums
        /\ a = "guard" => s \in Seq(G) /\ c \in G
    BY <1>1, Caller
  <1>3. todo'[a] = more \o rest
    BY <1>1 DEF RulesInv, RelayTyped
  <1>4. /\ Len(s) \in Nat /\ Len(s) >= 1 /\ rest \in Seq(A) /\ Len(rest) = Len(s) - 1
        /\ \A i \in 1..Len(rest) : rest[i] = s[i + 1] /\ i + 1 \in 1..Len(s)
    BY <1>1, <1>2, InTail
  <1>5. a = "guard" => rest \in Seq(G)
    BY <1>1, <1>2, InTail
  <1>6. Timely(s, inForce, n)
    BY DEF RulesInv, CallsFit
  <1>7. /\ c.does = "list" => c.arg = n /\ host[1] = "ufw"
        /\ c.does = "judge" => c.arg = n
        /\ c \in G => c.does # "judge"
    BY <1>2 DEF AnySet, GuardSet, GuardCall, LookCall, IptablesCall, UfwCall, FirewalldCall
  <1>8. G \subseteq A
    BY DEF GuardSet, AnySet
  <1>9. host[1] \in {"iptables", "ufw", "firewalld"}
    BY HostIs DEF RulesInv, RelayTyped
  <1>10. inForce \in Seq(RuleSet) /\ inForce' \in Seq(RuleSet) /\ Len(inForce) \in Nat
    BY CallEdits DEF RulesInv, RelayTyped
  <1>11. /\ host[1] = "ufw" => stored' = inForce' /\ inForce' = Relay!Edited(c, inForce)
                               /\ stored = inForce
         /\ host[1] # "ufw" /\ c.boot => stored' = Relay!Edited(c, stored) /\ inForce' = inForce
         /\ host[1] # "ufw" /\ ~c.boot => inForce' = Relay!Edited(c, inForce) /\ stored' = stored
    BY CallEdits DEF RulesInv, ServicesKept
  <1>12. c.does \in {"list", "judge"} =>
            Relay!Edited(c, inForce) = inForce /\ Relay!Edited(c, stored) = stored
    BY DEF Relay!Edited
  <1>13. c.boot \in BOOLEAN
    BY <1>1, Caller
  <1>14. c.does \in {"list", "judge"} => inForce' = inForce /\ stored' = stored
    BY <1>11, <1>12, <1>13
  <1>15. /\ c.does = "list" => more = Relay!Deletions(n)
         /\ c.does = "judge" => more = Relay!Judged(n)
         /\ c.does \notin {"list", "judge"} => more = << >>
    BY <1>7 DEF Relay!Adds
  <1>16. c.does = "delete" => inForce' = Relay!RemoveAt(inForce, c.arg)
                              /\ c.arg \in 1..Len(inForce) /\ Relay!MentionsPort(inForce[c.arg], n)
    <2>1. c.does = "delete" => host[1] = "ufw" /\ c.arg \in 1..Len(inForce) /\ Relay!MentionsPort(inForce[c.arg], n)
      BY <1>1, Caller
    <2>2. c.does = "delete" => Relay!Edited(c, inForce) = Relay!RemoveAt(inForce, c.arg)
      BY <1>10, <2>1, Fronted
    <2>3. QED
      BY <1>11, <2>1, <2>2
  <1> HIDE DEF s, n, c, more, rest, G, A
  <1>17. CASE c.does = "list"
    <2> DEFINE d == Relay!Deletions(n)
               t == d \o rest
    <2>1. /\ d \in Seq(GuardSet(n, "ufw")) /\ Descends(d, inForce, n)
      BY <1>2, <1>7, <1>10, <1>17, DeletesOfNumber DEF Relay!Backend
    <2>2. d \in Seq(G)
      BY <1>7, <1>17, <2>1 DEF G
    <2>3. d \in Seq(A)
      BY <1>8, <2>2
    <2>4. t \in Seq(A) /\ (a = "guard" => t \in Seq(G))
      BY <1>4, <1>5, <2>2, <2>3, InConcat
    <2>5. todo'[a] = t
      BY <1>3, <1>15, <1>17
    <2> HIDE DEF d
    <2>6. /\ Len(t) = Len(d) + Len(rest)
          /\ \A i \in 1..Len(d) : t[i] = d[i]
          /\ \A i \in 1..Len(rest) : t[Len(d) + i] = rest[i]
      <3>1. d \in Seq(A) /\ rest \in Seq(A)
        BY <1>4, <2>3
      <3>2. /\ Len(d \o rest) = Len(d) + Len(rest)
            /\ \A i \in 1..Len(d) : (d \o rest)[i] = d[i]
            /\ \A i \in 1..Len(rest) : (d \o rest)[Len(d) + i] = rest[i]
        BY <3>1, Joined
      <3>3. QED
        BY <3>2
    <2>7. Len(d) \in Nat /\ Len(rest) \in Nat
      BY <1>4, <2>3
    <2> HIDE DEF t
    <2>8. \A i \in 1..Len(rest) : rest[i].does # "list" /\ rest[i].does # "delete"
                                  /\ (rest[i].does = "judge" => i = Len(rest))
      <3>1. ASSUME NEW i \in 1..Len(rest)
            PROVE  rest[i].does # "list" /\ rest[i].does # "delete"
                   /\ (rest[i].does = "judge" => i = Len(rest))
        <4>1. i + 1 \in 1..Len(s) /\ rest[i] = s[i + 1] /\ i \in Nat /\ i >= 1
          BY <1>4
        <4>2. s[i + 1].does = "delete" => s[1].does = "delete"
          <5>1. 1 \in 1..(i + 1) - 1
            BY <4>1
          <5>2. QED
            BY <1>6, <4>1, <5>1 DEF Timely
        <4>3. s[i + 1].does = "list" => i + 1 = 1
          BY <1>6, <4>1 DEF Timely
        <4>4. s[i + 1].does = "judge" => i + 1 = Len(s)
          BY <1>6, <4>1 DEF Timely
        <4>5. QED
          BY <1>4, <1>17, <4>1, <4>2, <4>3, <4>4 DEF c
      <3>2. QED
        BY <3>1
    <2>9. Timely(t, inForce, n)
      <3>1. ASSUME NEW i \in 1..Len(t)
            PROVE  /\ t[i].does = "list" => i = 1
                   /\ t[i].does = "judge" => i = Len(t)
                   /\ t[i].does = "delete" =>
                        /\ t[i].arg \in 1..Len(inForce) /\ Relay!MentionsPort(inForce[t[i].arg], n)
                        /\ \A j \in 1..i - 1 : t[j].does = "delete" /\ t[i].arg < t[j].arg
        <4>1. CASE i <= Len(d)
          <5>1. i \in 1..Len(d) /\ \A j \in 1..i - 1 : j \in 1..Len(d) /\ j < i
            BY <2>7, <4>1
          <5>2. QED
            BY <2>1, <2>6, <5>1 DEF Descends
        <4>2. CASE i > Len(d)
          <5>1. i - Len(d) \in 1..Len(rest) /\ Len(d) + (i - Len(d)) = i
            BY <2>6, <2>7, <4>2
          <5>2. t[Len(d) + (i - Len(d))] = rest[i - Len(d)]
            BY <2>6, <5>1
          <5>3. t[i] = rest[i - Len(d)]
            BY <5>1, <5>2
          <5>4. i - Len(d) = Len(rest) => i = Len(t)
            BY <2>6, <2>7
          <5>5. QED
            BY <2>8, <5>1, <5>3, <5>4
        <4>3. QED
          BY <2>7, <4>1, <4>2
      <3>2. QED
        BY <3>1 DEF Timely
    <2>10. QED
      BY <1>1, <1>3, <1>7, <1>14, <1>15, <1>17, <2>4, <2>5, <2>9 DEF s, n, c, more, rest, G, A
  <1>18. CASE c.does = "judge"
    <2>1. Len(s) = 1
      <3>1. 1 \in 1..Len(s)
        BY <1>4
      <3>2. QED
        BY <1>6, <1>18, <3>1 DEF Timely, c
    <2>2. rest = << >>
      BY <1>4, <2>1
    <2>3. Relay!Judged(n) = << >> \/ Relay!Judged(n) = Relay!Opening(n)
      BY DEF Relay!Judged
    <2>4. Relay!Opening(n) \in Seq(G) /\ Timely(Relay!Opening(n), inForce, n)
      BY <1>2, <1>9, OpeningIsList DEF Relay!Backend, G
    <2>5. Relay!Judged(n) \in Seq(G) /\ Timely(Relay!Judged(n), inForce, n)
      <3>1. << >> \in Seq(G) /\ Timely(<< >>, inForce, n)
        BY DEF Timely
      <3>2. QED
        BY <2>3, <2>4, <3>1
    <2>6. todo'[a] = Relay!Judged(n)
      BY <1>3, <1>15, <1>18, <2>2, <2>5
    <2>7. Relay!Judged(n) \in Seq(A)
      BY <1>8, <2>5
    <2>8. QED
      BY <1>1, <1>3, <1>14, <1>18, <2>2, <2>5, <2>6, <2>7 DEF s, n, c, more, rest, G, A
  <1>19. CASE c.does \notin {"list", "judge"}
    <2>1. todo'[a] = rest
      BY <1>3, <1>4, <1>15, <1>19
    <2>2. ASSUME NEW i \in 1..Len(rest)
          PROVE  /\ rest[i].does = "list" => i = 1
                 /\ rest[i].does = "judge" => i = Len(rest)
                 /\ rest[i].does = "delete" =>
                      /\ rest[i].arg \in 1..Len(inForce') /\ Relay!MentionsPort(inForce'[rest[i].arg], n)
                      /\ \A j \in 1..i - 1 : rest[j].does = "delete" /\ rest[i].arg < rest[j].arg
      <3>1. i + 1 \in 1..Len(s) /\ rest[i] = s[i + 1] /\ i \in Nat /\ i >= 1
        BY <1>4
      <3>2. s[i + 1].does # "list"
        <4>1. s[i + 1].does = "list" => i + 1 = 1
          BY <1>6, <3>1 DEF Timely
        <4>2. QED
          BY <3>1, <4>1
      <3>3. s[i + 1].does = "judge" => i = Len(rest)
        <4>1. s[i + 1].does = "judge" => i + 1 = Len(s)
          BY <1>6, <3>1 DEF Timely
        <4>2. QED
          BY <1>4, <3>1, <4>1
      <3>4. ASSUME s[i + 1].does = "delete"
            PROVE  /\ s[i + 1].arg \in 1..Len(inForce') /\ Relay!MentionsPort(inForce'[s[i + 1].arg], n)
                   /\ \A j \in 1..i - 1 : rest[j].does = "delete" /\ s[i + 1].arg < rest[j].arg
        <4>1. /\ s[i + 1].arg \in 1..Len(inForce) /\ Relay!MentionsPort(inForce[s[i + 1].arg], n)
              /\ \A j \in 1..i : s[j].does = "delete" /\ s[i + 1].arg < s[j].arg
          <5>1. (i + 1) - 1 = i
            BY <3>1
          <5>2. QED
            BY <1>6, <3>1, <3>4, <5>1 DEF Timely
        <4>2. c.does = "delete" /\ s[i + 1].arg < c.arg
          BY <3>1, <4>1 DEF c
        <4>3. /\ Len(inForce') = Len(inForce) - 1
              /\ \A k \in 1..Len(inForce') : inForce'[k] = IF k < c.arg THEN inForce[k] ELSE inForce[k + 1]
          <5>1. /\ inForce' = Relay!RemoveAt(inForce, c.arg) /\ c.arg \in 1..Len(inForce)
                /\ inForce \in Seq(RuleSet)
            BY <1>10, <1>16, <4>2
          <5> DEFINE t == Relay!RemoveAt(inForce, c.arg)
          <5>2. /\ Len(t) = Len(inForce) - 1
                /\ \A k \in 1..Len(t) : t[k] = IF k < c.arg THEN inForce[k] ELSE inForce[k + 1]
            BY <5>1, InRest
          <5>3. inForce' = t
            BY <5>1
          <5> HIDE DEF t
          <5>4. QED
            BY <5>2, <5>3
        <4>4. s[i + 1].arg \in 1..Len(inForce')
          BY <1>10, <1>16, <4>1, <4>2, <4>3
        <4>5. Relay!MentionsPort(inForce'[s[i + 1].arg], n)
          BY <4>1, <4>2, <4>3, <4>4
        <4>6. \A j \in 1..i - 1 : rest[j] = s[j + 1] /\ j + 1 \in 1..i
          BY <1>4, <3>1
        <4>7. QED
          BY <4>1, <4>4, <4>5, <4>6
      <3>5. QED
        BY <3>1, <3>2, <3>3, <3>4
    <2>3. Timely(rest, inForce', n)
      BY <2>2 DEF Timely
    <2>4. QED
      BY <1>1, <1>3, <1>4, <1>5, <1>19, <2>1, <2>3 DEF s, n, c, more, rest, G, A
  <1>20. QED
    BY <1>17, <1>18, <1>19 DEF s, n, c, more, rest, G, A

LEMMA SetsOfCalls ==
  \A n, wall : /\ GuardSet(n, wall) \subseteq AnySet(n, wall)
               /\ AnySet(n, wall) \subseteq AllCalls
               /\ << >> \in Seq(GuardSet(n, wall)) /\ << >> \in Seq(AnySet(n, wall))
  BY DEF GuardSet, AnySet

LEMMA NothingIsTimely == \A list, n : Timely(<< >>, list, n)
  BY DEF Timely

\* An agent starts with calls that fit.
LEMMA StartsFit ==
  ASSUME RulesInv, NEW a \in Relay!Agents, NEW n \in EngineNums,
         NEW mode \in Modes, mode # "idle", NEW calls,
         Relay!Start(a, [mode |-> mode, num |-> n], calls),
         UNCHANGED <<host, default, chain, inForce, stored, early, ranges, asked, blind, faults>>,
         ~Relay!Lost',
         a = "guard" => calls \in Seq(GuardSet(n, host[1])),
         a = "heal" => calls \in Seq(AnySet(n, host[1])),
         Timely(calls, inForce, n)
  PROVE  /\ RulesInv'
         /\ \A b \in Relay!Agents : b # a =>
               job'[b] = job[b] /\ todo'[b] = todo[b] /\ (Relay!Busy(b)' <=> Relay!Busy(b))
         /\ ~Relay!Busy(a) /\ Relay!Busy(a)'
         /\ job'[a] = [mode |-> mode, num |-> n] /\ todo'[a] = calls
         /\ \A b \in Relay!Agents :
              (intact'[b] = TRUE) => b = a /\ \A d \in Relay!Agents : ~Relay!Busy(d)
  <1> DEFINE work == [mode |-> mode, num |-> n]
  <1>1. /\ ~Relay!Busy(a)
        /\ job' = [job EXCEPT ![a] = work] /\ todo' = [todo EXCEPT ![a] = calls]
        /\ intact' = [b \in Relay!Agents |-> IF b = a THEN \A d \in Relay!Agents : ~Relay!Busy(d)
                                                    ELSE FALSE]
        /\ crossed' = (crossed \/ \E b \in Relay!Agents : Relay!Busy(b))
    BY DEF Relay!Start
  <1>1a. host[1] = "ufw" => \A b \in Relay!Agents : ~Relay!Busy(b)
    BY <1>1 DEF Relay!Lost, Relay!Backend
  <1>2. n \in Nat /\ work \in [mode : Modes, num : Nat] /\ work # Relay!Idle /\ work.num = n
    <2>1. n \in Nat
      BY HostConstants DEF Relay!GuardConstants
    <2>2. Relay!Idle.mode = "idle" /\ work.mode = mode
      BY DEF Relay!Idle
    <2>3. QED
      BY <2>1, <2>2
  <1>3. calls \in Seq(AllCalls)
    <2>1. calls \in Seq(AnySet(n, host[1]))
      <3>1. a = "guard" => calls \in Seq(AnySet(n, host[1]))
        BY SetsOfCalls
      <3>2. QED
        BY <3>1 DEF Relay!Agents
    <2>2. QED
      BY <2>1, SetsOfCalls
  <1>4. /\ \A b \in Relay!Agents : b # a => job'[b] = job[b] /\ todo'[b] = todo[b]
        /\ job'[a] = work /\ todo'[a] = calls
    BY <1>1 DEF RulesInv, RelayTyped, CallsFit
  <1>5. /\ job' \in [Relay!Agents -> [mode : Modes, num : Nat]]
        /\ todo' \in [Relay!Agents -> Seq(AllCalls)]
    BY <1>1, <1>2, <1>3 DEF RulesInv, RelayTyped
  <1>5a. intact' \in [Relay!Agents -> BOOLEAN]
    BY <1>1, Zenon
  <1>5b. ASSUME NEW b \in Relay!Agents, intact'[b] = TRUE
         PROVE  b = a /\ \A d \in Relay!Agents : ~Relay!Busy(d)
    BY <1>1, <1>5b
  <1>6. Relay!Busy(a)' /\ \A b \in Relay!Agents : b # a => (Relay!Busy(b)' <=> Relay!Busy(b))
    BY <1>1, <1>2, <1>4 DEF Relay!Busy
  <1> HIDE DEF work
  <1>7. RelayTyped'
    BY <1>5, <1>5a DEF RulesInv, RelayTyped
  <1>8. CallsFit'
    <2>1. \A b \in Relay!Agents :
            /\ Relay!Busy(b)' => job'[b].num \in EngineNums
            /\ ~Relay!Busy(b)' => todo'[b] = << >>
            /\ Timely(todo'[b], inForce', job'[b].num)
      <3>1. ASSUME NEW b \in Relay!Agents, b = a
            PROVE  /\ Relay!Busy(b)' => job'[b].num \in EngineNums
                   /\ ~Relay!Busy(b)' => todo'[b] = << >>
                   /\ Timely(todo'[b], inForce', job'[b].num)
        BY <1>2, <1>4, <1>6, <3>1
      <3>2. ASSUME NEW b \in Relay!Agents, b # a
            PROVE  /\ Relay!Busy(b)' => job'[b].num \in EngineNums
                   /\ ~Relay!Busy(b)' => todo'[b] = << >>
                   /\ Timely(todo'[b], inForce', job'[b].num)
        BY <1>4, <1>6, <3>2 DEF RulesInv, CallsFit
      <3>3. QED
        BY <3>1, <3>2
    <2>2. host'[1] = "ufw" => ~(Relay!Busy("guard")' /\ Relay!Busy("heal")')
      BY <1>1a, <1>6 DEF Relay!Agents
    <2>3. todo'["guard"] \in Seq(GuardSet(job'["guard"].num, host'[1]))
      <3>1. CASE a = "guard"
        <4>1. calls \in Seq(GuardSet(n, host[1]))
          BY <3>1
        <4>2. todo'["guard"] = calls /\ job'["guard"].num = n
          BY <1>2, <1>4, <3>1
        <4>3. QED
          BY <4>1, <4>2
      <3>2. CASE a # "guard"
        BY <1>4, <3>2 DEF Relay!Agents, RulesInv, CallsFit
      <3>3. QED
        BY <3>1, <3>2
    <2>4. todo'["heal"] \in Seq(AnySet(job'["heal"].num, host'[1]))
      <3>1. CASE a = "heal"
        <4>1. calls \in Seq(AnySet(n, host[1]))
          BY <3>1
        <4>2. todo'["heal"] = calls /\ job'["heal"].num = n
          BY <1>2, <1>4, <3>1
        <4>3. QED
          BY <4>1, <4>2
      <3>2. CASE a # "heal"
        BY <1>4, <3>2 DEF Relay!Agents, RulesInv, CallsFit
      <3>3. QED
        BY <3>1, <3>2
    <2>5. QED
      BY <2>1, <2>2, <2>3, <2>4 DEF CallsFit
  <1>9. ServicesKept'
    BY DEF RulesInv, ServicesKept
  <1>10. QED
    BY <1>1, <1>4, <1>5b, <1>6, <1>7, <1>8, <1>9 DEF RulesInv, work

LEMMA GuardListFits ==
  ASSUME RelayTyped, NEW n \in EngineNums, NEW mode \in {"open", "vk", "closed"}
  PROVE  /\ Relay!GuardCalls(n, mode) \in Seq(GuardSet(n, host[1]))
         /\ Timely(Relay!GuardCalls(n, mode), inForce, n)
  <1>1. n \in Nat /\ ranges \subseteq Relays
    BY HostConstants DEF Relay!GuardConstants, RelayTyped
  <1>2. CASE host[1] = "iptables"
    <2>1. Relay!GuardCalls(n, mode) = Relay!ApplyIptables(n, mode)
      BY <1>2 DEF Relay!GuardCalls, Relay!Backend
    <2>2. Relay!GuardCalls(n, mode) \in Seq(GuardSet(n, "iptables"))
      BY <1>1, <2>1, IptablesStarts
    <2>3. QED
      BY <1>1, <1>2, <2>2, QuietIsTimely
  <1>3. CASE host[1] = "ufw"
    <2>1. Relay!GuardCalls(n, mode) = Relay!ApplyUfw(n, mode)
      BY <1>3 DEF Relay!GuardCalls, Relay!Backend
    <2>2. QED
      BY <1>1, <1>3, <2>1, UfwStarts
  <1>4. CASE host[1] = "firewalld"
    <2>1. Relay!GuardCalls(n, mode) = Relay!ApplyFirewalld(n, mode)
      BY <1>4 DEF Relay!GuardCalls, Relay!Backend
    <2>2. Relay!GuardCalls(n, mode) \in Seq(GuardSet(n, "firewalld"))
      <3>1. Relay!ApplyFirewalld(n, mode) \in Seq(GuardSet(n, "firewalld"))
        BY <1>1, FirewalldStarts
      <3>2. QED
        BY <2>1, <3>1
    <2>3. QED
      BY <1>1, <1>4, <2>2, QuietIsTimely
  <1>5. QED
    BY <1>2, <1>3, <1>4, HostIs DEF RelayTyped

\* A shorter list of calls is as timely.
LEMMA TimelyTail ==
  ASSUME NEW T, NEW s \in Seq(T), s # << >>, NEW list, NEW n, Timely(s, list, n)
  PROVE  Timely(Tail(s), list, n)
  <1>1. /\ Len(s) \in Nat /\ Len(s) >= 1 /\ Len(Tail(s)) = Len(s) - 1
        /\ \A i \in 1..Len(Tail(s)) : Tail(s)[i] = s[i + 1] /\ i + 1 \in 1..Len(s)
    BY InTail
  <1> DEFINE t == Tail(s)
  <1> HIDE DEF t
  <1>2. ASSUME NEW i \in 1..Len(t)
        PROVE  /\ t[i].does = "list" => i = 1
               /\ t[i].does = "judge" => i = Len(t)
               /\ t[i].does = "delete" =>
                    /\ t[i].arg \in 1..Len(list) /\ Relay!MentionsPort(list[t[i].arg], n)
                    /\ \A j \in 1..i - 1 : t[j].does = "delete" /\ t[i].arg < t[j].arg
    <2>1. t[i] = s[i + 1] /\ i + 1 \in 1..Len(s) /\ i \in Nat /\ i >= 1
      BY <1>1 DEF t
    <2>2. s[i + 1].does # "list"
      <3>1. s[i + 1].does = "list" => i + 1 = 1
        BY <2>1 DEF Timely
      <3>2. QED
        BY <2>1, <3>1
    <2>3. s[i + 1].does = "judge" => i = Len(t)
      <3>1. s[i + 1].does = "judge" => i + 1 = Len(s)
        BY <2>1 DEF Timely
      <3>2. QED
        BY <1>1, <2>1, <3>1 DEF t
    <2>4. ASSUME s[i + 1].does = "delete"
          PROVE  /\ s[i + 1].arg \in 1..Len(list) /\ Relay!MentionsPort(list[s[i + 1].arg], n)
                 /\ \A j \in 1..i - 1 : t[j].does = "delete" /\ s[i + 1].arg < t[j].arg
      <3>1. /\ s[i + 1].arg \in 1..Len(list) /\ Relay!MentionsPort(list[s[i + 1].arg], n)
            /\ \A j \in 1..(i + 1) - 1 : s[j].does = "delete" /\ s[i + 1].arg < s[j].arg
        BY <2>1, <2>4 DEF Timely
      <3>2. \A j \in 1..i - 1 : t[j] = s[j + 1] /\ j + 1 \in 1..(i + 1) - 1
        BY <1>1, <2>1 DEF t
      <3>3. QED
        BY <3>1, <3>2
    <2>5. QED
      BY <2>1, <2>2, <2>3, <2>4
  <1>3. QED
    BY <1>2 DEF Timely, t

\* What a call that fails leaves: the calls after it, or those that open the port.
LEMMA FailLeaves ==
  ASSUME RulesInv, NEW a \in Relay!Agents, todo[a] # << >>
  PROVE  LET left == Relay!Unread(Head(todo[a])) \o Tail(todo[a])
         IN  IF todo[a][1].does = "judge" THEN left = Relay!Opening(job[a].num)
             ELSE left = Tail(todo[a])
  <1> DEFINE s == todo[a]
             n == job[a].num
  <1>1. n \in EngineNums /\ n \in Nat /\ s \in Seq(AnySet(n, host[1])) /\ s[1] \in AnySet(n, host[1])
    BY Caller
  <1>2. Timely(s, inForce, n) /\ inForce \in Seq(RuleSet) /\ host \in Hosts
    BY DEF RulesInv, RelayTyped, CallsFit
  <1>3. s[1].does = "judge" => s[1].arg = n
    BY <1>1 DEF AnySet, GuardCall, LookCall, IptablesCall, UfwCall, FirewalldCall
  <1>4. Relay!Opening(n) \in Seq(GuardSet(n, host[1]))
    BY <1>1, <1>2, HostIs, OpeningIsList DEF Relay!Backend
  <1>5. s # << >>
    OBVIOUS
  <1> DEFINE A == AnySet(n, host[1])
             open == Relay!Opening(n)
  <1>6. s \in Seq(A) /\ Head(s) = s[1] /\ Tail(s) \in Seq(A) /\ Len(s) \in Nat /\ Len(s) >= 1
    BY <1>1, <1>5, InTail
  <1>7. open \in Seq(A)
    BY <1>4, SetsOfCalls
  <1> HIDE DEF A, s, n, open
  <1>8. CASE s[1].does = "judge"
    <2>1. Len(s) = 1
      <3>1. \A i \in 1..Len(s) : s[i].does = "judge" => i = Len(s)
        BY <1>2 DEF Timely
      <3>2. 1 \in 1..Len(s)
        BY <1>6
      <3>3. QED
        BY <1>8, <3>1, <3>2
    <2>2. Tail(s) = << >>
      <3>1. Len(Tail(s)) = 0 /\ Tail(s) \in Seq(A)
        BY <1>5, <1>6, <2>1, InTail
      <3>2. QED
        BY <3>1, EmptySeq
    <2>3. Relay!Unread(s[1]) = open
      BY <1>3, <1>8 DEF Relay!Unread, open
    <2>4. open \o << >> = open
      BY <1>7
    <2>5. QED
      BY <1>6, <1>8, <2>2, <2>3, <2>4 DEF s, n, open
  <1>9. CASE s[1].does # "judge"
    <2>1. Relay!Unread(s[1]) = << >>
      BY <1>9 DEF Relay!Unread
    <2>2. << >> \o Tail(s) = Tail(s)
      BY <1>6
    <2>3. QED
      BY <1>6, <1>9, <2>1, <2>2 DEF s
  <1>10. QED
    BY <1>8, <1>9 DEF s

\* An agent goes on after a call that failed, or is killed.
LEMMA DroppedFits ==
  ASSUME RulesInv, NEW a \in Relay!Agents, todo[a] # << >>, NEW fewer,
         \/ fewer = Tail(todo[a]) \/ fewer = << >>
         \/ todo[a][1].does = "judge" /\ fewer = Relay!Opening(job[a].num),
         todo' = [todo EXCEPT ![a] = fewer], intact' = [intact EXCEPT ![a] = FALSE],
         UNCHANGED <<host, default, chain, inForce, stored, early, ranges, job, asked>>
  PROVE  RulesInv'
  <1> DEFINE n == job[a].num
  <1>1. /\ Relay!Busy(a) /\ todo[a] \in Seq(AnySet(n, host[1]))
        /\ a = "guard" => todo[a] \in Seq(GuardSet(n, host[1]))
        /\ n \in EngineNums /\ n \in Nat
    BY Caller
  <1>1a. Relay!Opening(n) \in Seq(GuardSet(n, host[1])) /\ Timely(Relay!Opening(n), inForce, n)
    BY <1>1, HostIs, OpeningIsList DEF RulesInv, RelayTyped, Relay!Backend
  <1>2. Timely(todo[a], inForce, n)
    BY DEF RulesInv, CallsFit
  <1>3. Timely(fewer, inForce, n)
    BY <1>1, <1>1a, <1>2, TimelyTail, NothingIsTimely
  <1>4. fewer \in Seq(AnySet(n, host[1])) /\ (a = "guard" => fewer \in Seq(GuardSet(n, host[1])))
    <2>1. CASE fewer = << >>
      BY <2>1, SetsOfCalls
    <2>2. CASE fewer = Tail(todo[a])
      <3>1. Tail(todo[a]) \in Seq(AnySet(n, host[1]))
        BY <1>1, InTail
      <3>2. a = "guard" => Tail(todo[a]) \in Seq(GuardSet(n, host[1]))
        BY <1>1, InTail
      <3>3. QED
        BY <2>2, <3>1, <3>2
    <2>3. CASE fewer = Relay!Opening(n)
      BY <1>1a, <2>3, SetsOfCalls
    <2>4. QED
      BY <2>1, <2>2, <2>3
  <1>5. fewer \in Seq(AllCalls)
    BY <1>4, SetsOfCalls
  <1>6. todo'[a] = fewer /\ \A b \in Relay!Agents : b # a => todo'[b] = todo[b]
    BY DEF RulesInv, RelayTyped
  <1> HIDE DEF n
  <1>7. RelayTyped'
    BY <1>5 DEF RulesInv, RelayTyped
  <1>8. \A b \in Relay!Agents : Relay!Busy(b)' <=> Relay!Busy(b)
    BY DEF Relay!Busy
  <1>9. CallsFit'
    <2>1. \A b \in Relay!Agents : Timely(todo'[b], inForce', job'[b].num)
      BY <1>3, <1>6 DEF RulesInv, CallsFit, n
    <2>2. \A b \in Relay!Agents : ~Relay!Busy(b)' => todo'[b] = << >>
      BY <1>1, <1>6, <1>8 DEF RulesInv, CallsFit
    <2>3. todo'["guard"] \in Seq(GuardSet(job'["guard"].num, host'[1]))
      BY <1>4, <1>6 DEF RulesInv, CallsFit, Relay!Agents, n
    <2>4. todo'["heal"] \in Seq(AnySet(job'["heal"].num, host'[1]))
      BY <1>4, <1>6 DEF RulesInv, CallsFit, Relay!Agents, n
    <2>5. host'[1] = "ufw" => ~(Relay!Busy("guard")' /\ Relay!Busy("heal")')
      BY <1>8 DEF RulesInv, CallsFit, Relay!Agents
    <2>6. \A b \in Relay!Agents : Relay!Busy(b)' => job'[b].num \in EngineNums
      BY <1>8 DEF RulesInv, CallsFit
    <2>7. QED
      BY <2>1, <2>2, <2>3, <2>4, <2>5, <2>6 DEF CallsFit
  <1>10. ServicesKept'
    BY DEF RulesInv, ServicesKept
  <1>11. QED
    BY <1>7, <1>9, <1>10 DEF RulesInv

\* A call works.
LEMMA CallKeepsRules ==
  ASSUME RulesInv, NEW a \in Relay!Agents, Relay!Step(a)
  PROVE  RulesInv'
  <1> DEFINE s == todo[a]
             c == s[1]
             n == job[a].num
  <1>1. s # << >> /\ Head(s) = c /\ Relay!Does(c)
        /\ UNCHANGED <<host, default, ranges, job, intact, asked, blind, crossed>>
    BY DEF Relay!Step, RulesInv, RelayTyped
  <1>2. /\ Relay!Busy(a) /\ n \in EngineNums
        /\ host[1] = "ufw" => \A b \in Relay!Agents : b # a => ~Relay!Busy(b) /\ todo[b] = << >>
        /\ c \in AnySet(n, host[1])
    BY <1>1, Caller
  <1>3. /\ todo' = [todo EXCEPT ![a] = Relay!Adds(c) \o Tail(s)]
        /\ todo'[a] \in Seq(AnySet(n, host[1]))
        /\ a = "guard" => todo'[a] \in Seq(GuardSet(n, host[1]))
        /\ Timely(todo'[a], inForce', n)
    BY CallsLeft
  <1>4. /\ inForce' \in Seq(RuleSet) /\ stored' \in Seq(RuleSet)
        /\ \A y : ~Relay!MentionsPort(y, n) => (In(y, inForce') <=> In(y, inForce))
        /\ \A y : ~Relay!MentionsPort(y, n) => (In(y, stored') <=> In(y, stored))
        /\ host[1] # "iptables" =>
             \A y : In(y, inForce') => In(y, inForce) \/ (c.does \in Adder /\ y = c.arg)
        /\ host[1] # "iptables" =>
             \A y : In(y, stored') => In(y, stored) \/ (c.does \in Adder /\ y = c.arg)
        /\ host[1] = "ufw" => stored' = inForce'
    BY CallEdits
  <1>5. c.does = "append" => c.arg \in Words
    BY <1>2 DEF AnySet, GuardCall, LookCall, IptablesCall, UfwCall, FirewalldCall
  <1>6. host[1] # "iptables" /\ c.does \in Adder => c.arg.to \in {"accept", "drop"}
    BY <1>2 DEF AnySet, GuardCall, LookCall, IptablesCall, UfwCall, FirewalldCall, EngineRule, Adder
  <1>8. todo' \in [Relay!Agents -> Seq(AllCalls)] /\ \A b \in Relay!Agents : b # a => todo'[b] = todo[b]
    <2>1. todo'[a] \in Seq(AllCalls)
      <3> DEFINE A == AnySet(n, host[1])
      <3>1. A \subseteq AllCalls
        BY SetsOfCalls
      <3>2. todo'[a] \in Seq(A)
        BY <1>3
      <3> HIDE DEF A
      <3>3. QED
        BY <3>1, <3>2
    <2>2. todo \in [Relay!Agents -> Seq(AllCalls)]
      BY DEF RulesInv, RelayTyped
    <2> DEFINE t == Relay!Adds(c) \o Tail(s)
    <2>3. todo' = [todo EXCEPT ![a] = t]
      BY <1>3
    <2> HIDE DEF t
    <2>4. QED
      BY <2>1, <2>2, <2>3
  <1>9. chain' \in Seq(Words \cup {"absent"})
    <2>1. chain \in Seq(Words \cup {"absent"})
      BY DEF RulesInv, RelayTyped
    <2>2. chain' \in {chain, << >>, Relay!Absent} \/ (c.does = "append" /\ chain' = Append(chain, c.arg))
      BY <1>1 DEF Relay!Does
    <2>3. Relay!Absent \in Seq(Words \cup {"absent"}) /\ << >> \in Seq(Words \cup {"absent"})
      BY DEF Relay!Absent
    <2>4. c.does = "append" => Append(chain, c.arg) \in Seq(Words \cup {"absent"})
      BY <1>5, <2>1
    <2>5. QED
      BY <2>1, <2>2, <2>3, <2>4
  <1> HIDE DEF s, c, n
  <1>10. RelayTyped'
    BY <1>1, <1>4, <1>8, <1>9 DEF RulesInv, RelayTyped
  <1>11. \A b \in Relay!Agents : Relay!Busy(b)' <=> Relay!Busy(b)
    BY <1>1 DEF Relay!Busy
  <1>12. CallsFit'
    <2>1. \A b \in Relay!Agents : Timely(todo'[b], inForce', job'[b].num)
      <3>1. ASSUME NEW b \in Relay!Agents, b = a PROVE Timely(todo'[b], inForce', job'[b].num)
        BY <1>1, <1>3, <3>1 DEF n
      <3>2. ASSUME NEW b \in Relay!Agents, b # a PROVE Timely(todo'[b], inForce', job'[b].num)
        <4>1. CASE host[1] = "ufw"
          BY <1>2, <1>8, <3>2, <4>1, NothingIsTimely
        <4>2. CASE host[1] # "ufw"
          <5>1. host[1] \in {"iptables", "firewalld"}
            BY <4>2, HostIs DEF RulesInv, RelayTyped
          <5>2. todo'[b] = todo[b] /\ job'[b] = job[b] /\ Timely(todo[b], inForce, job[b].num)
            BY <1>1, <1>8, <3>2 DEF RulesInv, CallsFit
          <5>3. todo[b] \in Seq(AnySet(job[b].num, host[1]))
            BY SetsOfCalls DEF RulesInv, CallsFit, Relay!Agents
          <5>4. QED
            BY <5>1, <5>2, <5>3, QuietFits
        <4>3. QED
          BY <4>1, <4>2
      <3>3. QED
        BY <3>1, <3>2
    <2>2. \A b \in Relay!Agents : ~Relay!Busy(b)' => todo'[b] = << >>
      BY <1>2, <1>8, <1>11 DEF RulesInv, CallsFit
    <2>3. todo'["guard"] \in Seq(GuardSet(job'["guard"].num, host'[1]))
      BY <1>1, <1>3, <1>8 DEF RulesInv, CallsFit, Relay!Agents, n
    <2>4. todo'["heal"] \in Seq(AnySet(job'["heal"].num, host'[1]))
      BY <1>1, <1>3, <1>8 DEF RulesInv, CallsFit, Relay!Agents, n
    <2>5. host'[1] = "ufw" => ~(Relay!Busy("guard")' /\ Relay!Busy("heal")')
      BY <1>1, <1>11 DEF RulesInv, CallsFit, Relay!Agents
    <2>6. \A b \in Relay!Agents : Relay!Busy(b)' => job'[b].num \in EngineNums
      BY <1>1, <1>11 DEF RulesInv, CallsFit
    <2>7. QED
      BY <2>1, <2>2, <2>3, <2>4, <2>5, <2>6 DEF CallsFit
  <1>13. ServicesKept'
    <2>1. \A r : Foreign(r) => (In(r, inForce') <=> r \in ServiceRules)
      BY <1>2, <1>4 DEF RulesInv, ServicesKept, Foreign
    <2>2. \A r : Foreign(r) => (In(r, stored') <=> r \in ServiceRules)
      BY <1>2, <1>4 DEF RulesInv, ServicesKept, Foreign
    <2>3. host[1] # "iptables" =>
            \A r : In(r, inForce') \/ In(r, stored') => r.to \in {"accept", "drop"}
      BY <1>4, <1>6 DEF RulesInv, ServicesKept
    <2>4. QED
      BY <1>1, <1>4, <2>1, <2>2, <2>3 DEF RulesInv, ServicesKept
  <1>14. QED
    BY <1>10, <1>12, <1>13 DEF RulesInv

LEMMA RulesStep ==
  ASSUME RulesInv, Relay!GuardNext, ~Relay!Lost'
  PROVE  RulesInv'
  <1>1. RelayTyped /\ EngineNums \subseteq Nat
    BY HostIs, HostConstants DEF RulesInv, RelayTyped, Relay!Backend, Relay!GuardConstants
  <1>2. \A m \in {"heal", "open", "vk", "closed"} : m \in Modes /\ m # "idle"
    BY DEF Modes
  <1>3. "guard" \in Relay!Agents /\ "heal" \in Relay!Agents
    BY DEF Relay!Agents
  <1>4. ASSUME NEW n \in EngineNums, NEW mode \in {"open", "vk", "closed"}, Relay!PanelGuard(mode, n)
        PROVE  RulesInv'
    <2>1. /\ Relay!Start("guard", [mode |-> mode, num |-> n], Relay!GuardCalls(n, mode))
          /\ UNCHANGED <<host, default, chain, inForce, stored, early, ranges, asked, blind, faults>>
      BY <1>4 DEF Relay!PanelGuard
    <2>2. /\ Relay!GuardCalls(n, mode) \in Seq(GuardSet(n, host[1]))
          /\ Timely(Relay!GuardCalls(n, mode), inForce, n)
      BY <1>1, GuardListFits
    <2>3. QED
      BY <1>2, <1>3, <2>1, <2>2, StartsFit
  <1>5. ASSUME NEW n \in EngineNums, Relay!DebugGuard(n) PROVE RulesInv'
    <2>1. /\ Relay!Start("guard", [mode |-> "vk", num |-> n], Relay!GuardCalls(n, "vk"))
          /\ UNCHANGED <<host, default, chain, inForce, stored, early, ranges, asked, blind, faults>>
      BY <1>5 DEF Relay!DebugGuard
    <2>2. /\ Relay!GuardCalls(n, "vk") \in Seq(GuardSet(n, host[1]))
          /\ Timely(Relay!GuardCalls(n, "vk"), inForce, n)
      BY <1>1, GuardListFits
    <2>3. QED
      BY <1>2, <1>3, <2>1, <2>2, StartsFit
  <1>6. ASSUME NEW n \in EngineNums, Relay!Heal(n) PROVE RulesInv'
    <2>1. /\ Relay!Start("heal", [mode |-> "heal", num |-> n], Relay!HealCalls(n))
          /\ UNCHANGED <<host, default, chain, inForce, stored, early, ranges, asked, blind, faults>>
      BY <1>6 DEF Relay!Heal
    <2>2. /\ Relay!HealCalls(n) \in Seq(AnySet(n, host[1]))
          /\ Timely(Relay!HealCalls(n), inForce, n)
      BY <1>1, HealStarts DEF Relay!Backend
    <2>3. QED
      BY <1>2, <1>3, <2>1, <2>2, StartsFit
  <1>7. ASSUME NEW a \in Relay!Agents, Relay!ToolFails(a) PROVE RulesInv'
    <2> DEFINE left == Relay!Unread(Head(todo[a])) \o Tail(todo[a])
    <2>1. /\ todo[a] # << >>
          /\ todo' = [todo EXCEPT ![a] = left] /\ intact' = [intact EXCEPT ![a] = FALSE]
          /\ UNCHANGED <<host, default, chain, inForce, stored, early, ranges, job, asked>>
      BY <1>7 DEF Relay!ToolFails
    <2>2. \/ left = Tail(todo[a])
          \/ todo[a][1].does = "judge" /\ left = Relay!Opening(job[a].num)
      BY <2>1, FailLeaves
    <2> HIDE DEF left
    <2>3. QED
      BY <2>1, <2>2, DroppedFits
  <1>8. ASSUME NEW a \in Relay!Agents, Relay!Kill(a) PROVE RulesInv'
    BY <1>8, DroppedFits DEF Relay!Kill
  <1>9. ASSUME NEW a \in Relay!Agents, Relay!Finish(a) PROVE RulesInv'
    <2>1. /\ Relay!Busy(a) /\ todo[a] = << >> /\ job' = [job EXCEPT ![a] = Relay!Idle]
          /\ UNCHANGED <<host, default, chain, inForce, stored, early, ranges, todo, intact>>
      BY <1>9 DEF Relay!Finish
    <2>2. Relay!Idle \in [mode : Modes, num : Nat]
      BY DEF Relay!Idle, Modes
    <2>3. RelayTyped'
      BY <2>1, <2>2 DEF RulesInv, RelayTyped
    <2>4. job'[a] = Relay!Idle /\ \A b \in Relay!Agents : b # a => job'[b] = job[b]
      BY <2>1 DEF RulesInv, RelayTyped
    <2>5. ~Relay!Busy(a)' /\ \A b \in Relay!Agents : Relay!Busy(b)' => Relay!Busy(b) /\ b # a
      BY <2>4 DEF Relay!Busy
    <2>6. CallsFit'
      <3>1. \A b \in Relay!Agents :
              /\ Relay!Busy(b)' => job'[b].num \in EngineNums
              /\ ~Relay!Busy(b)' => todo'[b] = << >>
              /\ Timely(todo'[b], inForce', job'[b].num)
        BY <2>1, <2>4, <2>5, NothingIsTimely DEF RulesInv, CallsFit, Relay!Busy
      <3>2. host'[1] = "ufw" => ~(Relay!Busy("guard")' /\ Relay!Busy("heal")')
        BY <2>1, <2>5 DEF RulesInv, CallsFit, Relay!Agents
      <3>3. todo'["guard"] \in Seq(GuardSet(job'["guard"].num, host'[1]))
        BY <2>1, <2>4, SetsOfCalls DEF RulesInv, CallsFit, Relay!Agents
      <3>4. todo'["heal"] \in Seq(AnySet(job'["heal"].num, host'[1]))
        BY <2>1, <2>4, SetsOfCalls DEF RulesInv, CallsFit, Relay!Agents
      <3>5. QED
        BY <3>1, <3>2, <3>3, <3>4 DEF CallsFit
    <2>7. ServicesKept'
      BY <2>1 DEF RulesInv, ServicesKept
    <2>8. QED
      BY <2>3, <2>6, <2>7 DEF RulesInv
  <1>10. CASE Relay!FetchRanges
    <2>1. /\ ranges' \subseteq Relays
          /\ UNCHANGED <<host, default, chain, inForce, stored, early, todo, job, intact>>
      BY <1>10 DEF Relay!FetchRanges
    <2>2. RelayTyped' /\ CallsFit' /\ ServicesKept'
      BY <2>1 DEF RulesInv, RelayTyped, CallsFit, ServicesKept, Relay!Busy
    <2>3. QED
      BY <2>2 DEF RulesInv
  <1>11. CASE Relay!Reboot
    <2>1. /\ \A a \in Relay!Agents : ~Relay!Busy(a)
          /\ inForce' = stored /\ chain' = Relay!Absent /\ early' = {}
          /\ UNCHANGED <<host, default, stored, ranges, todo, job, intact>>
      BY <1>11 DEF Relay!Reboot
    <2>2. Relay!Absent \in Seq(Words \cup {"absent"})
      BY DEF Relay!Absent
    <2>3. RelayTyped'
      BY <2>1, <2>2 DEF RulesInv, RelayTyped
    <2>4. \A b \in Relay!Agents : ~Relay!Busy(b)' /\ todo'[b] = << >>
      BY <2>1 DEF RulesInv, CallsFit, Relay!Busy
    <2>5. CallsFit'
      BY <2>1, <2>4, NothingIsTimely DEF RulesInv, CallsFit, Relay!Agents
    <2>6. ServicesKept'
      BY <2>1 DEF RulesInv, ServicesKept
    <2>7. QED
      BY <2>3, <2>5, <2>6 DEF RulesInv
  <1>12. QED
    BY <1>4, <1>5, <1>6, <1>7, <1>8, <1>9, <1>10, <1>11, CallKeepsRules DEF Relay!GuardNext

LEMMA RulesBegin ==
  ASSUME Relay!GuardInit
  PROVE  RulesInv
  <1>1. Services \subseteq [num : Nat, proto : {"tcp", "udp"}] /\ IsFiniteSet(Services)
    BY HostConstants, InstanceCounts DEF Relay!GuardConstants
  <1>2. \A r \in ServiceRules : r \in RuleSet /\ r.to = "accept"
    BY <1>1 DEF ServiceRules, RuleSet, Relay!Rule
  <1>3. IsFiniteSet(ServiceRules)
    <2> DEFINE f == [v \in Services |-> Relay!Rule(v.num, v.proto, "any", "accept")]
    <2>1. f \in Surjection(Services, ServiceRules)
      BY Fun_IsSurj DEF ServiceRules
    <2>2. QED
      BY <1>1, <2>1, FS_Surjection
  <1>4. inForce \in Seq(ServiceRules) /\ \A r : In(r, inForce) <=> r \in ServiceRules
    <2> DEFINE m == Cardinality(ServiceRules)
    <2>1. inForce \in Relay!SetToSeqs(ServiceRules)
      BY DEF Relay!GuardInit, Relay!Orders, ServiceRules
    <2>2. inForce \in [1..m -> ServiceRules] /\ \A i, j \in 1..m : i # j => inForce[i] # inForce[j]
      BY <2>1, InstanceCounts DEF Relay!SetToSeqs
    <2>3. m \in Nat
      BY <1>3, FS_CardinalityType
    <2>4. Cardinality(1..m) = m /\ IsFiniteSet(1..m)
      BY <2>3, FS_Interval
    <2>5. inForce \in Injection(1..m, ServiceRules)
      BY <2>2, Fun_IsInj
    <2>6. inForce \in Surjection(1..m, ServiceRules)
      BY <1>3, <2>4, <2>5, FS_Injection
    <2>7. \A r \in ServiceRules : \E i \in 1..m : inForce[i] = r
      BY <2>6 DEF Surjection
    <2> HIDE DEF m
    <2>8. inForce \in Seq(ServiceRules) /\ Len(inForce) = m
      BY <2>2, <2>3
    <2>9. QED
      BY <2>2, <2>7, <2>8 DEF In
  <1>5. inForce \in Seq(RuleSet)
    BY <1>2, <1>4
  <1>6. /\ stored = inForce /\ early = {} /\ ranges = {} /\ chain = Relay!Absent /\ host \in Hosts
        /\ todo = [a \in Relay!Agents |-> << >>] /\ job = [a \in Relay!Agents |-> Relay!Idle]
        /\ intact = [a \in Relay!Agents |-> TRUE]
    BY DEF Relay!GuardInit
  <1>7. RelayTyped
    BY <1>5, <1>6 DEF RelayTyped, Relay!Absent, Relay!Idle, Modes
  <1>8. \A a \in Relay!Agents : ~Relay!Busy(a) /\ todo[a] = << >>
    BY <1>6 DEF Relay!Busy
  <1>9. CallsFit
    BY <1>8, SetsOfCalls, NothingIsTimely DEF CallsFit, Relay!Agents
  <1>10. ServicesKept
    BY <1>2, <1>4, <1>6 DEF ServicesKept
  <1>11. QED
    BY <1>7, <1>9, <1>10 DEF RulesInv

\* The rule that decides is the first one that does.
LEMMA FirstDecides ==
  ASSUME NEW T \in SUBSET Nat, NEW t \in T
  PROVE  LET k == CHOOSE i \in T : \A j \in T : i <= j
         IN  k \in T /\ \A j \in T : k <= j
  BY SetHasLeast

LEMMA ServicesAnswer ==
  ASSUME RulesInv
  PROVE  Relay!OnlyEnginePort
  <1> SUFFICES ASSUME NEW v \in Services, Relay!Apart(v)
               PROVE  Relay!Verdict(v.num, v.proto, "other") = "accept"
    BY DEF Relay!OnlyEnginePort, Relay!Lets
  <1> DEFINE r == Relay!Rule(v.num, v.proto, "any", "accept")
             deciding == {i \in 1..Len(inForce) :
                /\ inForce[i].num = v.num /\ inForce[i].proto = v.proto
                /\ Relay!Decision(inForce[i], "other") # "return"}
             k == CHOOSE i \in deciding : \A j \in deciding : i <= j
  <1>1. r \in ServiceRules /\ r.num = v.num /\ r.proto = v.proto
        /\ \A x : x.num = v.num => Foreign(x)
    BY DEF ServiceRules, Relay!Rule, Relay!Apart, Foreign, Relay!MentionsPort
  <1>2. \A x \in ServiceRules : Relay!Decision(x, "other") = "accept"
    BY DEF ServiceRules, Relay!Decision, Relay!Rule
  <1>3. inForce \in Seq(RuleSet)
    BY DEF RulesInv, RelayTyped
  <1>4. PICK i \in 1..Len(inForce) : inForce[i] = r
    BY <1>1 DEF RulesInv, ServicesKept, In
  <1>5. i \in deciding /\ deciding \in SUBSET Nat
    BY <1>1, <1>2, <1>3, <1>4
  <1>6. k \in deciding
    <2> HIDE DEF deciding
    <2>1. QED
      BY <1>5, FirstDecides
  <1>7. In(inForce[k], inForce) /\ inForce[k].num = v.num
    BY <1>6 DEF In
  <1> HIDE DEF k
  <1>8. Relay!Decision(inForce[k], "other") = "accept"
    BY <1>1, <1>2, <1>7 DEF RulesInv, ServicesKept
  <1> USE DEF k
  <1>9. Relay!Verdict(v.num, v.proto, "other") =
          IF Relay!Backend = "ufw" /\ v.proto = "udp" /\ v.num \in early THEN "accept"
          ELSE IF deciding = {} THEN default
          ELSE Relay!Decision(inForce[k], "other")
    BY DEF Relay!Verdict
  <1> HIDE DEF k, deciding
  <1>10. QED
    BY <1>5, <1>8, <1>9

-----------------------------------------------------------------------------
(* The relay firewall: what narrow means.                                  *)

\* The rules of a number begin with the jump to the chain.
JumpFirst(s, n) ==
    \E i \in 1..Len(s) : s[i] = Relay!Jump(n) /\ \A j \in 1..i - 1 : s[j].num # n

\* This copy of the rules lets nobody but relays reach the engine.
NarrowCopy(s, n) ==
    /\ In(Drop(n), s)
    /\ \A r : In(r, s) /\ r.num = n => ~Bad(r)
    /\ host[1] = "ufw" => \E r \in RangesOf(n) : In(r, s)

Narrow(n) ==
    IF host[1] = "iptables" THEN In("drop", chain) /\ JumpFirst(inForce, n)
    ELSE NarrowCopy(inForce, n) /\ NarrowCopy(stored, n)

LEMMA WordsAreOthers ==
  /\ "other" \notin Words /\ "any" \notin Words /\ "absent" \notin Words
  /\ "other" \notin Relays \cup {"any"} /\ "any" \notin Relays
  BY HostConstants DEF Relay!GuardConstants, Words

LEMMA ChainDrops ==
  ASSUME RulesInv, In("drop", chain)
  PROVE  chain # Relay!Absent /\ Relay!ChainSays("other") = "drop"
  <1> DEFINE hits == {i \in 1..Len(chain) : chain[i] \in {"other", "drop"}}
             k == CHOOSE i \in hits : \A j \in hits : i <= j
  <1>1. chain \in Seq(Words \cup {"absent"})
    BY DEF RulesInv, RelayTyped
  <1>2. PICK i \in 1..Len(chain) : chain[i] = "drop"
    BY DEF In
  <1>3. i \in hits /\ hits \in SUBSET Nat /\ hits \subseteq 1..Len(chain)
    BY <1>1, <1>2
  <1>4. \A j \in hits : chain[j] = "drop"
    <2>1. ASSUME NEW j \in 1..Len(chain), chain[j] \in {"other", "drop"} PROVE chain[j] = "drop"
      <3>1. chain[j] \in Words \cup {"absent"}
        BY <1>1
      <3>2. chain[j] # "other"
        BY <3>1, WordsAreOthers
      <3>3. QED
        BY <2>1, <3>2
    <2>2. QED
      BY <2>1
  <1>5. k \in hits
    <2> HIDE DEF hits
    <2>1. QED
      BY <1>3, FirstDecides
  <1>6. chain # Relay!Absent
    <2>1. ASSUME chain = Relay!Absent PROVE FALSE
      <3>1. chain = <<"absent">>
        BY <2>1 DEF Relay!Absent
      <3>2. Len(chain) = 1 /\ chain[1] = "absent"
        BY <3>1
      <3>3. i = 1
        BY <1>2, <3>2
      <3>4. QED
        BY <1>2, <3>2, <3>3
    <2>2. QED
      BY <2>1
  <1>7. chain[k] = "drop"
    BY <1>4, <1>5
  <1>8. Relay!ChainSays("other") =
          CASE hits = {} -> "return" [] chain[k] = "drop" -> "drop" [] OTHER -> "accept"
    BY DEF Relay!ChainSays
  <1> HIDE DEF hits, k
  <1>9. QED
    BY <1>3, <1>6, <1>7, <1>8

\* A narrowed port answers to nobody but relays.
LEMMA NarrowRefuses ==
  ASSUME RulesInv, NEW n \in EngineNums, Narrow(n), ~(Relay!Backend = "ufw" /\ n \in early)
  PROVE  Relay!Engine(n, "other") = "drop"
  <1> DEFINE deciding == {i \in 1..Len(inForce) :
                /\ inForce[i].num = n /\ inForce[i].proto = "udp"
                /\ Relay!Decision(inForce[i], "other") # "return"}
             k == CHOOSE i \in deciding : \A j \in deciding : i <= j
  <1>1. inForce \in Seq(RuleSet) /\ n \in Nat /\ Len(inForce) \in Nat
    BY HostConstants DEF RulesInv, RelayTyped, Relay!GuardConstants
  <1>2. Relay!Engine(n, "other") =
          IF Relay!Backend = "ufw" /\ n \in early THEN "accept"
          ELSE IF deciding = {} THEN default
          ELSE Relay!Decision(inForce[k], "other")
    BY DEF Relay!Engine, Relay!Verdict
  <1>3. ~(Relay!Backend = "ufw" /\ n \in early)
    OBVIOUS
  <1>4. deciding \in SUBSET Nat
    BY <1>1
  <1>5. ASSUME deciding # {} PROVE k \in deciding /\ \A j \in deciding : k <= j
    <2> HIDE DEF deciding
    <2>1. QED
      BY <1>4, <1>5, FirstDecides
  <1>6. CASE host[1] = "iptables"
    <2>1. PICK i \in 1..Len(inForce) : inForce[i] = Relay!Jump(n) /\ \A j \in 1..i - 1 : inForce[j].num # n
      BY <1>6 DEF Narrow, JumpFirst
    <2>2. Relay!Decision(Relay!Jump(n), "other") = "drop"
      BY <1>6, ChainDrops DEF Narrow, Relay!Decision, Relay!Jump, Relay!Rule
    <2>3. i \in deciding
      BY <2>1, <2>2 DEF Relay!Jump, Relay!Rule
    <2>4. k \in deciding /\ k <= i
      BY <1>5, <2>3
    <2>5. k \in 1..Len(inForce) /\ inForce[k].num = n
      BY <2>4
    <2> HIDE DEF k, deciding
    <2>6. k = i
      BY <1>1, <2>1, <2>4, <2>5
    <2>7. QED
      BY <1>2, <1>3, <2>1, <2>2, <2>3, <2>6
  <1>7. CASE host[1] # "iptables"
    <2>1. NarrowCopy(inForce, n)
      BY <1>7 DEF Narrow
    <2>2. PICK i \in 1..Len(inForce) : inForce[i] = Drop(n)
      BY <2>1 DEF NarrowCopy, In
    <2>3. Relay!Decision(Drop(n), "other") = "drop"
      BY DEF Drop, Relay!Decision, Relay!Rule
    <2>4. i \in deciding
      BY <1>1, <2>2, <2>3, DropFields
    <2>5. k \in deciding
      BY <1>5, <2>4
    <2>6. k \in 1..Len(inForce) /\ inForce[k].num = n /\ Relay!Decision(inForce[k], "other") # "return"
      BY <2>5
    <2> HIDE DEF k, deciding
    <2>7. In(inForce[k], inForce) /\ inForce[k] \in RuleSet
      BY <1>1, <2>6 DEF In
    <2>8. inForce[k].to \in {"accept", "drop"} /\ ~Bad(inForce[k]) /\ inForce[k].from # "other"
      BY <1>7, <2>1, <2>6, <2>7, WordsAreOthers DEF NarrowCopy, RulesInv, ServicesKept, RuleSet
    <2>9. Relay!Decision(inForce[k], "other") = "drop"
      BY <2>6, <2>8 DEF Relay!Decision, Bad
    <2>10. QED
      BY <1>2, <1>3, <2>4, <2>9
  <1>8. QED
    BY <1>6, <1>7

\* guard_status sees that a port is narrowed, or a line that lets anybody in by
\* another port, and the repair leaves it alone.
LEMMA NarrowIsLeft ==
  ASSUME RulesInv, NEW n \in EngineNums, Narrow(n)
  PROVE  Relay!Judged(n) = << >>
  <1>1. inForce \in Seq(RuleSet) /\ n \in Nat /\ DOMAIN inForce = 1..Len(inForce)
    BY HostConstants DEF RulesInv, RelayTyped, Relay!GuardConstants
  <1>2. CASE host[1] = "iptables"
    <2>1. chain # Relay!Absent
      BY <1>2, ChainDrops DEF Narrow
    <2>2. QED
      BY <1>2, <2>1 DEF Relay!Judged, Relay!Status, Relay!Backend
  <1>3. CASE host[1] = "firewalld"
    <2>1. PICK i \in 1..Len(inForce) : inForce[i] = Drop(n)
      BY <1>3 DEF Narrow, NarrowCopy, In
    <2>2. i \in Relay!Of(n) /\ inForce[i].to = "drop"
      BY <1>1, <2>1, DropFields DEF Relay!Of
    <2>3. QED
      BY <1>3, <2>2 DEF Relay!Judged, Relay!Status, Relay!Backend
  <1>4. CASE host[1] = "ufw"
    <2>1. PICK r \in RangesOf(n) : In(r, inForce)
      BY <1>4 DEF Narrow, NarrowCopy
    <2>2. PICK j \in 1..Len(inForce) : inForce[j] = r
      BY <2>1 DEF In
    <2>3. j \in Relay!Lines(n) /\ inForce[j].from # "any"
      BY <1>1, <2>1, <2>2 DEF Relay!Lines, Relay!MentionsPort, RangesOf
    <2>4. Relay!Status(n) \in {"open", "vk"}
      BY <1>4, <2>3 DEF Relay!Status, Relay!Backend
    <2>5. QED
      BY <1>4, <2>4 DEF Relay!Judged, Relay!Backend
  <1>5. QED
    BY <1>2, <1>3, <1>4, HostIs DEF RulesInv, RelayTyped

\* A call for one number leaves the others narrow, where they do not share a chain.
LEMMA OtherStaysNarrow ==
  ASSUME RulesInv, NEW a \in Relay!Agents, Relay!Step(a), host[1] # "iptables",
         NEW n \in EngineNums, n # job[a].num, Narrow(n)
  PROVE  Narrow(n)'
  <1>1. /\ \A y : y.num = n => (In(y, inForce') <=> In(y, inForce))
        /\ \A y : y.num = n => (In(y, stored') <=> In(y, stored))
    <2>1. \A y : y.num = n => ~Relay!MentionsPort(y, job[a].num)
      BY HostConstants DEF Relay!GuardConstants, Relay!MentionsPort
    <2>2. /\ \A y : ~Relay!MentionsPort(y, job[a].num) => (In(y, inForce') <=> In(y, inForce))
          /\ \A y : ~Relay!MentionsPort(y, job[a].num) => (In(y, stored') <=> In(y, stored))
      BY CallEdits
    <2>3. QED
      BY <2>1, <2>2
  <1>2. Drop(n).num = n /\ \A r \in RangesOf(n) : r.num = n
    BY HostConstants, DropFields DEF Relay!GuardConstants, RangesOf
  <1>3. host' = host
    BY DEF Relay!Step
  <1>4. NarrowCopy(inForce, n) /\ NarrowCopy(stored, n)
    BY DEF Narrow
  <1>5. NarrowCopy(inForce, n)'
    BY <1>1, <1>2, <1>3, <1>4 DEF NarrowCopy
  <1>6. NarrowCopy(stored, n)'
    BY <1>1, <1>2, <1>3, <1>4 DEF NarrowCopy
  <1>7. QED
    BY <1>3, <1>5, <1>6 DEF Narrow

\* A look of the repair leaves a narrowed port narrow.
LEMMA LookStaysNarrow ==
  ASSUME RulesInv, NEW a \in Relay!Agents, Relay!Step(a), todo[a][1].does \in {"nft", "judge"},
         NEW n \in EngineNums, Narrow(n)
  PROVE  Narrow(n)'
  <1> DEFINE c == todo[a][1]
             m == job[a].num
  <1>1. todo[a] # << >> /\ Head(todo[a]) = c /\ Relay!Does(c) /\ host' = host
    BY DEF Relay!Step, RulesInv, RelayTyped
  <1>2. m \in Nat /\ c \in AnySet(m, host[1]) /\ inForce \in Seq(RuleSet) /\ c.boot \in BOOLEAN
    BY <1>1, Caller DEF RulesInv, RelayTyped
  <1>3. c.arg = m /\ c.boot = FALSE /\ c.does \in {"nft", "judge"}
    BY <1>2 DEF AnySet, GuardCall, LookCall, IptablesCall, UfwCall, FirewalldCall
  <1>4. chain' = chain
    BY <1>1 DEF Relay!Does
  <1>5. host[1] # "iptables" => inForce' = inForce /\ stored' = stored
    <2>1. host[1] # "iptables" => Relay!Edited(c, inForce) = inForce /\ Relay!Edited(c, stored) = stored
      BY <1>3 DEF Relay!Edited, Relay!Backend
    <2>2. /\ host[1] = "ufw" => stored' = inForce' /\ inForce' = Relay!Edited(c, inForce) /\ stored = inForce
          /\ host[1] # "ufw" => inForce' = Relay!Edited(c, inForce) /\ stored' = stored
      BY <1>3, CallEdits DEF RulesInv, ServicesKept
    <2>3. QED
      BY <2>1, <2>2
  <1>6. CASE host[1] # "iptables"
    BY <1>1, <1>5, <1>6 DEF Narrow, NarrowCopy
  <1>7. CASE host[1] = "iptables"
    <2> DEFINE r == Relay!Rule(m, "udp", "any", "nft")
    <2>1. r \in RuleSet /\ r.num = m
      BY <1>2 DEF Relay!Rule, RuleSet
    <2>2. inForce' = Relay!Edited(c, inForce)
      BY <1>3, <1>7, CallEdits
    <2>3. Relay!Edited(c, inForce) = inForce
          \/ (Relay!Of(m) = {} /\ Relay!Edited(c, inForce) = <<r>> \o inForce)
      <3>1. CASE c.does = "judge"
        BY <1>2, <3>1, Fronted
      <3>2. CASE c.does = "nft"
        <4>1. \/ Relay!Edited(c, inForce) = inForce
              \/ /\ Relay!Of(c.arg) = {}
                 /\ Relay!Edited(c, inForce) = <<Relay!Rule(c.arg, "udp", "any", "nft")>> \o inForce
          BY <1>2, <3>2, Fronted
        <4>2. QED
          BY <1>3, <4>1
      <3>3. QED
        BY <1>3, <3>1, <3>2
    <2>4. PICK i \in 1..Len(inForce) : inForce[i] = Relay!Jump(n) /\ \A j \in 1..i - 1 : inForce[j].num # n
      BY <1>7 DEF Narrow, JumpFirst
    <2> HIDE DEF r, c, m
    <2>5. CASE inForce' = inForce
      BY <1>1, <1>4, <1>7, <2>5 DEF Narrow, JumpFirst
    <2>6. CASE Relay!Of(m) = {} /\ inForce' = <<r>> \o inForce
      <3>1. n # m
        <4>1. n = m => i \in Relay!Of(m)
          <5>1. DOMAIN inForce = 1..Len(inForce)
            BY <1>2
          <5>2. QED
            BY <2>4, <5>1 DEF Relay!Of, Relay!Jump, Relay!Rule
        <4>2. QED
          BY <2>6, <4>1
      <3> DEFINE t == <<r>> \o inForce
      <3>2. /\ Len(t) = Len(inForce) + 1 /\ t[1] = r
            /\ \A j \in 1..Len(inForce) : t[j + 1] = inForce[j]
        BY <1>2, <2>1, InFront
      <3>3. inForce' = t /\ Len(inForce) \in Nat
        BY <1>2, <2>6
      <3> HIDE DEF t
      <3>4. i + 1 \in 1..Len(t) /\ t[i + 1] = Relay!Jump(n)
        BY <2>4, <3>2, <3>3
      <3>5. ASSUME NEW j \in 1..(i + 1) - 1 PROVE t[j].num # n
        <4>1. CASE j = 1
          BY <2>1, <3>1, <3>2, <4>1
        <4>2. CASE j # 1
          <5>1. j - 1 \in 1..Len(inForce) /\ j - 1 \in 1..i - 1 /\ (j - 1) + 1 = j
            BY <2>4, <3>3, <4>2
          <5>2. t[j] = inForce[j - 1]
            BY <3>2, <5>1
          <5>3. QED
            BY <2>4, <5>1, <5>2
        <4>3. QED
          BY <4>1, <4>2
      <3>6. JumpFirst(t, n)
        BY <3>4, <3>5 DEF JumpFirst
      <3>7. QED
        BY <1>1, <1>4, <1>7, <3>3, <3>6 DEF Narrow
    <2>7. QED
      BY <2>2, <2>3, <2>5, <2>6
  <1>8. QED
    BY <1>6, <1>7

-----------------------------------------------------------------------------
(* The relay firewall: a guard on its way to a narrow port.                *)

\* A rule of S is in this copy for good, or a call still to be made adds it.
Coming(s, list, b, S) ==
    \/ Brings(s, b, S)
    \/ /\ \E r \in S : In(r, list)
       /\ \A c : In(c, s) /\ c.boot = b => c.does \in Adder

\* How far a guard that narrows the port n has come, by firewall.
VkIptables(s, n) ==
    /\ In(Relay!Call("newChain", 0), s) \/ (chain # Relay!Absent /\ From(s, 1))
    /\ In(Relay!Call("hook", n), s) \/ (JumpFirst(inForce, n) /\ From(s, 2))
    /\ In(Relay!Call("append", "drop"), s) \/ (In("drop", chain) /\ From(s, 3))

VkUfw(s, n) ==
    /\ Harmless(s)
    /\ Coming(s, inForce, FALSE, {Drop(n)})
    /\ Coming(s, inForce, FALSE, RangesOf(n))
    /\ \A p \in 1..Len(inForce) :
          inForce[p].num = n /\ Bad(inForce[p]) =>
             \/ \E c : In(c, s) /\ c.does = "list"
             \/ In(Relay!Call("delete", p), s)

Clearing(s, list, b, n) ==
    \A r : In(r, list) /\ r.num = n /\ Bad(r) =>
        \E c : In(c, s) /\ c.does = "unport" /\ c.arg = n /\ c.boot = b
VkFirewalld(s, n) ==
    /\ Harmless(s)
    /\ Coming(s, inForce, FALSE, {Drop(n)}) /\ Coming(s, stored, TRUE, {Drop(n)})
    /\ Clearing(s, inForce, FALSE, n) /\ Clearing(s, stored, TRUE, n)

Progress(s, n) ==
    /\ Ordered(s)
    /\ host[1] = "iptables" => VkIptables(s, n)
    /\ host[1] = "ufw" => VkUfw(s, n)
    /\ host[1] = "firewalld" => VkFirewalld(s, n)

\* A guard that saw every call work has worked alone.
VkInv ==
    Relay!Busy("guard") /\ intact["guard"] =>
        /\ ~Relay!Busy("heal")
        /\ job["guard"].mode = "vk" => Progress(todo["guard"], job["guard"].num)

\* A guard is at work that may change what is narrowed at n.
Touched(n) == Relay!Busy("guard") /\ (host[1] = "iptables" \/ job["guard"].num = n)

\* A port stays narrow from the guard that worked to the next guard of it.
Held(n) == asked[n] = "vk" /\ n \notin blind /\ ~Touched(n)
NarrowHeld == \A n \in EngineNums : Held(n) => Narrow(n)

\* A repair that is about to let everybody in repairs no narrowed port.
Opens(c) == c.does \notin {"nft", "judge"}
HealCalm ==
    \A c : In(c, todo["heal"]) /\ Opens(c) =>
        /\ host[1] = "iptables" => c.does = "accept"
        /\ \A n \in EngineNums : Held(n) => n # job["heal"].num

RelayInv == RulesInv /\ VkInv /\ NarrowHeld /\ HealCalm

LEMMA VkStarts ==
  ASSUME RulesInv, NEW n \in EngineNums, ranges # {}
  PROVE  Progress(Relay!GuardCalls(n, "vk"), n)
  <1> DEFINE s == Relay!GuardCalls(n, "vk")
  <1>1. n \in Nat /\ ranges \subseteq Relays /\ host[1] \in {"iptables", "ufw", "firewalld"}
    BY HostIs, HostConstants DEF Relay!GuardConstants, RulesInv, RelayTyped
  <1>2. CASE host[1] = "iptables"
    <2>1. s = Relay!ApplyIptables(n, "vk")
      BY <1>2 DEF Relay!GuardCalls, Relay!Backend
    <2> HIDE DEF s
    <2>2. /\ Ordered(s) /\ In(Relay!Call("newChain", 0), s) /\ In(Relay!Call("hook", n), s)
          /\ In(Relay!Call("append", "drop"), s)
      BY <1>1, <2>1, IptablesStarts
    <2>3. QED
      BY <1>2, <2>2 DEF Progress, VkIptables, s
  <1>3. CASE host[1] = "ufw"
    <2>1. s = Relay!ApplyUfw(n, "vk")
      BY <1>3 DEF Relay!GuardCalls, Relay!Backend
    <2> HIDE DEF s
    <2>2. /\ Ordered(s) /\ Harmless(s) /\ In(Relay!Call("list", n), s)
          /\ Brings(s, FALSE, {Drop(n)}) /\ Brings(s, FALSE, RangesOf(n))
      BY <1>1, <2>1, UfwStarts
    <2>3. Relay!Call("list", n).does = "list"
      BY DEF Relay!Call
    <2>4. VkUfw(s, n)
      BY <2>2, <2>3 DEF VkUfw, Coming
    <2>5. QED
      BY <1>3, <2>2, <2>4 DEF Progress, s
  <1>4. CASE host[1] = "firewalld"
    <2>1. s = Relay!ApplyFirewalld(n, "vk")
      BY <1>4 DEF Relay!GuardCalls, Relay!Backend
    <2> HIDE DEF s
    <2>2. /\ Ordered(s) /\ Harmless(s)
          /\ \A b \in BOOLEAN :
               /\ Brings(s, b, {Drop(n)})
               /\ \E c : In(c, s) /\ c.does = "unport" /\ c.arg = n /\ c.boot = b
      BY <1>1, <2>1, FirewalldStarts
    <2>3. VkFirewalld(s, n)
      BY <2>2 DEF VkFirewalld, Coming, Clearing
    <2>4. QED
      BY <1>4, <2>2, <2>3 DEF Progress, s
  <1>5. QED
    BY <1>1, <1>2, <1>3, <1>4

LEMMA VkEnds ==
  ASSUME RulesInv, NEW n \in EngineNums, Progress(<< >>, n)
  PROVE  Narrow(n)
  <1>1. host[1] \in {"iptables", "ufw", "firewalld"} /\ inForce \in Seq(RuleSet)
    BY HostIs DEF RulesInv, RelayTyped
  <1>2. \A c : ~In(c, << >>)
    BY DEF In
  <1>4. CASE host[1] = "iptables"
    BY <1>2, <1>4 DEF Progress, VkIptables, Narrow
  <1>5. CASE host[1] = "ufw"
    <2>1. VkUfw(<< >>, n)
      BY <1>5 DEF Progress
    <2>2. In(Drop(n), inForce) /\ \E r \in RangesOf(n) : In(r, inForce)
      <3>1. Coming(<< >>, inForce, FALSE, {Drop(n)}) /\ Coming(<< >>, inForce, FALSE, RangesOf(n))
        BY <2>1 DEF VkUfw
      <3>2. QED
        BY <1>2, <3>1 DEF Coming, Brings
    <2>3. \A r : In(r, inForce) /\ r.num = n => ~Bad(r)
      BY <1>2, <2>1 DEF VkUfw, In
    <2>4. stored = inForce
      BY <1>5 DEF RulesInv, ServicesKept
    <2>5. QED
      BY <1>5, <2>2, <2>3, <2>4 DEF Narrow, NarrowCopy
  <1>6. CASE host[1] = "firewalld"
    <2>1. VkFirewalld(<< >>, n)
      BY <1>6 DEF Progress
    <2>2. In(Drop(n), inForce) /\ In(Drop(n), stored)
      <3>1. Coming(<< >>, inForce, FALSE, {Drop(n)}) /\ Coming(<< >>, stored, TRUE, {Drop(n)})
        BY <2>1 DEF VkFirewalld
      <3>2. QED
        BY <1>2, <3>1 DEF Coming, Brings
    <2>3. \A r : (In(r, inForce) \/ In(r, stored)) /\ r.num = n => ~Bad(r)
      BY <1>2, <2>1 DEF VkFirewalld, Clearing
    <2>4. QED
      BY <1>6, <2>2, <2>3 DEF Narrow, NarrowCopy
  <1>7. QED
    BY <1>1, <1>4, <1>5, <1>6

\* What one call does to a rule that is to come.
LEMMA ComingStep ==
  ASSUME NEW s, NEW t, NEW list, NEW list2, NEW b, NEW S,
         \A c : In(c, s) => c = s[1] \/ In(c, t), In(s[1], s), Coming(s, list, b, S),
         \A c : In(c, t) => In(c, s) \/ (s[1].boot = b /\ s[1].does \notin Adder),
         s[1].boot # b => list2 = list,
         s[1].boot = b /\ s[1].does \in Adder =>
            /\ \A y : In(y, list2) <=> In(y, list) \/ y = s[1].arg
            /\ \A c : In(c, t) => c.does \in Adder
  PROVE  Coming(t, list2, b, S)
  <1>1. CASE Brings(s, b, S)
    <2>1. PICK c : In(c, s) /\ c.does \in Adder /\ c.boot = b /\ c.arg \in S
      BY <1>1 DEF Brings
    <2>2. CASE In(c, t)
      BY <2>1, <2>2 DEF Coming, Brings
    <2>3. CASE c = s[1]
      <3>1. In(c.arg, list2) /\ \A x : In(x, t) => x.does \in Adder
        BY <2>1, <2>3
      <3>2. QED
        BY <2>1, <3>1 DEF Coming
    <2>4. QED
      BY <2>1, <2>2, <2>3
  <1>2. CASE /\ \E r \in S : In(r, list)
             /\ \A c : In(c, s) /\ c.boot = b => c.does \in Adder
    <2>1. PICK r \in S : In(r, list)
      BY <1>2
    <2>2. s[1].boot # b \/ s[1].does \in Adder
      BY <1>2
    <2>3. In(r, list2)
      BY <2>1, <2>2
    <2>4. ASSUME NEW c, In(c, t), c.boot = b PROVE c.does \in Adder
      <3>1. CASE s[1].boot = b
        BY <2>2, <2>4, <3>1
      <3>2. CASE s[1].boot # b
        BY <1>2, <2>4, <3>2
      <3>3. QED
        BY <3>1, <3>2
    <2>5. QED
      BY <2>1, <2>3, <2>4 DEF Coming
  <1>3. QED
    BY <1>1, <1>2 DEF Coming

\* The calls left to a guard, in order.
LEMMA GuardLeft ==
  ASSUME RulesInv, Relay!Step("guard"), Ordered(todo["guard"])
  PROVE  LET s == todo["guard"] t == todo'["guard"] n == job["guard"].num
         IN  /\ s # << >> /\ s[1] \in GuardSet(n, host[1]) /\ In(s[1], s)
             /\ s \in Seq(GuardSet(n, host[1])) /\ t \in Seq(GuardSet(n, host[1]))
             /\ Ordered(t)
             /\ \A c : In(c, s) => c = s[1] \/ In(c, t)
             /\ \A c : In(c, t) => In(c, s) \/ s[1].does = "list"
             /\ \A c : In(c, t) => Rank(s[1]) <= Rank(c)
             /\ s[1].does = "list" => \A c : In(c, Relay!Deletions(n)) => In(c, t)
             /\ \A c : In(c, t) => In(c, s) \/ In(c, Relay!Deletions(n))
             /\ s[1].does = "list" => inForce' = inForce /\ host[1] = "ufw"
  <1> DEFINE s == todo["guard"]
             t == todo'["guard"]
             n == job["guard"].num
             G == GuardSet(n, host[1])
             d == Relay!Deletions(n)
             rest == Tail(s)
  <1>1. s # << >> /\ "guard" \in Relay!Agents
    BY DEF Relay!Step, Relay!Agents
  <1>2. n \in Nat /\ s \in Seq(G) /\ s[1] \in G
    BY <1>1, Caller
  <1>3. /\ t \in Seq(G)
        /\ s[1].does \notin {"list", "judge"} => t = rest
        /\ s[1].does = "list" => t = d \o rest /\ host[1] = "ufw" /\ inForce' = inForce
    <2> DEFINE more == Relay!Adds(s[1])
    <2>1. /\ t \in Seq(G) /\ t = more \o rest
          /\ s[1].does \notin {"list", "judge"} => t = rest
          /\ s[1].does = "list" => more = d /\ host[1] = "ufw" /\ inForce' = inForce
      BY <1>1, CallsLeft
    <2>2. QED
      BY <2>1
  <1>4. s[1].does # "judge"
    BY <1>2 DEF GuardSet, GuardCall, IptablesCall, UfwCall, FirewalldCall
  <1>5. /\ In(s[1], s) /\ rest \in Seq(G)
        /\ \A y : In(y, rest) => In(y, s)
        /\ \A y : In(y, s) => y = s[1] \/ In(y, rest)
    BY <1>1, <1>2, InTail
  <1>6. Ordered(rest) /\ \A y : In(y, rest) => Rank(s[1]) <= Rank(y)
    BY <1>1, <1>2, OrderedTail
  <1>7. CASE s[1].does = "list"
    <2>1. host[1] = "ufw" /\ inForce \in Seq(RuleSet)
      BY <1>3, <1>7 DEF RulesInv, RelayTyped
    <2>2. d \in Seq(GuardSet(n, "ufw")) /\ Descends(d, inForce, n)
      BY <1>2, <2>1, DeletesOfNumber DEF Relay!Backend
    <2>3. d \in Seq(G)
      BY <2>1, <2>2
    <2>4. Rank(s[1]) = 0 /\ \A c : Rank(c) \in 0..3
      BY <1>7 DEF Rank
    <2>5. Flat(d, 0)
      BY <2>2 DEF Flat, Descends, Rank
    <2>6. Ordered(d) /\ \A c : In(c, d) => Rank(c) = 0
      BY <2>5, FlatIsOrdered
    <2>7. t = d \o rest
      BY <1>3, <1>7
    <2> HIDE DEF s, t, d, G, rest, n
    <2>8. Ordered(d \o rest)
      BY <1>5, <1>6, <2>3, <2>4, <2>6, OrderedJoin
    <2>9. \A y : In(y, d \o rest) <=> In(y, d) \/ In(y, rest)
      BY <1>5, <2>3, InConcat
    <2>10. QED
      BY <1>1, <1>2, <1>3, <1>5, <1>6, <1>7, <2>1, <2>4, <2>6, <2>7, <2>8, <2>9 DEF s, t, d, G, n
  <1>8. CASE s[1].does # "list"
    <2>1. t = rest
      BY <1>3, <1>4, <1>8
    <2> HIDE DEF s, t, d, G, rest, n
    <2>2. QED
      BY <1>1, <1>2, <1>3, <1>5, <1>6, <1>8, <2>1 DEF s, t, d, G, n
  <1>9. QED
    BY <1>7, <1>8

-----------------------------------------------------------------------------
\* A guard on iptables goes on.
LEMMA IptablesGoesOn ==
  ASSUME RulesInv, Relay!Step("guard"), host[1] = "iptables",
         Ordered(todo["guard"]), VkIptables(todo["guard"], job["guard"].num)
  PROVE  VkIptables(todo["guard"], job["guard"].num)'
  <1> DEFINE s == todo["guard"]
             t == todo'["guard"]
             n == job["guard"].num
             c == s[1]
  <1>1. /\ s # << >> /\ c \in GuardSet(n, host[1]) /\ In(c, s)
        /\ \A y : In(y, s) => y = c \/ In(y, t)
        /\ \A y : In(y, t) => Rank(c) <= Rank(y)
    BY GuardLeft
  <1>2. n \in Nat /\ inForce \in Seq(RuleSet) /\ c.boot = FALSE
    BY <1>1, Caller DEF RulesInv, RelayTyped, Relay!Agents
  <1>3. Relay!Does(c) /\ job' = job
    BY <1>1 DEF Relay!Step, RulesInv, RelayTyped
  <1>4. IptablesCall(c, n)
    BY <1>1 DEF GuardSet, GuardCall
  <1>5. \A y : In(y, s) => Rank(c) <= Rank(y)
    <2>1. Rank(c) \in 0..3
      BY DEF Rank
    <2>2. QED
      BY <1>1, <2>1
  <1>6. inForce' = Relay!Edited(c, inForce)
    <2>1. host[1] # "ufw" /\ ~c.boot => inForce' = Relay!Edited(c, inForce)
      BY CallEdits, <1>1 DEF Relay!Agents
    <2>2. QED
      BY <1>2, <2>1
  <1>7. VkIptables(s, n)
    OBVIOUS
  <1> HIDE DEF s, t, n, c
  <1>8. /\ Rank(Relay!Call("newChain", 0)) = 1 /\ Rank(Relay!Call("hook", n)) = 2
        /\ Rank(Relay!Call("append", "drop")) = 3
        /\ Relay!Call("newChain", 0).does = "newChain"
        /\ Relay!Call("hook", n).does = "hook" /\ Relay!Call("hook", n).arg = n
        /\ Relay!Call("append", "drop").does = "append" /\ Relay!Call("append", "drop").arg = "drop"
    BY DEF Rank, Relay!Call
  <1>9. /\ Rank(c) \in 0..3
        /\ Rank(c) >= 1 => c.does \in {"newChain", "hook", "append"}
        /\ Rank(c) >= 2 => c.does \in {"hook", "append"}
        /\ Rank(c) >= 3 => c.does = "append"
    BY <1>4 DEF Rank, IptablesCall
  <1>10. c.does = "append" => c.arg \in Words
    BY <1>4 DEF IptablesCall
  <1>11. chain' = CASE c.does = "flush" /\ chain # Relay!Absent -> << >>
                    [] c.does = "newChain" /\ chain = Relay!Absent -> << >>
                    [] c.does = "deleteChain" /\ chain = << >>
                       /\ \A m \in EngineNums : Relay!Jump(m) \notin Relay!Range(inForce) -> Relay!Absent
                    [] c.does = "append" /\ chain # Relay!Absent -> Append(chain, c.arg)
                    [] OTHER -> chain
    BY <1>3 DEF Relay!Does
  <1>12. chain \in Seq(Words \cup {"absent"})
    BY DEF RulesInv, RelayTyped
  <1>13. c.does = "append" =>
           /\ Append(chain, c.arg) # Relay!Absent
           /\ \A y : In(y, Append(chain, c.arg)) <=> In(y, chain) \/ y = c.arg
    <2>1. SUFFICES ASSUME c.does = "append"
                   PROVE  /\ Append(chain, c.arg) # Relay!Absent
                          /\ \A y : In(y, Append(chain, c.arg)) <=> In(y, chain) \/ y = c.arg
      OBVIOUS
    <2> DEFINE w == c.arg
               W == Words \cup {"absent"}
    <2>2. w \in W /\ w # "absent" /\ chain \in Seq(W)
      BY <1>10, <1>12, <2>1, WordsAreOthers
    <2> HIDE DEF w, W
    <2>3. \A y : In(y, Append(chain, w)) <=> In(y, chain) \/ y = w
      BY <2>2, InAppend
    <2>4. ASSUME Append(chain, w) = <<"absent">> PROVE FALSE
      <3>1. In(w, Append(chain, w))
        BY <2>3
      <3>2. \A y : In(y, <<"absent">>) => y = "absent"
        BY DEF In
      <3>3. QED
        BY <2>2, <2>4, <3>1, <3>2
    <2>5. QED
      BY <2>3, <2>4 DEF w, Relay!Absent
  <1>14. << >> # Relay!Absent
    BY DEF Relay!Absent
  \* The chain is there once it was made.
  <1>15. In(Relay!Call("newChain", 0), t) \/ (chain' # Relay!Absent /\ From(t, 1))
    <2>1. CASE c = Relay!Call("newChain", 0)
      BY <1>1, <1>8, <1>11, <1>14, <2>1 DEF From
    <2>2. CASE In(Relay!Call("newChain", 0), s) /\ c # Relay!Call("newChain", 0)
      BY <1>1, <2>2
    <2>3. CASE chain # Relay!Absent /\ From(s, 1)
      <3>1. 1 <= Rank(c)
        BY <1>1, <2>3 DEF From
      <3>2. c.does \in {"newChain", "hook", "append"}
        BY <1>9, <3>1
      <3>3. chain' # Relay!Absent
        BY <1>11, <1>13, <2>3, <3>2
      <3>4. From(t, 1)
        <4>1. ASSUME NEW y, In(y, t) PROVE 1 <= Rank(y)
          <5>1. Rank(y) \in 0..3 /\ Rank(c) <= Rank(y)
            BY <1>1, <4>1 DEF Rank
          <5>2. QED
            BY <1>9, <3>1, <5>1
        <4>2. QED
          BY <4>1 DEF From
      <3>5. QED
        BY <3>3, <3>4
    <2>4. QED
      BY <1>7, <2>1, <2>2, <2>3 DEF VkIptables
  \* A later call finds the chain.
  <1>16. Rank(c) >= 2 => chain # Relay!Absent
    <2>1. In(Relay!Call("newChain", 0), s) => Rank(c) <= 1
      BY <1>5, <1>8
    <2>2. QED
      BY <1>7, <1>9, <2>1 DEF VkIptables
  <1>17. In(Relay!Call("hook", n), t) \/ (JumpFirst(inForce', n) /\ From(t, 2))
    <2>1. CASE c = Relay!Call("hook", n)
      <3> DEFINE r == Relay!Jump(n)
                 u == <<r>> \o inForce
      <3>0. c.does = "hook" /\ c.arg = n /\ Rank(c) >= 2
        BY <1>8, <2>1
      <3>1. inForce' = u
        BY <1>2, <1>6, <1>16, <3>0, Fronted
      <3>2. r \in RuleSet
        BY <1>2, JumpIsRule
      <3> HIDE DEF r
      <3>3. u[1] = r /\ Len(u) = Len(inForce) + 1
        BY <1>2, <3>2, InFront
      <3> HIDE DEF u
      <3>4. 1 \in 1..Len(u) /\ \A j \in 1..1 - 1 : u[j].num # n
        BY <1>2, <3>3
      <3>5. JumpFirst(u, n)
        BY <3>3, <3>4 DEF JumpFirst, r
      <3>6. From(t, 2)
        BY <1>1, <1>8, <2>1 DEF From
      <3>7. QED
        BY <3>1, <3>5, <3>6
    <2>2. CASE In(Relay!Call("hook", n), s) /\ c # Relay!Call("hook", n)
      BY <1>1, <2>2
    <2>3. CASE JumpFirst(inForce, n) /\ From(s, 2)
      <3>1. 2 <= Rank(c)
        BY <1>1, <2>3 DEF From
      <3>2. c.does \in {"hook", "append"}
        BY <1>9, <3>1
      <3>3. From(t, 2)
        <4>1. ASSUME NEW y, In(y, t) PROVE 2 <= Rank(y)
          <5>1. Rank(y) \in 0..3 /\ Rank(c) <= Rank(y)
            BY <1>1, <4>1 DEF Rank
          <5>2. QED
            BY <1>9, <3>1, <5>1
        <4>2. QED
          BY <4>1 DEF From
      <3>4. CASE c.does = "append"
        <4>1. inForce' = inForce
          BY <1>2, <1>6, <3>4, Fronted
        <4>2. QED
          BY <2>3, <3>3, <4>1
      <3>5. CASE c.does = "hook"
        <4> DEFINE r == Relay!Jump(n)
                   u == <<r>> \o inForce
        <4>1. c.arg = n
          BY <1>4, <3>5 DEF IptablesCall
        <4>2. inForce' = u
          BY <1>2, <1>6, <1>16, <3>1, <3>5, <4>1, Fronted
        <4>3. r \in RuleSet
          BY <1>2, JumpIsRule
        <4> HIDE DEF r
        <4>4. u[1] = r /\ Len(u) = Len(inForce) + 1
          BY <1>2, <4>3, InFront
        <4> HIDE DEF u
        <4>5. 1 \in 1..Len(u) /\ \A j \in 1..1 - 1 : u[j].num # n
          BY <1>2, <4>4
        <4>6. JumpFirst(u, n)
          BY <4>4, <4>5 DEF JumpFirst, r
        <4>7. QED
          BY <3>3, <4>2, <4>6
      <3>6. QED
        BY <3>2, <3>4, <3>5
    <2>4. QED
      BY <1>7, <2>1, <2>2, <2>3 DEF VkIptables
  <1>18. In(Relay!Call("append", "drop"), t) \/ (In("drop", chain') /\ From(t, 3))
    <2>1. CASE c = Relay!Call("append", "drop")
      <3>1. chain' = Append(chain, c.arg) /\ c.arg = "drop"
        BY <1>8, <1>11, <1>16, <2>1
      <3>2. From(t, 3)
        BY <1>1, <1>8, <2>1 DEF From
      <3>3. QED
        BY <1>8, <1>13, <2>1, <3>1, <3>2
    <2>2. CASE In(Relay!Call("append", "drop"), s) /\ c # Relay!Call("append", "drop")
      BY <1>1, <2>2
    <2>3. CASE In("drop", chain) /\ From(s, 3)
      <3>1. 3 <= Rank(c)
        BY <1>1, <2>3 DEF From
      <3>2. c.does = "append"
        BY <1>9, <3>1
      <3>3. chain' = Append(chain, c.arg)
        BY <1>9, <1>11, <1>16, <3>1, <3>2
      <3>4. From(t, 3)
        <4>1. ASSUME NEW y, In(y, t) PROVE 3 <= Rank(y)
          <5>1. Rank(y) \in 0..3 /\ Rank(c) <= Rank(y)
            BY <1>1, <4>1 DEF Rank
          <5>2. QED
            BY <1>9, <3>1, <5>1
        <4>2. QED
          BY <4>1 DEF From
      <3>5. QED
        BY <1>13, <2>3, <3>2, <3>3, <3>4
    <2>4. QED
      BY <1>7, <2>1, <2>2, <2>3 DEF VkIptables
  <1>19. QED
    BY <1>3, <1>15, <1>17, <1>18 DEF VkIptables, t, n

\* A guard on ufw goes on.
LEMMA UfwGoesOn ==
  ASSUME RulesInv, Relay!Step("guard"), host[1] = "ufw",
         Ordered(todo["guard"]), VkUfw(todo["guard"], job["guard"].num)
  PROVE  VkUfw(todo["guard"], job["guard"].num)'
  <1> DEFINE s == todo["guard"]
             t == todo'["guard"]
             n == job["guard"].num
             c == s[1]
  <1>1. /\ s # << >> /\ c \in GuardSet(n, host[1]) /\ In(c, s)
        /\ s \in Seq(GuardSet(n, host[1])) /\ t \in Seq(GuardSet(n, host[1]))
        /\ \A y : In(y, s) => y = c \/ In(y, t)
        /\ \A y : In(y, t) => In(y, s) \/ c.does = "list"
        /\ \A y : In(y, t) => Rank(c) <= Rank(y)
        /\ c.does = "list" => \A y : In(y, Relay!Deletions(n)) => In(y, t)
        /\ \A y : In(y, t) => In(y, s) \/ In(y, Relay!Deletions(n))
        /\ c.does = "list" => inForce' = inForce
    BY GuardLeft
  <1>2. n \in Nat /\ inForce \in Seq(RuleSet) /\ inForce' \in Seq(RuleSet)
    BY <1>1, Caller, CallEdits DEF RulesInv, RelayTyped, Relay!Agents
  <1>3. job' = job
    BY <1>1 DEF Relay!Step
  <1>4. inForce' = Relay!Edited(c, inForce)
    BY CallEdits DEF Relay!Agents
  <1>5. /\ Timely(s, inForce, n)
        /\ VkUfw(s, n)
    BY DEF RulesInv, CallsFit, Relay!Agents
  <1>6. c.does = "delete" => c.arg \in 1..Len(inForce) /\ Relay!MentionsPort(inForce[c.arg], n)
    BY <1>1, Caller DEF Relay!Agents
  <1>7. \A y : In(y, Relay!Deletions(n)) => y.does = "delete"
    <2> DEFINE d == Relay!Deletions(n)
    <2>1. Descends(d, inForce, n)
      BY <1>2, DeletesOfNumber DEF Relay!Backend
    <2> HIDE DEF d
    <2>2. QED
      BY <2>1 DEF Descends, In, d
  <1>7a. c.does = "list" => \A p \in 1..Len(inForce) :
            inForce[p].num = n => In(Relay!Call("delete", p), Relay!Deletions(n))
    BY <1>2, DeletesOfNumber DEF Relay!Backend, Relay!MentionsPort
  <1> HIDE DEF s, t, n, c
  <1>8. \A y : (In(y, s) \/ In(y, t)) => y \in GuardSet(n, "ufw")
    BY <1>1 DEF In
  <1>9. \A y \in GuardSet(n, "ufw") :
           /\ y.boot = FALSE /\ y.does \in {"list", "delete"} \cup Adder
           /\ Rank(y) = IF y.does \in Adder THEN 3 ELSE 0
           /\ y.does \in Adder => y.arg \in RuleSet
    BY DEF GuardSet, GuardCall, UfwCall, Adder, EngineRule, Rank
  <1>10. c \in GuardSet(n, "ufw")
    BY <1>1
  <1>11. Harmless(t)
    BY <1>1, <1>5, <1>7 DEF VkUfw, Harmless, Adder
  \* Once a rule is added, the clearing is over.
  <1>12. c.does \in Adder =>
            /\ \A y : In(y, t) \/ In(y, s) => y.does \in Adder
            /\ \A y : In(y, inForce') <=> In(y, inForce) \/ y = c.arg
    <2>1. SUFFICES ASSUME c.does \in Adder
                   PROVE  /\ \A y : In(y, t) \/ In(y, s) => y.does \in Adder
                          /\ \A y : In(y, inForce') <=> In(y, inForce) \/ y = c.arg
      OBVIOUS
    <2>2. Rank(c) = 3 /\ c.arg \in RuleSet
      BY <1>9, <1>10, <2>1
    <2>3. ASSUME NEW y, In(y, t) PROVE y.does \in Adder
      <3>1. Rank(y) = IF y.does \in Adder THEN 3 ELSE 0
        BY <1>8, <1>9, <2>3
      <3>2. Rank(c) <= Rank(y)
        BY <1>1, <2>3
      <3>3. QED
        BY <2>2, <3>1, <3>2
    <2>4. \A y : In(y, inForce') <=> In(y, inForce) \/ y = c.arg
      BY <1>2, <1>4, <2>1, <2>2, Additions DEF Adder
    <2>5. QED
      BY <1>1, <2>1, <2>3, <2>4
  <1>13. ASSUME NEW S, Coming(s, inForce, FALSE, S) PROVE Coming(t, inForce', FALSE, S)
    <2>1. c.boot = FALSE /\ "list" \notin Adder
      BY <1>9, <1>10 DEF Adder
    <2>2. \A y : In(y, t) => In(y, s) \/ (c.boot = FALSE /\ c.does \notin Adder)
      BY <1>1, <2>1
    <2>3. c = s[1]
      BY DEF c
    <2>4. QED
      BY <1>1, <1>12, <1>13, <2>1, <2>2, <2>3, ComingStep
  <1>14. ASSUME NEW p \in 1..Len(inForce'), inForce'[p].num = n, Bad(inForce'[p])
         PROVE  (\E y : In(y, t) /\ y.does = "list") \/ In(Relay!Call("delete", p), t)
    <2>1. CASE c.does = "list"
      BY <1>1, <1>7a, <1>14, <2>1
    <2>2. CASE c.does = "delete"
      <3> DEFINE q == c.arg
                 u == Relay!RemoveAt(inForce, q)
      <3>1. inForce' = u /\ q \in 1..Len(inForce)
        BY <1>2, <1>4, <1>6, <2>2, Fronted
      <3>2. /\ Len(u) = Len(inForce) - 1
            /\ \A i \in 1..Len(u) : u[i] = IF i < q THEN inForce[i] ELSE inForce[i + 1]
        BY <1>2, <3>1, InRest
      <3>3. Len(inForce) \in Nat
        BY <1>2
      <3> HIDE DEF u, q
      <3>4. \A y : In(y, s) => y.does # "list"
        <4>1. ASSUME NEW i \in 1..Len(s), s[i].does = "list" PROVE FALSE
          <5>1. i = 1
            BY <1>5, <4>1 DEF Timely
          <5>2. QED
            BY <2>2, <4>1, <5>1 DEF c
        <4>2. QED
          BY <4>1 DEF In
      <3>5. \A k : In(Relay!Call("delete", k), s) /\ k # q => k < q /\ In(Relay!Call("delete", k), t)
        <4>1. ASSUME NEW k, In(Relay!Call("delete", k), s), k # q
              PROVE  k < q /\ In(Relay!Call("delete", k), t)
          <5>1. PICK i \in 1..Len(s) : s[i] = Relay!Call("delete", k)
            BY <4>1 DEF In
          <5>2. s[i].does = "delete" /\ s[i].arg = k
            BY <5>1 DEF Relay!Call
          <5>3. i # 1
            BY <4>1, <5>2 DEF q, c
          <5>4. 1 \in 1..i - 1
            BY <1>1, <5>1, <5>3
          <5>5. s[i].arg < s[1].arg
            BY <1>5, <5>2, <5>4 DEF Timely
          <5>6. Relay!Call("delete", k) # c
            BY <4>1, <5>1, <5>2 DEF q
          <5>7. QED
            BY <1>1, <4>1, <5>2, <5>5, <5>6 DEF q, c
        <4>2. QED
          BY <4>1
      <3>6. CASE p < q
        <4>1. p \in 1..Len(inForce) /\ inForce[p] = inForce'[p]
          BY <3>1, <3>2, <3>3, <3>6
        <4>2. In(Relay!Call("delete", p), s)
          BY <1>5, <1>14, <3>4, <4>1 DEF VkUfw
        <4>3. QED
          BY <3>5, <3>6, <4>1, <4>2
      <3>7. CASE p >= q
        <4>1. p + 1 \in 1..Len(inForce) /\ inForce[p + 1] = inForce'[p]
          BY <3>1, <3>2, <3>3, <3>7
        <4>2. In(Relay!Call("delete", p + 1), s)
          BY <1>5, <1>14, <3>4, <4>1 DEF VkUfw
        <4>3. p + 1 # q /\ ~(p + 1 < q)
          BY <3>1, <3>7, <4>1
        <4>4. QED
          BY <3>5, <4>2, <4>3
      <3>8. QED
        BY <3>1, <3>2, <3>3, <3>6, <3>7
    <2>3. CASE c.does \in Adder
      <3>1. In(inForce'[p], inForce')
        BY DEF In
      <3>2. In(inForce'[p], inForce)
        <4>1. ~Bad(c.arg)
          BY <1>1, <1>5, <2>3 DEF VkUfw, Harmless
        <4>2. QED
          BY <1>12, <1>14, <2>3, <3>1, <4>1
      <3>3. PICK k \in 1..Len(inForce) : inForce[k] = inForce'[p]
        BY <3>2 DEF In
      <3>4. (\E y : In(y, s) /\ y.does = "list") \/ In(Relay!Call("delete", k), s)
        BY <1>5, <1>14, <3>3 DEF VkUfw
      <3>5. Relay!Call("delete", k).does = "delete"
        BY DEF Relay!Call
      <3>6. QED
        BY <1>12, <2>3, <3>4, <3>5 DEF Adder
    <2>4. QED
      BY <1>9, <1>10, <2>1, <2>2, <2>3
  <1>15. Coming(t, inForce', FALSE, {Drop(n)}) /\ Coming(t, inForce', FALSE, RangesOf(n))
    BY <1>5, <1>13 DEF VkUfw
  <1>16. QED
    BY <1>3, <1>11, <1>14, <1>15 DEF VkUfw, t, n

\* A guard on firewalld goes on.
LEMMA FirewalldGoesOn ==
  ASSUME RulesInv, Relay!Step("guard"), host[1] = "firewalld",
         Ordered(todo["guard"]), VkFirewalld(todo["guard"], job["guard"].num)
  PROVE  VkFirewalld(todo["guard"], job["guard"].num)'
  <1> DEFINE s == todo["guard"]
             t == todo'["guard"]
             n == job["guard"].num
             c == s[1]
  <1>1. /\ s # << >> /\ c \in GuardSet(n, host[1]) /\ In(c, s)
        /\ s \in Seq(GuardSet(n, host[1])) /\ t \in Seq(GuardSet(n, host[1]))
        /\ \A y : In(y, s) => y = c \/ In(y, t)
        /\ \A y : In(y, t) => In(y, s)
        /\ \A y : In(y, t) => Rank(c) <= Rank(y)
    BY GuardLeft
  <1>2. n \in Nat /\ inForce \in Seq(RuleSet) /\ stored \in Seq(RuleSet)
    BY <1>1, Caller DEF RulesInv, RelayTyped, Relay!Agents
  <1>3. job' = job
    BY <1>1 DEF Relay!Step
  <1>4. /\ c.boot => stored' = Relay!Edited(c, stored) /\ inForce' = inForce
        /\ ~c.boot => inForce' = Relay!Edited(c, inForce) /\ stored' = stored
    BY CallEdits DEF Relay!Agents
  <1>5. VkFirewalld(s, n)
    OBVIOUS
  <1>6. \A r : In(r, inForce) \/ In(r, stored) => r.to \in {"accept", "drop"}
    BY DEF RulesInv, ServicesKept
  <1> HIDE DEF s, t, n, c
  <1>7. \A y : (In(y, s) \/ In(y, t)) => y \in GuardSet(n, "firewalld")
    BY <1>1 DEF In
  <1>8. \A y \in GuardSet(n, "firewalld") :
           /\ y.boot \in BOOLEAN /\ y.does \in {"unport", "unrich"} \cup Adder
           /\ Rank(y) = IF y.does \in Adder THEN 3 ELSE 0
           /\ y.does \in Adder => y.arg \in RuleSet
           /\ y.does \notin Adder => y.arg = n
    BY DEF GuardSet, GuardCall, FirewalldCall, Adder, EngineRule, Rank
  <1>9. c \in GuardSet(n, "firewalld") /\ c = s[1]
    BY <1>1 DEF c
  <1>10. Harmless(t)
    BY <1>1, <1>5 DEF VkFirewalld, Harmless
  <1>11. c.does \in Adder => \A y : In(y, t) => y.does \in Adder
    <2>1. ASSUME c.does \in Adder, NEW y, In(y, t) PROVE y.does \in Adder
      <3>1. Rank(c) = 3 /\ Rank(y) = IF y.does \in Adder THEN 3 ELSE 0
        BY <1>7, <1>8, <1>9, <2>1
      <3>2. Rank(c) <= Rank(y)
        BY <1>1, <2>1
      <3>3. QED
        BY <3>1, <3>2
    <2>2. QED
      BY <2>1
  \* One of the two copies.
  <1>12. ASSUME NEW b \in BOOLEAN, NEW list \in Seq(RuleSet), NEW list2,
                \A r : In(r, list) => r.to \in {"accept", "drop"},
                c.boot = b => list2 = Relay!Edited(c, list),
                c.boot # b => list2 = list,
                Coming(s, list, b, {Drop(n)}), Clearing(s, list, b, n)
         PROVE  Coming(t, list2, b, {Drop(n)}) /\ Clearing(t, list2, b, n)
    <2>1. c.does \in Adder /\ c.boot = b =>
            \A y : In(y, list2) <=> In(y, list) \/ y = c.arg
      <3>1. c.does \in Adder => c.arg \in RuleSet
        BY <1>8, <1>9
      <3>2. QED
        BY <1>12, <3>1, Additions DEF Adder
    <2>2. c.does = "unport" /\ c.boot = b =>
            \A y : In(y, list2) <=> In(y, list) /\ ~(y.num = n /\ y.to = "accept" /\ y.from = "any")
      <3>1. c.does = "unport" => c.arg = n
        BY <1>8, <1>9 DEF Adder
      <3>2. QED
        BY <1>12, <3>1, Removals
    <2>3. c.does = "unrich" /\ c.boot = b => \A y : In(y, list2) => In(y, list)
      BY <1>12, Removals
    <2>4. Coming(t, list2, b, {Drop(n)})
      <3> DEFINE S == {Drop(n)}
      <3>1. Coming(s, list, b, S)
        BY <1>12
      <3> HIDE DEF S
      <3>2. \A y : In(y, t) => In(y, s) \/ (c.boot = b /\ c.does \notin Adder)
        BY <1>1
      <3>3. c.boot = b /\ c.does \in Adder =>
              /\ \A y : In(y, list2) <=> In(y, list) \/ y = c.arg
              /\ \A y : In(y, t) => y.does \in Adder
        BY <1>11, <2>1
      <3>4. Coming(t, list2, b, S)
        BY <1>1, <1>9, <1>12, <3>1, <3>2, <3>3, ComingStep
      <3>5. QED
        BY <3>4 DEF S
    <2>5. ASSUME NEW r, In(r, list2), r.num = n, Bad(r)
          PROVE  \E y : In(y, t) /\ y.does = "unport" /\ y.arg = n /\ y.boot = b
      <3>1. In(r, list)
        <4>1. c.does \in Adder => ~Bad(c.arg)
          BY <1>1, <1>5 DEF VkFirewalld, Harmless
        <4>2. c.does \in Adder \/ c.does = "unport" \/ c.does = "unrich"
          BY <1>8, <1>9
        <4>3. QED
          BY <1>12, <2>1, <2>2, <2>3, <2>5, <4>1, <4>2
      <3>2. PICK y : In(y, s) /\ y.does = "unport" /\ y.arg = n /\ y.boot = b
        BY <1>12, <2>5, <3>1 DEF Clearing
      <3>3. y # c
        <4>1. r.from = "any" /\ r.to = "accept"
          BY <1>12, <2>5, <3>1 DEF Bad
        <4>2. QED
          BY <2>2, <2>5, <3>2, <4>1
      <3>4. QED
        BY <1>1, <3>2, <3>3
    <2>6. QED
      BY <2>4, <2>5 DEF Clearing
  <1>13. /\ Coming(t, inForce', FALSE, {Drop(n)}) /\ Clearing(t, inForce', FALSE, n)
    <2>1. Coming(s, inForce, FALSE, {Drop(n)}) /\ Clearing(s, inForce, FALSE, n)
      BY <1>5 DEF VkFirewalld
    <2>2. c.boot \in BOOLEAN
      BY <1>8, <1>9
    <2>3. c.boot = FALSE => inForce' = Relay!Edited(c, inForce)
      BY <1>4
    <2>4. c.boot # FALSE => inForce' = inForce
      BY <1>4, <2>2
    <2>5. \A r : In(r, inForce) => r.to \in {"accept", "drop"}
      BY <1>6
    <2>6. QED
      BY <1>2, <1>12, <2>1, <2>3, <2>4, <2>5
  <1>14. /\ Coming(t, stored', TRUE, {Drop(n)}) /\ Clearing(t, stored', TRUE, n)
    <2>1. Coming(s, stored, TRUE, {Drop(n)}) /\ Clearing(s, stored, TRUE, n)
      BY <1>5 DEF VkFirewalld
    <2>2. c.boot \in BOOLEAN
      BY <1>8, <1>9
    <2>3. c.boot = TRUE => stored' = Relay!Edited(c, stored)
      BY <1>4
    <2>4. c.boot # TRUE => stored' = stored
      BY <1>4, <2>2
    <2>5. \A r : In(r, stored) => r.to \in {"accept", "drop"}
      BY <1>6
    <2>6. QED
      BY <1>2, <1>12, <2>1, <2>3, <2>4, <2>5
  <1>15. QED
    BY <1>3, <1>10, <1>13, <1>14 DEF VkFirewalld, t, n

-----------------------------------------------------------------------------
(* The relay firewall: the invariant, step by step.                        *)

\* Nothing the properties look at moves: a narrow port stays one.
LEMMA SameIsNarrow ==
  ASSUME UNCHANGED <<host, chain, inForce, stored>>
  PROVE  \A n : Narrow(n)' <=> Narrow(n)
  BY DEF Narrow, NarrowCopy, JumpFirst

LEMMA NobodyCalls ==
  ASSUME RulesInv
  PROVE  \A a \in Relay!Agents : ~Relay!Busy(a) => todo[a] = << >> /\ \A c : ~In(c, todo[a])
  BY DEF RulesInv, CallsFit, In

\* What moves no guard and asks for nothing new holds no port that was not held.
LEMMA HeldBefore ==
  ASSUME UNCHANGED <<host, asked>>, blind \subseteq blind',
         Relay!Busy("guard") => Relay!Busy("guard")' /\ job'["guard"] = job["guard"]
  PROVE  \A n : Held(n)' => Held(n)
  BY DEF Held, Touched

LEMMA GuardBegins ==
  ASSUME RelayInv, ~Relay!Lost', NEW n \in EngineNums, NEW mode \in {"open", "vk", "closed"},
         Relay!Start("guard", [mode |-> mode, num |-> n], Relay!GuardCalls(n, mode)),
         UNCHANGED <<host, default, chain, inForce, stored, early, ranges, asked, blind, faults>>,
         mode = "vk" => ranges # {}
  PROVE  RelayInv'
  <1> DEFINE calls == Relay!GuardCalls(n, mode)
  <1>1. RulesInv /\ RelayTyped /\ VkInv /\ NarrowHeld /\ HealCalm
    BY DEF RelayInv, RulesInv
  <1>2. calls \in Seq(GuardSet(n, host[1])) /\ Timely(calls, inForce, n)
    BY <1>1, GuardListFits
  <1>3. /\ RulesInv'
        /\ ~Relay!Busy("guard")
        /\ Relay!Busy("heal")' <=> Relay!Busy("heal")
        /\ todo'["heal"] = todo["heal"] /\ job'["heal"] = job["heal"]
        /\ job'["guard"] = [mode |-> mode, num |-> n] /\ todo'["guard"] = calls
        /\ (intact'["guard"] = TRUE) => ~Relay!Busy("heal")
    <2>1. /\ "guard" \in Relay!Agents /\ "heal" \in Relay!Agents /\ "heal" # "guard"
          /\ mode \in Modes /\ mode # "idle"
      BY DEF Relay!Agents, Modes
    <2>2. /\ RulesInv'
          /\ \A b \in Relay!Agents : b # "guard" =>
               job'[b] = job[b] /\ todo'[b] = todo[b] /\ (Relay!Busy(b)' <=> Relay!Busy(b))
          /\ ~Relay!Busy("guard") /\ Relay!Busy("guard")'
          /\ job'["guard"] = [mode |-> mode, num |-> n] /\ todo'["guard"] = calls
          /\ \A b \in Relay!Agents :
               (intact'[b] = TRUE) => b = "guard" /\ \A d \in Relay!Agents : ~Relay!Busy(d)
      BY <1>1, <1>2, <2>1, StartsFit
    <2>3. (Relay!Busy("heal")' <=> Relay!Busy("heal")) /\ todo'["heal"] = todo["heal"]
          /\ job'["heal"] = job["heal"]
      BY <2>1, <2>2
    <2>4. (intact'["guard"] = TRUE) => ~Relay!Busy("heal")
      BY <2>1, <2>2, Zenon
    <2>5. QED
      BY <2>2, <2>3, <2>4, Zenon
  <1>4. mode = "vk" => Progress(calls, n)
    BY <1>1, VkStarts
  <1>5. (intact["guard"] = TRUE)' <=> intact["guard"]'
    <2>1. intact'["guard"] \in BOOLEAN
      BY <1>3 DEF RulesInv, RelayTyped, Relay!Agents
    <2>2. QED
      BY <2>1
  <1> HIDE DEF calls
  <1>6. VkInv'
    <2>1. job'["guard"].mode = mode /\ job'["guard"].num = n
      BY <1>3
    <2>2. mode = "vk" => Progress(todo["guard"], job["guard"].num)'
      BY <1>3, <1>4, <2>1 DEF Progress, VkIptables, VkUfw, VkFirewalld, Coming, Clearing, JumpFirst
    <2>3. intact["guard"]' => ~Relay!Busy("heal")'
      BY <1>3, <1>5
    <2>4. QED
      BY <2>1, <2>2, <2>3 DEF VkInv
  <1>7. \A m : Held(m)' => Held(m)
    BY <1>3, HeldBefore
  <1>8. NarrowHeld'
    BY <1>1, <1>7, SameIsNarrow DEF NarrowHeld
  <1>9. HealCalm'
    BY <1>1, <1>3, <1>7 DEF HealCalm
  <1>10. QED
    BY <1>3, <1>6, <1>8, <1>9 DEF RelayInv

LEMMA HealBegins ==
  ASSUME RelayInv, ~Relay!Lost', NEW n \in EngineNums, Relay!Heal(n)
  PROVE  RelayInv'
  <1> DEFINE calls == Relay!HealCalls(n)
  <1>1. RulesInv /\ RelayTyped /\ VkInv /\ NarrowHeld /\ HealCalm
    BY DEF RelayInv, RulesInv
  <1>2. /\ Relay!Start("heal", [mode |-> "heal", num |-> n], calls)
        /\ UNCHANGED <<host, default, chain, inForce, stored, early, ranges, asked, blind, faults>>
    BY DEF Relay!Heal
  <1>3. /\ calls \in Seq(AnySet(n, host[1])) /\ Timely(calls, inForce, n)
        /\ \A c : In(c, calls) => c.does \in {"nft", "judge"}
    BY <1>1, HostIs, HealStarts, HostConstants DEF Relay!Backend, Relay!GuardConstants, RelayTyped
  <1>4. /\ RulesInv'
        /\ Relay!Busy("guard")' <=> Relay!Busy("guard")
        /\ job'["guard"] = job["guard"]
        /\ todo'["heal"] = calls
        /\ ~((intact'["guard"] = TRUE))
    <2>1. /\ "guard" \in Relay!Agents /\ "heal" \in Relay!Agents /\ "guard" # "heal"
          /\ "heal" \in Modes /\ "heal" # "idle"
      BY DEF Relay!Agents, Modes
    <2>2. /\ RulesInv'
          /\ \A b \in Relay!Agents : b # "heal" =>
               job'[b] = job[b] /\ todo'[b] = todo[b] /\ (Relay!Busy(b)' <=> Relay!Busy(b))
          /\ ~Relay!Busy("heal") /\ Relay!Busy("heal")'
          /\ job'["heal"] = [mode |-> "heal", num |-> n] /\ todo'["heal"] = calls
          /\ \A b \in Relay!Agents :
               (intact'[b] = TRUE) => b = "heal" /\ \A d \in Relay!Agents : ~Relay!Busy(d)
      BY <1>1, <1>2, <1>3, <2>1, StartsFit
    <2>3. QED
      BY <2>1, <2>2, Zenon
  <1>5. (intact["guard"] = TRUE)' <=> intact["guard"]'
    <2>1. intact'["guard"] \in BOOLEAN
      BY <1>4 DEF RulesInv, RelayTyped, Relay!Agents
    <2>2. QED
      BY <2>1
  <1> HIDE DEF calls
  <1>6. VkInv'
    BY <1>4, <1>5 DEF VkInv
  <1>7. \A m : Held(m)' => Held(m)
    BY <1>2, <1>4, HeldBefore
  <1>8. NarrowHeld'
    BY <1>1, <1>2, <1>7, SameIsNarrow DEF NarrowHeld
  <1>9. HealCalm'
    BY <1>3, <1>4 DEF HealCalm, Opens
  <1>10. QED
    BY <1>4, <1>6, <1>8, <1>9 DEF RelayInv

\* What a repair does once it has judged, on iptables.
LEMMA OpeningAccepts ==
  ASSUME host[1] = "iptables"
  PROVE  \A n, c : In(c, Relay!Opening(n)) => c.does = "accept"
  <1> SUFFICES ASSUME NEW n, NEW c, In(c, Relay!Opening(n)) PROVE c.does = "accept"
    OBVIOUS
  <1>1. Relay!Opening(n) = <<Relay!Call("accept", n)>>
    BY DEF Relay!Opening, Relay!Backend
  <1>2. c = Relay!Call("accept", n)
    BY <1>1 DEF In
  <1>3. QED
    BY <1>2 DEF Relay!Call

\* A call fails, or the agent is killed.
LEMMA CallsDropped ==
  ASSUME RelayInv, RulesInv', NEW a \in Relay!Agents, todo[a] # << >>, NEW fewer,
         \/ fewer = Tail(todo[a]) \/ fewer = << >>
         \/ /\ todo[a][1].does = "judge" /\ fewer = Relay!Opening(job[a].num)
            /\ asked[job[a].num] = "vk" => job[a].num \in blind',
         todo' = [todo EXCEPT ![a] = fewer], intact' = [intact EXCEPT ![a] = FALSE],
         blind \subseteq blind',
         UNCHANGED <<host, default, chain, inForce, stored, early, ranges, job, asked>>
  PROVE  RelayInv'
  <1>1. RulesInv /\ VkInv /\ NarrowHeld /\ HealCalm
    BY DEF RelayInv
  <1>2. /\ todo[a] \in Seq(AllCalls)
        /\ todo'[a] = fewer /\ \A b \in Relay!Agents : b # a => todo'[b] = todo[b] /\ intact'[b] = intact[b]
        /\ intact'[a] = FALSE
    BY <1>1 DEF RulesInv, RelayTyped
  <1>3. \A b \in Relay!Agents : Relay!Busy(b)' <=> Relay!Busy(b)
    BY DEF Relay!Busy
  <1>4. "guard" \in Relay!Agents /\ "heal" \in Relay!Agents
    BY DEF Relay!Agents
  <1>5. \A n : Held(n)' => Held(n)
    BY <1>3, <1>4, HeldBefore
  <1>6. VkInv'
    <2>1. CASE a = "guard"
      BY <1>2, <2>1 DEF VkInv
    <2>2. CASE a # "guard"
      <3>1. a = "heal" /\ todo[a] # << >>
        BY <2>2 DEF Relay!Agents
      <3>2. Relay!Busy("heal") /\ intact'["guard"] = intact["guard"]
        BY <1>1, <1>2, <1>4, <3>1, Caller
      <3>3. ~(Relay!Busy("guard") /\ intact["guard"])
        BY <1>1, <3>2 DEF VkInv
      <3>4. QED
        BY <1>3, <1>4, <3>2, <3>3 DEF VkInv
    <2>3. QED
      BY <2>1, <2>2
  <1>7. NarrowHeld'
    BY <1>1, <1>5, SameIsNarrow DEF NarrowHeld
  <1>8. HealCalm'
    <2>1. CASE todo'["heal"] = todo["heal"]
      BY <1>1, <1>5, <2>1 DEF HealCalm
    <2>2. CASE a = "heal" /\ (fewer = Tail(todo[a]) \/ fewer = << >>)
      <3>1. \A c : In(c, Tail(todo[a])) => In(c, todo[a])
        BY <1>2, InTail
      <3>2. \A c : ~In(c, << >>)
        BY DEF In
      <3>3. \A c : In(c, todo'["heal"]) => In(c, todo["heal"])
        BY <1>2, <2>2, <3>1, <3>2
      <3>4. QED
        BY <1>1, <1>5, <3>3 DEF HealCalm
    <2>3. CASE /\ a = "heal" /\ fewer = Relay!Opening(job[a].num)
               /\ asked[job[a].num] = "vk" => job[a].num \in blind'
      <3>1. todo'["heal"] = Relay!Opening(job["heal"].num)
        BY <1>2, <2>3
      <3>2. ~Held(job["heal"].num)'
        BY <2>3 DEF Held
      <3>3. QED
        BY <3>1, <3>2, OpeningAccepts DEF HealCalm
    <2>4. a # "heal" => todo'["heal"] = todo["heal"]
      BY <1>2, <1>4
    <2>5. QED
      BY <2>1, <2>2, <2>3, <2>4
  <1>9. QED
    BY <1>6, <1>7, <1>8 DEF RelayInv

\* A call of the guard works.
LEMMA GuardCallWorks ==
  ASSUME RelayInv, RulesInv', Relay!Step("guard")
  PROVE  RelayInv'
  <1>1. RulesInv /\ RelayTyped /\ VkInv /\ NarrowHeld /\ HealCalm /\ "guard" \in Relay!Agents
        /\ "heal" \in Relay!Agents
    BY DEF RelayInv, RulesInv, Relay!Agents
  <1>2. /\ todo["guard"] # << >>
        /\ UNCHANGED <<host, default, ranges, job, intact, asked, blind, faults, commands>>
    BY DEF Relay!Step
  <1>3. Relay!Busy("guard")
    BY <1>1, <1>2, Caller
  <1>4. \A b \in Relay!Agents : Relay!Busy(b)' <=> Relay!Busy(b)
    BY <1>2 DEF Relay!Busy
  <1>5. \A n : Held(n)' <=> Held(n)
    BY <1>1, <1>2, <1>4 DEF Held, Touched
  <1>6. VkInv'
    <2>1. SUFFICES ASSUME intact["guard"], ~Relay!Busy("heal"), job["guard"].mode = "vk"
                   PROVE  Progress(todo["guard"], job["guard"].num)'
      BY <1>1, <1>2, <1>3, <1>4 DEF VkInv
    <2>2. Progress(todo["guard"], job["guard"].num)
      BY <1>1, <1>3, <2>1 DEF VkInv
    <2>3. Ordered(todo["guard"])'
      <3>1. Ordered(todo["guard"])
        BY <2>2 DEF Progress
      <3>2. Ordered(todo'["guard"])
        BY <1>1, <3>1, GuardLeft
      <3>3. QED
        BY <3>2
    <2>4. host[1] = "iptables" => VkIptables(todo["guard"], job["guard"].num)'
      BY <1>1, <2>2, IptablesGoesOn DEF Progress
    <2>5. host[1] = "ufw" => VkUfw(todo["guard"], job["guard"].num)'
      BY <1>1, <2>2, UfwGoesOn DEF Progress
    <2>6. host[1] = "firewalld" => VkFirewalld(todo["guard"], job["guard"].num)'
      BY <1>1, <2>2, FirewalldGoesOn DEF Progress
    <2>7. QED
      BY <1>2, <2>3, <2>4, <2>5, <2>6 DEF Progress
  <1>7. NarrowHeld'
    <2>1. SUFFICES ASSUME NEW n \in EngineNums, Held(n) PROVE Narrow(n)'
      BY <1>5 DEF NarrowHeld
    <2>2. host[1] # "iptables" /\ n # job["guard"].num
      BY <1>3, <2>1 DEF Held, Touched
    <2>3. Narrow(n)
      BY <1>1, <2>1 DEF NarrowHeld
    <2>4. QED
      BY <1>1, <2>2, <2>3, OtherStaysNarrow
  <1>8. HealCalm'
    <2>1. todo' = [todo EXCEPT !["guard"] = Relay!Adds(todo["guard"][1]) \o Tail(todo["guard"])]
      BY <1>1, CallsLeft
    <2>2. todo'["heal"] = todo["heal"]
      BY <2>1
    <2>3. QED
      BY <1>1, <1>2, <1>5, <2>2 DEF HealCalm
  <1>9. QED
    BY <1>6, <1>7, <1>8 DEF RelayInv

\* On iptables the accept of another number leaves a narrowed port narrow.
LEMMA AcceptStaysNarrow ==
  ASSUME RulesInv, NEW a \in Relay!Agents, Relay!Step(a), host[1] = "iptables",
         todo[a][1].does = "accept", NEW n \in EngineNums, n # job[a].num, Narrow(n)
  PROVE  Narrow(n)'
  <1> DEFINE c == todo[a][1]
             m == job[a].num
             r == Relay!Rule(m, "udp", "any", "accept")
             t == <<r>> \o inForce
  <1>1. todo[a] # << >> /\ Head(todo[a]) = c /\ Relay!Does(c) /\ host' = host
    BY DEF Relay!Step, RulesInv, RelayTyped
  <1>2. m \in Nat /\ c \in AnySet(m, host[1]) /\ inForce \in Seq(RuleSet) /\ c.boot = FALSE
    BY <1>1, Caller DEF RulesInv, RelayTyped
  <1>3. c.arg = m
    BY <1>2 DEF AnySet, GuardCall, LookCall, IptablesCall, UfwCall, FirewalldCall
  <1>4. chain' = chain
    BY <1>1 DEF Relay!Does
  <1>5. inForce' = Relay!Edited(c, inForce)
    BY <1>2, CallEdits
  <1>6. inForce' = inForce \/ inForce' = t
    <2>1. Relay!Edited(c, inForce) = Relay!First(inForce, r)
      BY <1>2, <1>3, Fronted
    <2>2. QED
      BY <1>5, <2>1 DEF Relay!First
  <1>7. PICK i \in 1..Len(inForce) : inForce[i] = Relay!Jump(n) /\ \A j \in 1..i - 1 : inForce[j].num # n
    BY DEF Narrow, JumpFirst
  <1>8. r \in RuleSet /\ r.num # n
    BY <1>2 DEF Relay!Rule, RuleSet
  <1>9. /\ Len(t) = Len(inForce) + 1 /\ t[1] = r /\ Len(inForce) \in Nat
        /\ \A j \in 1..Len(inForce) : t[j + 1] = inForce[j]
    BY <1>2, <1>8, InFront
  <1> HIDE DEF t, r, c, m
  <1>10. CASE inForce' = inForce
    BY <1>1, <1>4, <1>10 DEF Narrow, JumpFirst
  <1>11. CASE inForce' = t
    <2>1. i + 1 \in 1..Len(t) /\ t[i + 1] = Relay!Jump(n)
      BY <1>7, <1>9
    <2>2. ASSUME NEW j \in 1..(i + 1) - 1 PROVE t[j].num # n
      <3>1. CASE j = 1
        BY <1>8, <1>9, <3>1
      <3>2. CASE j # 1
        <4>1. j - 1 \in 1..Len(inForce) /\ j - 1 \in 1..i - 1 /\ (j - 1) + 1 = j
          BY <1>7, <1>9, <3>2
        <4>2. t[j] = inForce[j - 1]
          BY <1>9, <4>1
        <4>3. QED
          BY <1>7, <4>1, <4>2
      <3>3. QED
        BY <3>1, <3>2
    <2>3. JumpFirst(t, n)
      BY <2>1, <2>2 DEF JumpFirst
    <2>4. QED
      BY <1>1, <1>4, <1>11, <2>3 DEF Narrow
  <1>12. QED
    BY <1>6, <1>10, <1>11

\* A call of the repair works.
LEMMA HealCallWorks ==
  ASSUME RelayInv, RulesInv', Relay!Step("heal")
  PROVE  RelayInv'
  <1> DEFINE s == todo["heal"]
             c == s[1]
             m == job["heal"].num
  <1>1. RulesInv /\ RelayTyped /\ VkInv /\ NarrowHeld /\ HealCalm /\ "guard" \in Relay!Agents
        /\ "heal" \in Relay!Agents
    BY DEF RelayInv, RulesInv, Relay!Agents
  <1>2. /\ s # << >>
        /\ UNCHANGED <<host, default, ranges, job, intact, asked, blind, faults, commands>>
    BY DEF Relay!Step
  <1>3. /\ Relay!Busy("heal") /\ m \in EngineNums /\ m \in Nat
        /\ s \in Seq(AnySet(m, host[1]))
    BY <1>1, <1>2, Caller
  <1>4. \A b \in Relay!Agents : Relay!Busy(b)' <=> Relay!Busy(b)
    BY <1>2 DEF Relay!Busy
  <1>5. \A n : Held(n)' <=> Held(n)
    BY <1>1, <1>2, <1>4 DEF Held, Touched
  <1>6. In(c, s) /\ \A y : In(y, Tail(s)) => In(y, s)
    BY <1>2, <1>3, InTail
  <1>7. NarrowHeld'
    <2>1. SUFFICES ASSUME NEW n \in EngineNums, Held(n) PROVE Narrow(n)'
      BY <1>5 DEF NarrowHeld
    <2>2. Narrow(n)
      BY <1>1, <2>1 DEF NarrowHeld
    <2>3. CASE c.does \in {"nft", "judge"}
      BY <1>1, <2>2, <2>3, LookStaysNarrow
    <2>4. CASE c.does \notin {"nft", "judge"}
      <3>1. n # m /\ (host[1] = "iptables" => c.does = "accept")
        BY <1>1, <1>6, <2>1, <2>4 DEF HealCalm, Opens
      <3>2. QED
        BY <1>1, <2>2, <3>1, OtherStaysNarrow, AcceptStaysNarrow
    <2>5. QED
      BY <2>3, <2>4
  <1>8. HealCalm'
    <2> DEFINE t == todo'["heal"]
    <2>1. SUFFICES ASSUME NEW y, In(y, t), Opens(y)
                   PROVE  /\ host[1] = "iptables" => y.does = "accept"
                          /\ \A n \in EngineNums : Held(n) => n # m
      BY <1>2, <1>5 DEF HealCalm, Opens
    <2>2. /\ c.does \notin {"list", "judge"} => t = Tail(s)
          /\ c.does = "judge" => t = Relay!Judged(m)
          /\ c.does = "list" => host[1] = "ufw"
      BY <1>1, CallsLeft
    <2>3. \A x : ~In(x, << >>)
      BY DEF In
    <2> HIDE DEF s, c, m, t
    <2>4. CASE c.does = "judge"
      <3>1. Relay!Judged(m) = << >> \/ Relay!Judged(m) = Relay!Opening(m)
        BY DEF Relay!Judged
      <3>2. In(y, Relay!Opening(m)) /\ Relay!Judged(m) # << >>
        BY <2>1, <2>2, <2>3, <2>4, <3>1
      <3>3. ~Held(m)
        BY <1>1, <1>3, <3>2, NarrowIsLeft DEF NarrowHeld
      <3>4. QED
        BY <3>2, <3>3, OpeningAccepts
    <2>5. CASE c.does = "list"
      <3>1. In(c, s) /\ Opens(c)
        BY <1>6, <2>5 DEF Opens
      <3>2. QED
        BY <1>1, <2>2, <2>5, <3>1 DEF HealCalm, s, m
    <2>6. CASE c.does \notin {"list", "judge"}
      <3>1. In(y, s)
        BY <1>6, <2>1, <2>2, <2>6
      <3>2. QED
        BY <1>1, <2>1, <3>1 DEF HealCalm, s, m
    <2>7. QED
      BY <2>4, <2>5, <2>6
  <1>9. VkInv'
    BY <1>1, <1>2, <1>3, <1>4 DEF VkInv
  <1>10. QED
    BY <1>7, <1>8, <1>9 DEF RelayInv

\* An agent answers.
LEMMA AgentFinishes ==
  ASSUME RelayInv, RulesInv', NEW a \in Relay!Agents, Relay!Finish(a)
  PROVE  RelayInv'
  <1>1. RulesInv /\ RelayTyped /\ VkInv /\ NarrowHeld /\ HealCalm /\ "guard" \in Relay!Agents
        /\ "heal" \in Relay!Agents
    BY DEF RelayInv, RulesInv, Relay!Agents
  <1>2. /\ Relay!Busy(a) /\ todo[a] = << >> /\ job' = [job EXCEPT ![a] = Relay!Idle]
        /\ UNCHANGED <<host, default, chain, inForce, stored, early, ranges, todo, intact>>
    BY DEF Relay!Finish
  <1>3. /\ job'[a] = Relay!Idle /\ ~Relay!Busy(a)'
        /\ \A b \in Relay!Agents : b # a => job'[b] = job[b] /\ (Relay!Busy(b)' <=> Relay!Busy(b))
    BY <1>1, <1>2 DEF RelayTyped, Relay!Busy
  <1>4. CASE a = "heal"
    <2>1. /\ asked' = asked /\ blind' = blind
          /\ job'["guard"] = job["guard"] /\ (Relay!Busy("guard")' <=> Relay!Busy("guard"))
      BY <1>1, <1>3, <1>4 DEF Relay!Finish
    <2>2. \A n : Held(n)' => Held(n)
      BY <1>2, <2>1, HeldBefore
    <2>3. NarrowHeld'
      BY <1>1, <1>2, <2>2, SameIsNarrow DEF NarrowHeld
    <2>4. \A c : ~In(c, todo'["heal"])
      BY <1>2, <1>4 DEF In
    <2>5. HealCalm'
      BY <2>4 DEF HealCalm
    <2>6. VkInv'
      <3>1. ~(Relay!Busy("guard") /\ intact["guard"])
        BY <1>1, <1>2, <1>4 DEF VkInv
      <3>2. QED
        BY <1>2, <2>1, <3>1 DEF VkInv
    <2>7. QED
      BY <2>3, <2>5, <2>6 DEF RelayInv
  <1>5. CASE a = "guard"
    <2> DEFINE m == job["guard"].num
    <2>1. /\ todo'["heal"] = todo["heal"] /\ job'["heal"] = job["heal"] /\ ~Relay!Busy("guard")'
          /\ Relay!Busy("guard") /\ todo["guard"] = << >>
      BY <1>1, <1>2, <1>3, <1>5
    <2>2. /\ \A n \in EngineNums :
               asked'[n] = IF n = m /\ intact["guard"] THEN job["guard"].mode
                           ELSE IF n = m \/ host[1] = "iptables" THEN "nothing"
                           ELSE asked[n]
          /\ blind' = IF intact["guard"] THEN blind \ {m} ELSE blind
      BY <1>5 DEF Relay!Finish, Relay!Backend
    <2> HIDE DEF m
    <2>3. ASSUME NEW n \in EngineNums, Held(n)'
          PROVE  /\ Held(n) \/ (n = m /\ intact["guard"] /\ job["guard"].mode = "vk")
      <3>1. asked'[n] = "vk" /\ n \notin blind'
        BY <2>3 DEF Held
      <3>2. CASE n = m /\ intact["guard"]
        BY <2>2, <3>1, <3>2
      <3>3. CASE ~(n = m /\ intact["guard"])
        <4>1. n # m /\ host[1] # "iptables" /\ asked[n] = "vk"
          BY <2>2, <3>1, <3>3
        <4>2. n \notin blind
          BY <2>2, <3>1, <4>1
        <4>3. QED
          BY <4>1, <4>2 DEF Held, Touched, m
      <3>4. QED
        BY <3>2, <3>3
    <2>4. NarrowHeld'
      <3>1. SUFFICES ASSUME NEW n \in EngineNums, Held(n)' PROVE Narrow(n)
        BY <1>2, SameIsNarrow DEF NarrowHeld
      <3>2. CASE Held(n)
        BY <1>1, <3>2 DEF NarrowHeld
      <3>3. CASE n = m /\ intact["guard"] /\ job["guard"].mode = "vk"
        <4>1. Progress(<< >>, n)
          BY <1>1, <2>1, <3>3 DEF VkInv, m
        <4>2. QED
          BY <1>1, <4>1, VkEnds
      <3>4. QED
        BY <2>3, <3>1, <3>2, <3>3
    <2>5. HealCalm'
      <3>1. CASE intact["guard"]
        <4>1. ~Relay!Busy("heal")
          BY <1>1, <2>1, <3>1 DEF VkInv
        <4>2. todo["heal"] = << >>
          BY <1>1, <4>1 DEF RulesInv, CallsFit
        <4>3. \A c : ~In(c, todo'["heal"])
          BY <2>1, <4>2 DEF In
        <4>4. QED
          BY <4>3 DEF HealCalm
      <3>2. CASE ~intact["guard"]
        <4>1. \A n \in EngineNums : Held(n)' => Held(n)
          BY <2>3, <3>2
        <4>2. QED
          BY <1>1, <1>2, <2>1, <4>1 DEF HealCalm
      <3>3. QED
        BY <3>1, <3>2
    <2>6. VkInv'
      BY <2>1 DEF VkInv
    <2>7. QED
      BY <2>4, <2>5, <2>6 DEF RelayInv
  <1>6. QED
    BY <1>4, <1>5 DEF Relay!Agents

LEMMA BootKeeps ==
  ASSUME RelayInv, RulesInv', Relay!Reboot
  PROVE  RelayInv'
  <1>1. RulesInv /\ RelayTyped /\ VkInv /\ NarrowHeld /\ HealCalm /\ "guard" \in Relay!Agents
        /\ "heal" \in Relay!Agents
    BY DEF RelayInv, RulesInv, Relay!Agents
  <1>2. /\ \A a \in Relay!Agents : ~Relay!Busy(a)
        /\ inForce' = stored
        /\ UNCHANGED <<host, default, stored, ranges, todo, job, intact, blind>>
        /\ asked' = IF host[1] = "iptables" THEN [n \in EngineNums |-> "nothing"] ELSE asked
    BY DEF Relay!Reboot, Relay!Backend
  <1>3. \A b \in Relay!Agents : ~Relay!Busy(b)' /\ todo'[b] = << >>
    BY <1>1, <1>2 DEF RulesInv, CallsFit, Relay!Busy
  <1>4. VkInv'
    BY <1>1, <1>3 DEF VkInv
  <1>5. HealCalm'
    <2>1. \A c : ~In(c, todo'["heal"])
      BY <1>1, <1>3 DEF In
    <2>2. QED
      BY <2>1 DEF HealCalm
  <1>6. NarrowHeld'
    <2>1. SUFFICES ASSUME NEW n \in EngineNums, Held(n)' PROVE Narrow(n)'
      BY DEF NarrowHeld
    <2>2. host[1] # "iptables" /\ Held(n)
      BY <1>1, <1>2, <2>1 DEF Held, Touched
    <2>3. NarrowCopy(stored, n)
      BY <1>1, <2>2 DEF NarrowHeld, Narrow
    <2>4. QED
      BY <1>2, <2>2, <2>3 DEF Narrow, NarrowCopy
  <1>7. QED
    BY <1>4, <1>5, <1>6 DEF RelayInv

LEMMA RelayStep ==
  ASSUME RelayInv, Relay!GuardNext, ~Relay!Lost'
  PROVE  RelayInv'
  <1>1. RulesInv' /\ RulesInv
    BY RulesStep DEF RelayInv
  <1>2. ASSUME NEW n \in EngineNums, NEW mode \in {"open", "vk", "closed"}, Relay!PanelGuard(mode, n)
        PROVE  RelayInv'
    BY <1>2, GuardBegins DEF Relay!PanelGuard
  <1>3. ASSUME NEW n \in EngineNums, Relay!DebugGuard(n) PROVE RelayInv'
    BY <1>3, GuardBegins DEF Relay!DebugGuard
  <1>4. ASSUME NEW n \in EngineNums, Relay!Heal(n) PROVE RelayInv'
    BY <1>4, HealBegins
  <1>5. ASSUME NEW a \in Relay!Agents, Relay!ToolFails(a) PROVE RelayInv'
    <2> DEFINE left == Relay!Unread(Head(todo[a])) \o Tail(todo[a])
    <2>1. /\ todo[a] # << >>
          /\ todo' = [todo EXCEPT ![a] = left] /\ intact' = [intact EXCEPT ![a] = FALSE]
          /\ blind' = IF Head(todo[a]).does = "judge" /\ asked[job[a].num] = "vk"
                      THEN blind \cup {job[a].num} ELSE blind
          /\ UNCHANGED <<host, default, chain, inForce, stored, early, ranges, job, asked>>
      BY <1>5 DEF Relay!ToolFails
    <2>2. Head(todo[a]) = todo[a][1]
      BY <1>1, <2>1 DEF RulesInv, RelayTyped
    <2>3. \/ left = Tail(todo[a])
          \/ todo[a][1].does = "judge" /\ left = Relay!Opening(job[a].num)
      BY <1>1, <2>1, FailLeaves
    <2> HIDE DEF left
    <2>4. QED
      BY <1>1, <2>1, <2>2, <2>3, CallsDropped
  <1>6. ASSUME NEW a \in Relay!Agents, Relay!Kill(a) PROVE RelayInv'
    BY <1>1, <1>6, CallsDropped DEF Relay!Kill
  <1>7. ASSUME NEW a \in Relay!Agents, Relay!Finish(a) PROVE RelayInv'
    BY <1>1, <1>7, AgentFinishes
  <1>8. ASSUME NEW a \in Relay!Agents, Relay!Step(a) PROVE RelayInv'
    <2>1. a = "guard" \/ a = "heal"
      BY DEF Relay!Agents
    <2>2. QED
      BY <1>1, <1>8, <2>1, GuardCallWorks, HealCallWorks
  <1>9. CASE Relay!FetchRanges
    <2>1. UNCHANGED <<host, default, chain, inForce, stored, early, todo, job, intact, asked, blind>>
      BY <1>9 DEF Relay!FetchRanges
    <2>2. \A b : Relay!Busy(b)' <=> Relay!Busy(b)
      BY <2>1 DEF Relay!Busy
    <2>3. \A n : Held(n)' <=> Held(n)
      BY <2>1, <2>2 DEF Held, Touched
    <2>4. NarrowHeld'
      BY <2>1, <2>3, SameIsNarrow DEF RelayInv, NarrowHeld
    <2>5. HealCalm'
      BY <2>1, <2>3 DEF RelayInv, HealCalm
    <2>6. VkInv'
      BY <2>1, <2>2 DEF RelayInv, VkInv, Progress, VkIptables, VkUfw, VkFirewalld, Coming,
                        Clearing, JumpFirst
    <2>7. QED
      BY <1>1, <2>4, <2>5, <2>6 DEF RelayInv
  <1>10. CASE Relay!Reboot
    BY <1>1, <1>10, BootKeeps
  <1>11. QED
    BY <1>2, <1>3, <1>4, <1>5, <1>6, <1>7, <1>8, <1>9, <1>10 DEF Relay!GuardNext

LEMMA RelayBegins ==
  ASSUME Relay!GuardInit
  PROVE  RelayInv
  <1>1. RulesInv
    BY RulesBegin
  <1>2. /\ asked = [n \in EngineNums |-> "nothing"]
        /\ \A a \in Relay!Agents : ~Relay!Busy(a)
    BY DEF Relay!GuardInit, Relay!Busy
  <1>3. \A a \in Relay!Agents : \A c : ~In(c, todo[a])
    BY <1>1, <1>2, NobodyCalls
  <1>4. "guard" \in Relay!Agents /\ "heal" \in Relay!Agents
    BY DEF Relay!Agents
  <1>5. VkInv /\ NarrowHeld /\ HealCalm
    BY <1>2, <1>3, <1>4 DEF VkInv, NarrowHeld, Held, HealCalm
  <1>6. QED
    BY <1>1, <1>5 DEF RelayInv

LEMMA RelayRests ==
  ASSUME RelayInv, UNCHANGED relayVars
  PROVE  RelayInv'
  <1>1. UNCHANGED <<host, default, chain, inForce, stored, early, ranges, todo, job, intact, asked,
                    blind>>
    BY DEF relayVars
  <1>2. \A b : Relay!Busy(b)' <=> Relay!Busy(b)
    BY <1>1 DEF Relay!Busy
  <1>3. RulesInv'
    <2>1. RelayTyped' /\ CallsFit' /\ ServicesKept'
      BY <1>1, <1>2 DEF RelayInv, RulesInv, RelayTyped, CallsFit, ServicesKept
    <2>2. QED
      BY <2>1 DEF RulesInv
  <1>4. \A n : Held(n)' <=> Held(n)
    BY <1>1, <1>2 DEF Held, Touched
  <1>5. NarrowHeld'
    BY <1>1, <1>4, SameIsNarrow DEF RelayInv, NarrowHeld
  <1>6. HealCalm'
    BY <1>1, <1>4 DEF RelayInv, HealCalm
  <1>7. VkInv'
    BY <1>1, <1>2 DEF RelayInv, VkInv, Progress, VkIptables, VkUfw, VkFirewalld, Coming,
                      Clearing, JumpFirst
  <1>8. QED
    BY <1>3, <1>5, <1>6, <1>7 DEF RelayInv

\* Once two agents have been at work on ufw, nothing more is claimed.
LEMMA LostStays ==
  ASSUME Relay!GuardNext \/ UNCHANGED relayVars, Relay!Lost
  PROVE  Relay!Lost'
  <1>1. CASE UNCHANGED relayVars
    BY <1>1 DEF relayVars, Relay!Lost, Relay!Backend
  <1>2. CASE Relay!GuardNext
    <2>1. host' = host /\ (crossed => crossed')
      <3> DEFINE Keeps == host' = host /\ (crossed => crossed')
      <3>1. (Relay!FetchRanges \/ Relay!Reboot) => Keeps
        BY DEF Relay!FetchRanges, Relay!Reboot
      <3>2. \A n \in EngineNums :
               /\ \A mode \in {"open", "vk", "closed"} : Relay!PanelGuard(mode, n) => Keeps
               /\ Relay!DebugGuard(n) => Keeps
               /\ Relay!Heal(n) => Keeps
        BY Zenon DEF Relay!PanelGuard, Relay!DebugGuard, Relay!Heal, Relay!Start
      <3>3. \A a \in Relay!Agents :
               /\ Relay!Step(a) => Keeps
               /\ Relay!ToolFails(a) => Keeps
               /\ Relay!Finish(a) => Keeps
               /\ Relay!Kill(a) => Keeps
        <4>1. ASSUME NEW a \in Relay!Agents, Relay!Step(a) PROVE Keeps
          BY <4>1, Zenon DEF Relay!Step
        <4>2. ASSUME NEW a \in Relay!Agents, Relay!ToolFails(a) PROVE Keeps
          BY <4>2, Zenon DEF Relay!ToolFails
        <4>3. ASSUME NEW a \in Relay!Agents, Relay!Finish(a) PROVE Keeps
          BY <4>3, Zenon DEF Relay!Finish
        <4>4. ASSUME NEW a \in Relay!Agents, Relay!Kill(a) PROVE Keeps
          BY <4>4, Zenon DEF Relay!Kill
        <4>5. QED
          BY <4>1, <4>2, <4>3, <4>4
      <3> HIDE DEF Keeps
      <3>4. Keeps
        BY <1>2, <3>1, <3>2, <3>3, Zenon DEF Relay!GuardNext
      <3>5. QED
        BY <3>4 DEF Keeps
    <2>2. QED
      BY <2>1 DEF Relay!Lost, Relay!Backend
  <1>3. QED
    BY <1>1, <1>2

SafeInv == Relay!Lost \/ RelayInv

LEMMA RelayHolds ==
  ASSUME SafeInv
  PROVE  Relay!OnlyEnginePort /\ Relay!NarrowUntilAsked
  <1>1. CASE Relay!Lost
    BY <1>1 DEF Relay!OnlyEnginePort, Relay!NarrowUntilAsked
  <1>2. CASE RelayInv
    <2>1. RulesInv /\ NarrowHeld
      BY <1>2 DEF RelayInv
    <2>2. Relay!OnlyEnginePort
      BY <2>1, ServicesAnswer
    <2>3. Relay!NarrowUntilAsked
      <3>1. SUFFICES ASSUME \A a \in Relay!Agents : ~Relay!Busy(a),
                            NEW n \in EngineNums, asked[n] = "vk", n \notin blind,
                            ~(Relay!Backend = "ufw" /\ n \in early)
                     PROVE  Relay!Engine(n, "other") = "drop"
        BY DEF Relay!NarrowUntilAsked, Relay!Resting
      <3>2. Narrow(n)
        BY <2>1, <3>1 DEF NarrowHeld, Held, Touched, Relay!Agents
      <3>3. QED
        BY <2>1, <3>1, <3>2, NarrowRefuses
    <2>4. QED
      BY <2>2, <2>3
  <1>3. QED
    BY <1>1, <1>2 DEF SafeInv

-----------------------------------------------------------------------------
(* The composition: the part a behaviour is about moves, the others rest.   *)

HostInv == SshInv /\ BanInv /\ FloodInv /\ DecoyInv /\ ScanInv

LEMMA PartsRest ==
    /\ SshInv /\ UNCHANGED sshVars => SshInv'
    /\ BanInv /\ UNCHANGED banVars => BanInv'
    /\ FloodInv /\ UNCHANGED floodVars => FloodInv'
    /\ DecoyInv /\ UNCHANGED decoyVars => DecoyInv'
    /\ ScanInv /\ UNCHANGED scanVars => ScanInv'
  <1>1. SshInv /\ UNCHANGED sshVars => SshInv'
    BY DEF SshInv, SshTypeOK, PasswordGoes, HasKey, sshVars, files, admin, call
  <1>2. BanInv /\ UNCHANGED banVars => BanInv'
    BY DEF BanInv, Ban!BanTypeOK, Through, ReadIsListened, Ban!Listened, Ban!DropsAreBanned,
           Ban!Banned, banVars
  <1>3. FloodInv /\ UNCHANGED floodVars => FloodInv'
    BY DEF FloodInv, floodVars
  <1>4. DecoyInv /\ UNCHANGED decoyVars => DecoyInv'
    BY DEF DecoyInv, Honey!OkIsOnItsPorts, decoyVars
  <1>5. ScanInv /\ UNCHANGED scanVars => ScanInv'
    BY DEF ScanInv, Flood!ShownIsWhole, scanVars
  <1>6. QED
    BY <1>1, <1>2, <1>3, <1>4, <1>5

LEMMA HostBegins == Init => HostInv
  <1> SUFFICES ASSUME Init PROVE HostInv
    OBVIOUS
  <1>1. SshInv
    <2>1. main \in [port: {NoPort, Port22}, password: {"yes"}, root: {"yes"}]
          /\ dropin = NoFile /\ step = "idle" /\ ask = NoOption /\ was = NoFile /\ revoked = FALSE
      BY DEF Init, SshInit
    <2>2. SshTypeOK
      <3>1. live = Effective(NoFile) /\ live \in Runs
        BY <2>1, SshConstants DEF Init, SshInit, Effective, Runs, NoOption
      <3>2. keys \in [Accounts -> SUBSET Keys]
        BY DEF Init, SshInit
      <3>3. QED
        BY <2>1, <3>1, <3>2, NoOptionIsOne DEF Init, SshInit, SshTypeOK
    <2>3. live.password = "yes"
      BY <2>1 DEF Init, SshInit, Effective, NoOption
    <2>4. QED
      BY <2>1, <2>2, <2>3 DEF SshInv, PasswordGoes
  <1>2. BanInv
    BY NoneIsNoPorts
    DEF Init, Ban!BanInit, BanInv, Ban!BanTypeOK, Through, ReadIsListened, Ban!DropsAreBanned,
        Ban!PortSets
  <1>3. FloodInv
    BY DEF Init, Flood!FloodInit, FloodInv, Flood!Commands
  <1>4. DecoyInv
    BY DEF Init, Honey!DecoyInit, Honey!Rest, DecoyInv, Filled, Honey!OkIsOnItsPorts
  <1>5. ScanInv
    BY EmptySeq DEF Init, Flood!ScanInit, Flood!Nothing, ScanInv, Flood!ShownIsWhole
  <1>6. QED
    BY <1>1, <1>2, <1>3, <1>4, <1>5 DEF HostInv

LEMMA HostStep == HostInv /\ [Next]_hostVars => HostInv'
  <1> SUFFICES ASSUME HostInv, [Next]_hostVars PROVE HostInv'
    OBVIOUS
  <1>1. (SshNext \/ UNCHANGED sshVars) => SshInv'
    BY SshStep, PartsRest DEF HostInv
  <1>2. (Ban!BanNext \/ UNCHANGED banVars) => BanInv'
    BY BanStep, PartsRest DEF HostInv
  <1>3. (Flood!FloodNext \/ UNCHANGED floodVars) => FloodInv'
    BY FloodStep, PartsRest DEF HostInv
  <1>4. (Honey!DecoyNext \/ UNCHANGED decoyVars) => DecoyInv'
    BY DecoyStep, PartsRest DEF HostInv
  <1>5. (Flood!ScanNext \/ UNCHANGED scanVars) => ScanInv'
    BY ScanStep, PartsRest DEF HostInv
  <1>6. /\ SshNext \/ UNCHANGED sshVars
        /\ Ban!BanNext \/ UNCHANGED banVars
        /\ Flood!FloodNext \/ UNCHANGED floodVars
        /\ Honey!DecoyNext \/ UNCHANGED decoyVars
        /\ Flood!ScanNext \/ UNCHANGED scanVars
    BY DEF Next, hostVars
  <1>7. QED
    BY <1>1, <1>2, <1>3, <1>4, <1>5, <1>6 DEF HostInv

LEMMA HostAlways == Spec => []HostInv
  BY HostBegins, HostStep, PTL DEF Spec

\* Where password login is off and no account has a key, keys were taken away
\* after the last agent that was to switch it off had seen some: the bot alone
\* locks nobody out (ssh_agent.py:246).
THEOREM PasswordKeepsAKey == Spec => []KeyBehindNoPassword
  <1>1. HostInv => KeyBehindNoPassword
    BY DEF HostInv, SshInv, PasswordGoes, HasKey, KeyBehindNoPassword
  <1>2. QED
    BY <1>1, HostAlways, PTL

\* An address that is dropped is banned and, while the ports install() read are
\* those of sshd, still reaches sshd (fail2ban_agent.py:87, 104).
THEOREM BansAlwaysHold == Spec => []BansHold
  <1>1. HostInv => BansHold
    BY BansAreHeld DEF HostInv, BansHold
  <1>2. QED
    BY <1>1, HostAlways, PTL

\* An install of the honeypot that gets to its answer has its daemon told the
\* ports it was given (honeypot_agent.py:634).
THEOREM InstallIsOnItsPorts == Spec => []OkIsOnItsPorts
  <1>1. HostInv => OkIsOnItsPorts
    BY DEF HostInv, DecoyInv, OkIsOnItsPorts
  <1>2. QED
    BY <1>1, HostAlways, PTL

\* A scan ends in its time, and none that was cut short is shown, because the
\* panel waits no longer than an agent looks (dbg.py:24, freeturn_agent.py:838).
THEOREM ScansAlwaysHold == Spec => []ScansHold
  <1>1. HostInv => ScansHold
    <2>1. ScanInv => /\ Flood!ShownIsWhole
                     /\ DOMAIN probes = 1..Len(probes)
                     /\ \A i \in 1..Len(probes) : InTime(probes[i])
      BY LenProperties DEF ScanInv
    <2>2. QED
      BY <2>1 DEF HostInv, ScansHold, Flood!ScansHold, Flood!ScanEnds, InTime
  <1>2. QED
    BY <1>1, HostAlways, PTL

\* A load of the anti flood rules that fails puts back the rules the call found
\* (ddos_agent.py:533).
THEOREM FailedLoadPutsBack == Spec => FailedLoadRestores
  <1> DEFINE Restores == [stage = "load" /\ stage' = "idle" /\ ended' = "failed" =>
                            /\ seen # None => rules' = seen
                            /\ table' \in {None, seen}]_(Flood!floodVars)
  <1>1. HostInv /\ [Next]_hostVars => Restores
    <2> SUFFICES ASSUME HostInv, [Next]_hostVars PROVE Restores
      OBVIOUS
    <2>1. CASE Flood!FloodNext
      BY <2>1, FailedLoad DEF HostInv
    <2>2. CASE UNCHANGED floodVars
      BY <2>2 DEF floodVars, Flood!floodVars, Flood!host, Flood!screen
    <2>3. QED
      BY <2>1, <2>2 DEF Next, hostVars
  <1>2. QED
    BY <1>1, HostAlways, PTL DEF Spec, FailedLoadRestores, Flood!FailedLoadRestores

-----------------------------------------------------------------------------
(* The composition for the firewall of the relay.                           *)

LEMMA RelayAlways == Spec => []SafeInv
  <1>1. Init => SafeInv
    BY RelayBegins DEF Init, SafeInv
  <1>2. SafeInv /\ [Next]_hostVars => SafeInv'
    <2>1. SUFFICES ASSUME SafeInv, [Next]_hostVars PROVE SafeInv'
      OBVIOUS
    <2>2. Relay!GuardNext \/ UNCHANGED relayVars
      BY <2>1 DEF Next, hostVars
    <2>3. CASE Relay!Lost
      BY <2>2, <2>3, LostStays DEF SafeInv
    <2>4. CASE RelayInv /\ ~Relay!Lost'
      BY <2>2, <2>4, RelayStep, RelayRests DEF SafeInv
    <2>5. QED
      BY <2>1, <2>3, <2>4 DEF SafeInv
  <1>3. QED
    BY <1>1, <1>2, PTL DEF Spec

\* Whatever fails, is killed, repairs or boots: a service whose lines name no
\* number of the engine stays reachable at every moment, and a port narrowed
\* to the relays admits nobody else until the guard is asked for another mode
\* (freeturn_agent.py:1029, 1061, 1451).  Left out, as the code breaks it there:
\* ufw after a guard and a repair have run at once, and, for the narrowed port,
\* one whose listing failed a repair or which ufw accepts ahead of its rules.
THEOREM GuardAlwaysHolds == Spec => []GuardHolds
  <1>1. SafeInv => GuardHolds
    BY RelayHolds DEF GuardHolds, Relay!GuardHolds
  <1>2. QED
    BY <1>1, RelayAlways, PTL
=============================================================================
