------------------------------ MODULE XrayAgent ------------------------------
(***************************************************************************)
(* The root agent of the proxy core (Storage/remote/xray_agent.py): every  *)
(* call of the bot is one short-lived process that installs the core,      *)
(* writes config.json behind a test, keeps the previous file as            *)
(* config.json.bak and drives the systemd unit.  A call can be killed      *)
(* between any two of its steps (the time limit of BOT/shell.py), the core *)
(* can crash, and the host can reboot.                                     *)
(***************************************************************************)
CONSTANTS
  Agents,    \* agent processes that may run at the same time
  Configs,   \* payloads the bot can send
  Accepted,  \* the payloads that "xray run -test" accepts
  NoConf     \* no file, no process

ASSUME AgentConstants ==
  /\ Accepted \subseteq Configs
  /\ NoConf \notin Configs

VARIABLES
  core,     \* the binary: absent, partial while it is written, good
  conf,     \* config.json
  bak,      \* config.json.bak
  running,  \* the configuration the core process was started with
  enabled,  \* the unit is installed and enabled
  wanted,   \* systemd was last told to keep the service up
  pc,       \* the next step of each agent
  cmd,      \* its command
  arg,      \* the payload of its apply
  saved,    \* whether its backup_config() wrote the backup
  before,   \* history: config.json when the agent began
  reply     \* its answer to the bot

host == <<core, conf, bak, running, enabled, wanted>>
call == <<cmd, arg, saved, before>>
vars == <<core, conf, bak, running, enabled, wanted,
          pc, cmd, arg, saved, before, reply>>

Files == Configs \cup {NoConf}
Commands == {"apply", "install", "restart", "start", "stop", "uninstall", "purge"}
Steps == {"idle", "fetch", "unpack", "copy", "test", "backup", "write", "stop", "start",
          "verdict", "restore", "restop", "restart", "remove"}

TypeOK ==
  /\ core \in {"absent", "partial", "good"}
  /\ conf \in Files /\ bak \in Files /\ running \in Files
  /\ enabled \in BOOLEAN /\ wanted \in BOOLEAN
  /\ pc \in [Agents -> Steps]
  /\ cmd \in [Agents -> Commands]
  /\ arg \in [Agents -> Files]
  /\ saved \in [Agents -> BOOLEAN]
  /\ before \in [Agents -> Files]
  /\ reply \in [Agents -> {"none", "ok", "refused", "internal", "start_failed", "restored"}]
  /\ \A a \in Agents : cmd[a] = "apply" => arg[a] \in Configs
  /\ \A a \in Agents : pc[a] \in {"fetch", "unpack", "copy"} => cmd[a] \in {"apply", "install"}
  /\ \A a \in Agents : pc[a] \in {"test", "backup", "write"} => cmd[a] = "apply"

Init ==
  /\ core = "absent"
  /\ conf = NoConf /\ bak = NoConf /\ running = NoConf
  /\ enabled = FALSE /\ wanted = FALSE
  /\ pc = [a \in Agents |-> "idle"]
  /\ cmd = [a \in Agents |-> "stop"]
  /\ arg = [a \in Agents |-> NoConf]
  /\ saved = [a \in Agents |-> FALSE]
  /\ before = [a \in Agents |-> NoConf]
  /\ reply = [a \in Agents |-> "none"]

Step(a, from, to) == pc[a] = from /\ pc' = [pc EXCEPT ![a] = to]
Go(a, from, to) == Step(a, from, to) /\ UNCHANGED reply
Answer(a, from, word) ==
  /\ Step(a, from, "idle")
  /\ reply' = [reply EXCEPT ![a] = word]

-----------------------------------------------------------------------------
(* A command arrives.                                                      *)

Enter(a, c, payload, first) ==
  /\ Step(a, "idle", first)
  /\ cmd' = [cmd EXCEPT ![a] = c]
  /\ arg' = [arg EXCEPT ![a] = payload]
  /\ saved' = [saved EXCEPT ![a] = FALSE]
  /\ before' = [before EXCEPT ![a] = conf]
  /\ reply' = [reply EXCEPT ![a] = "none"]
  /\ UNCHANGED host

\* The bot never asks for an apply without a restart.
Apply(a, c) == Enter(a, "apply", c, IF core = "absent" THEN "fetch" ELSE "test")

Install(a) == Enter(a, "install", NoConf, "fetch")

Restart(a) == core # "absent" /\ conf # NoConf /\ Enter(a, "restart", NoConf, "stop")

Start(a) == core # "absent" /\ Enter(a, "start", NoConf, "start")

Stop(a) == Enter(a, "stop", NoConf, "stop")

Uninstall(a) == \E c \in {"uninstall", "purge"} : Enter(a, c, NoConf, "stop")

-----------------------------------------------------------------------------
(* install_core: download, check the digest, then overwrite the binary in  *)
(* place.                                                                  *)

\* With the core in place an install is over and an apply goes on.
Proceed(a, from) == IF cmd[a] = "install" THEN Answer(a, from, "ok")
                                          ELSE Go(a, from, "test")

\* The version may already be there, the download or its digest may fail.
Fetch(a) ==
  /\ \/ core = "good" /\ Proceed(a, "fetch")
     \/ Go(a, "fetch", "unpack")
     \/ Answer(a, "fetch", "refused")
  /\ UNCHANGED <<host, call>>

\* The file is truncated first; a running binary cannot be opened that way.
OpenCore(a) ==
  /\ \/ (running = NoConf \/ core = "absent") /\ Go(a, "unpack", "copy") /\ core' = "partial"
     \/ Answer(a, "unpack", "refused") /\ UNCHANGED core
  /\ UNCHANGED <<conf, bak, running, enabled, wanted, call>>

\* Broken off while the binary or one of the data files is written.
Copy(a) ==
  /\ \/ Proceed(a, "copy") /\ core' = "good"
     \/ Answer(a, "copy", "refused") /\ core' \in {core, "good"}
  /\ UNCHANGED <<conf, bak, running, enabled, wanted, call>>

-----------------------------------------------------------------------------
(* write_config.                                                           *)

\* What the core accepts in a scratch folder may replace config.json.
UntestedPasses(a) == TRUE
TestPasses(a) == core = "good" /\ arg[a] \in Accepted

Test(a) ==
  /\ \/ TestPasses(a) /\ Go(a, "test", "backup")
     \/ Answer(a, "test", "refused")
  /\ UNCHANGED <<host, call>>

\* A failure to write the backup is swallowed, and the old one stays.
Backup(a) ==
  /\ Go(a, "backup", "write")
  /\ \/ /\ conf # NoConf
        /\ bak' = conf
        /\ saved' = [saved EXCEPT ![a] = TRUE]
     \/ UNCHANGED <<bak, saved>>
  /\ UNCHANGED <<core, conf, running, enabled, wanted, cmd, arg, before>>

\* A file is replaced in one step, or not at all.
Write(a) ==
  /\ \/ Go(a, "write", "stop") /\ conf' = arg[a]
     \/ Answer(a, "write", "refused") /\ UNCHANGED conf
  /\ UNCHANGED <<core, bak, running, enabled, wanted, call>>

-----------------------------------------------------------------------------
(* The service.                                                            *)

\* systemctl stop: its exit code is not looked at, its time limit is.
StopCore(a) ==
  /\ \/ Go(a, "stop", CASE cmd[a] \in {"apply", "restart"} -> "start"
                        [] OTHER -> "remove")
     \/ Go(a, "restop", "restart")
     \/ Answer(a, "stop", "internal")
     \/ Answer(a, "restop", "internal")
  /\ \/ running' = NoConf /\ wanted' = FALSE
     \/ UNCHANGED <<running, wanted>>
  /\ UNCHANGED <<core, conf, bak, enabled, call>>

\* cmd_stop is over; cmd_uninstall disables the unit and may purge the files,
\* whose removal may fail one by one.
Remove(a) ==
  /\ \E word \in {"ok", "internal"} : Answer(a, "remove", word)
  /\ enabled' \in {enabled, enabled /\ cmd[a] = "stop"}
  /\ IF cmd[a] = "purge"
     THEN core' \in {core, "absent"} /\ conf' \in {conf, NoConf} /\ bak' \in {bak, NoConf}
     ELSE UNCHANGED <<core, conf, bak>>
  /\ UNCHANGED <<running, wanted, call>>

\* Type=simple: systemctl is content with a core that dies right away.
Started == IF core = "good" THEN conf ELSE NoConf

\* start_core: an error of systemctl, or the end of its time limit, leaves
\* the command at once.
StartCore(a) ==
  /\ enabled' \in {TRUE, enabled}
  /\ \/ /\ \/ cmd[a] = "apply" /\ Go(a, "start", "verdict")
           \/ cmd[a] # "apply" /\ Answer(a, "start", "ok")
           \/ Answer(a, "restart", "restored")
        /\ running' = Started
        /\ wanted' = TRUE
     \/ /\ \E word \in {"start_failed", "internal"} :
             Answer(a, "start", word) \/ Answer(a, "restart", word)
        /\ running' \in {NoConf, running, Started}
        /\ wanted' \in {TRUE, wanted}
  /\ UNCHANGED <<core, conf, bak, call>>

\* The service is down, or none of its ports opened within twelve seconds;
\* the look itself may fail.
ServiceUnasked == TRUE
ServiceUp == running # NoConf

Verdict(a) ==
  /\ \/ ServiceUp /\ Answer(a, "verdict", "ok")
     \/ Go(a, "verdict", "restore")
     \/ Answer(a, "verdict", "internal")
  /\ UNCHANGED <<host, call>>

\* Whatever config.json.bak holds goes back.
RestoreNothing(a) == conf
RestoredFile(a) == bak

Restore(a) ==
  /\ \/ bak # NoConf /\ Go(a, "restore", "restop") /\ conf' = RestoredFile(a)
     \/ Answer(a, "restore", "start_failed") /\ UNCHANGED conf
  /\ UNCHANGED <<core, bak, running, enabled, wanted, call>>

-----------------------------------------------------------------------------
(* The world around the agent.                                             *)

\* The time limit of the shell kills the agent where it stands.
Kill(a) ==
  /\ pc[a] # "idle"
  /\ pc' = [pc EXCEPT ![a] = "idle"]
  /\ UNCHANGED <<host, call, reply>>

Crash == running # NoConf /\ running' = NoConf /\ UNCHANGED <<core, conf, bak, enabled, wanted>>

SystemdRestarts ==
  /\ running = NoConf /\ wanted /\ core = "good"
  /\ running' = conf
  /\ UNCHANGED <<core, conf, bak, enabled, wanted>>

Reboot ==
  /\ running' = NoConf
  /\ wanted' = enabled
  /\ pc' = [a \in Agents |-> "idle"]
  /\ UNCHANGED <<core, conf, bak, enabled, call, reply>>

Next ==
  \/ \E a \in Agents :
       \/ \E c \in Configs : Apply(a, c)
       \/ Install(a) \/ Restart(a) \/ Start(a) \/ Stop(a) \/ Uninstall(a)
       \/ Fetch(a) \/ OpenCore(a) \/ Copy(a)
       \/ Test(a) \/ Backup(a) \/ Write(a)
       \/ StopCore(a) \/ Remove(a) \/ StartCore(a) \/ Verdict(a) \/ Restore(a)
       \/ Kill(a)
  \/ (Crash \/ SystemdRestarts) /\ UNCHANGED <<call, pc, reply>>
  \/ Reboot

Spec == Init /\ [][Next]_vars

-----------------------------------------------------------------------------
(* Properties.                                                             *)

\* Whatever is killed, crashes or overlaps, config.json and its backup only
\* ever hold files the core has accepted.
FilesAreTested == conf \in Accepted \cup {NoConf} /\ bak \in Accepted \cup {NoConf}

\* The rollback puts back what was there when the apply began, given that
\* its own backup was written.
RestoredIsPrevious ==
  [][\A a \in Agents :
       pc[a] = "restore" /\ pc'[a] = "restop" /\ saved[a] => conf' = before[a]]_vars

\* An apply that answers ok leaves the core running the payload it sent.
OkMeansLive ==
  [][\A a \in Agents :
       cmd[a] = "apply" /\ reply[a] # "ok" /\ reply'[a] = "ok"
         => conf = arg[a] /\ running = arg[a]]_vars

\* "A failed core start rolls back": the answer start_failed comes with the
\* previous configuration on disk.
FailedStartRollsBack ==
  \A a \in Agents :
    cmd[a] = "apply" /\ reply[a] = "start_failed" /\ saved[a] => conf = before[a]
=============================================================================
