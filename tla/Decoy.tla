--------------------------------- MODULE Decoy --------------------------------
(***************************************************************************)
(* The commands of the honeypot agent (install, start, stop, restart,      *)
(* remove and selfcheck of Storage/remote/honeypot_agent.py), the daemon   *)
(* they put on the decoy ports, and the buttons of DebugPanel that call    *)
(* them (BOT/dbg.py).  The bot hands the agent its source on the command   *)
(* line (shell.py), where a script has no file of its own; an operator may *)
(* run the file.  What a connection meets is HoneypotGuard.                *)
(***************************************************************************)
EXTENDS Naturals, FiniteSets

CONSTANTS
  Decoys,      \* ports somebody may put a decoy on
  Defaults,    \* DEFAULT_PORTS
  MaxSlips,   \* bound of the model: systemctl calls and writes that fail
  MaxOrders, \* bound of the model: commands
  Down         \* no daemon, no file, no command

DecoyConstants ==
  /\ IsFiniteSet(Decoys) /\ Defaults \subseteq Decoys /\ Defaults # {}
  /\ \A ports \in SUBSET Decoys : ports # Down
  /\ MaxSlips \in Nat /\ MaxOrders \in Nat

VARIABLES
  trap,      \* honeypot.json: its ports, {} while it is written, Down
  trapUnit,  \* obhod-honeypot.service: a file, enabled
  lure,    \* the ports the running daemon was told and those it has, or Down
  kept,      \* systemd runs the daemon again when it ends
  services,  \* decoy ports something real listens on
  order,     \* the command at work
  shown,     \* what the screen of the honeypot says
  slips,
  orders

decoyVars == <<trap, trapUnit, lure, kept, services, order, shown, slips, orders>>

Rest == [at |-> "rest"]
Halted == [told |-> Down, has |-> {}]

DecoyInit ==
  /\ trap = Down /\ trapUnit = [file |-> FALSE, enabled |-> FALSE]
  /\ lure = Halted /\ kept = FALSE
  /\ services \in SUBSET Decoys
  /\ order = Rest /\ shown = "nothing" /\ slips = 0 /\ orders = 0

\* port_open, whoever listens.
Answers(p) == p \in services \cup lure.has

\* read_config: a file that is not there or not whole is the default ports.
Told == IF trap \in {Down, {}} THEN Defaults ELSE trap

\* Server.bind: a port that cannot be had is a line in the log.
Bound == [told |-> Told, has |-> Told \ services]

-----------------------------------------------------------------------------
(* Commands.                                                                *)

\* By a button, without ports, or by hand.
Order(cmd, by, ports) ==
  /\ order = Rest /\ orders < MaxOrders
  /\ orders' = orders + 1
  /\ order' = [at |-> CASE cmd = "install" -> "check"
                        [] cmd = "remove" -> "disable"
                        [] OTHER -> "control",
               cmd |-> cmd, by |-> by, ports |-> ports]
  /\ UNCHANGED <<trap, trapUnit, lure, kept, services, shown, slips>>

Step(at) == order' = [order EXCEPT !.at = at]

\* The agent answers without the number of the protocol, so the bot takes every
\* answer for an error of the script, and asks for no state after one.
Answer ==
  /\ order' = Rest
  /\ shown' = IF order.by = "button" THEN "error" ELSE shown

Faulty == slips < MaxSlips /\ slips' = slips + 1

-----------------------------------------------------------------------------
(* install.                                                                 *)

\* Every port is looked at, the daemon's own ones too.
Check ==
  /\ order.at = "check"
  /\ IF \E p \in order.ports : Answers(p) THEN Answer ELSE Step("open") /\ UNCHANGED shown
  /\ UNCHANGED <<trap, trapUnit, lure, kept, services, slips, orders>>

\* write_config: the file is emptied, then filled.
OpenTrap ==
  /\ order.at = "open"
  /\ \/ trap' = {} /\ Step("fill") /\ UNCHANGED <<slips, shown>>
     \/ Faulty /\ Answer /\ UNCHANGED trap
  /\ UNCHANGED <<trapUnit, lure, kept, services, orders>>

FillTrap ==
  /\ order.at = "fill"
  /\ \/ trap' = order.ports /\ Step("unit") /\ UNCHANGED <<slips, shown>>
     \/ Faulty /\ Answer /\ UNCHANGED trap
  /\ UNCHANGED <<trapUnit, lure, kept, services, orders>>

\* unit_body names the file of the agent.  Without one the command ends here.
WriteUnit ==
  /\ order.at = "unit"
  /\ \/ /\ order.by = "hand"
        /\ trapUnit' = [trapUnit EXCEPT !.file = TRUE]
        /\ Step("enable") /\ UNCHANGED <<slips, shown>>
     \/ order.by = "button" /\ Answer /\ UNCHANGED <<trapUnit, slips>>
     \/ Faulty /\ Answer /\ UNCHANGED trapUnit
  /\ UNCHANGED <<trap, lure, kept, services, orders>>

\* The exit code of systemctl enable is not looked at.
Enable ==
  /\ order.at = "enable"
  /\ \/ trapUnit' = [trapUnit EXCEPT !.enabled = TRUE] /\ UNCHANGED slips
     \/ Faulty /\ UNCHANGED trapUnit
  /\ Step("restart")
  /\ UNCHANGED <<trap, lure, kept, services, shown, orders>>

\* A variation: a daemon that runs is not started again.
StartsOnly ==
  /\ order.at = "restart"
  /\ \/ /\ lure' = IF lure = Halted THEN Bound ELSE lure
        /\ kept' = TRUE /\ Step("state") /\ UNCHANGED <<slips, shown>>
     \/ Faulty /\ lure' \in {lure, Halted} /\ kept' = FALSE /\ Answer
  /\ UNCHANGED <<trap, trapUnit, services, orders>>

Restart ==
  /\ order.at = "restart"
  /\ \/ lure' = Bound /\ kept' = TRUE /\ Step("state") /\ UNCHANGED <<slips, shown>>
     \/ Faulty /\ lure' \in {lure, Halted} /\ kept' = FALSE /\ Answer
  /\ UNCHANGED <<trap, trapUnit, services, orders>>

State ==
  /\ order.at = "state" /\ Answer
  /\ UNCHANGED <<trap, trapUnit, lure, kept, services, slips, orders>>

-----------------------------------------------------------------------------
(* control, remove, selfcheck.                                              *)

\* Without a unit systemctl fails; a stop that fails is answered like one that
\* did not.
Control ==
  /\ order.at = "control" /\ order.cmd \in {"start", "stop", "restart"}
  /\ \/ /\ order.cmd = "stop"
        /\ lure' = Halted /\ kept' = FALSE /\ UNCHANGED slips
     \/ /\ order.cmd # "stop" /\ trapUnit.file
        /\ lure' = IF order.cmd = "start" /\ lure # Halted THEN lure ELSE Bound
        /\ kept' = TRUE /\ UNCHANGED slips
     \/ /\ order.cmd # "stop" /\ ~trapUnit.file
        /\ UNCHANGED <<lure, kept, slips>>
     \/ Faulty /\ UNCHANGED <<lure, kept>>
  /\ Answer
  /\ UNCHANGED <<trap, trapUnit, services, orders>>

\* Disabling and stopping may fail unnoticed.
Disable ==
  /\ order.at = "disable"
  /\ \/ trapUnit' = [trapUnit EXCEPT !.enabled = FALSE] /\ UNCHANGED slips
     \/ Faulty /\ UNCHANGED trapUnit
  /\ Step("stop")
  /\ UNCHANGED <<trap, lure, kept, services, shown, orders>>

StopDaemon ==
  /\ order.at = "stop"
  /\ \/ lure' = Halted /\ kept' = FALSE /\ UNCHANGED slips
     \/ Faulty /\ UNCHANGED <<lure, kept>>
  /\ Step("unlink")
  /\ UNCHANGED <<trap, trapUnit, services, shown, orders>>

Unlink ==
  /\ order.at = "unlink"
  /\ \/ trapUnit' = [trapUnit EXCEPT !.file = FALSE] /\ trap' = Down /\ UNCHANGED slips
     \/ Faulty /\ trapUnit' = [trapUnit EXCEPT !.file = FALSE] /\ UNCHANGED trap
  /\ Answer
  /\ UNCHANGED <<lure, kept, services, orders>>

\* A server of its own on the first port, for a moment; nothing is left of it.
Selfcheck ==
  /\ order.at = "control" /\ order.cmd = "selfcheck" /\ Answer
  /\ UNCHANGED <<trap, trapUnit, lure, kept, services, slips, orders>>

-----------------------------------------------------------------------------
(* Around the agent.                                                        *)

\* A real service comes to a port that is free, or leaves.
Comes(p) ==
  /\ p \notin lure.has
  /\ services' = IF p \in services THEN services \ {p} ELSE services \cup {p}
  /\ UNCHANGED <<trap, trapUnit, lure, kept, order, shown, slips, orders>>

\* The daemon ends and is started again, with the file there is now.
Respawn ==
  /\ kept
  /\ lure' = Bound
  /\ UNCHANGED <<trap, trapUnit, kept, services, order, shown, slips, orders>>

\* Reboot of the host.
Boot ==
  /\ Faulty
  /\ LET runs == trapUnit.file /\ trapUnit.enabled IN
       /\ kept' = runs
       /\ lure' = IF runs THEN Bound ELSE Halted
  /\ order' = Rest /\ shown' = "nothing"
  /\ UNCHANGED <<trap, trapUnit, services, orders>>

Buttons == {"install", "start", "stop", "remove", "selfcheck"}

DecoyNext ==
  \/ \E cmd \in Buttons : Order(cmd, "button", Defaults)
  \/ \E cmd \in Buttons \cup {"restart"}, ports \in (SUBSET Decoys) \ {{}} :
       (cmd = "install" \/ ports = Defaults) /\ Order(cmd, "hand", ports)
  \/ Check \/ OpenTrap \/ FillTrap \/ WriteUnit \/ Enable \/ Restart \/ State
  \/ Control \/ Disable \/ StopDaemon \/ Unlink \/ Selfcheck
  \/ (\E p \in Decoys : Comes(p)) \/ Respawn \/ Boot

DecoyTypeOK ==
  /\ trap \in SUBSET Decoys \cup {Down}
  /\ trapUnit \in [file : BOOLEAN, enabled : BOOLEAN]
  /\ lure.has \subseteq Decoys /\ kept \in BOOLEAN
  /\ services \subseteq Decoys
  /\ shown \in {"nothing", "error"}
  /\ slips \in 0..MaxSlips /\ orders \in 0..MaxOrders

-----------------------------------------------------------------------------
(* Properties.                                                              *)

\* An install that gets as far as its answer has the daemon told the ports it was
\* given, whatever daemon was running on others, whatever file was left half
\* written and whatever failed before (honeypot_agent.py:634-661).
OkIsOnItsPorts ==
  order.at = "state" => lure.told = order.ports

===============================================================================
