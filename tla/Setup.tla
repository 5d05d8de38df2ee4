------------------------------- MODULE Setup -------------------------------
(* How the program comes to a host, in four parts: the install script       *)
(* (src/Storage/obhod-install.sh) as one job on the disk, what each command *)
(* checks, stops, copies, writes and removes, in the order in which it      *)
(* does, and where it dies; the setup wizard (src/Storage/obhod_setup.py)   *)
(* that runs it, with the screens it asks its way through, the plan they    *)
(* build, the configuration it writes and the command it gives to the       *)
(* script; the keyboard of that wizard; and the bootstrap of the bot        *)
(* (src/BOT/bootstrap.py).                                                  *)
(*                                                                          *)
(* A path is one of three places, credentials are a kind (missing,          *)
(* malformed, or one of several good sets), and the lines of the env file   *)
(* the script does not own are one flag.  Port numbers are left out.        *)
(* A menu is the choice it returns, with "no choice" for Esc.  MaxBack      *)
(* bounds how often the review is left for the options again.               *)
EXTENDS Naturals, Sequences, SequencesExt

VARIABLES
  disk,   \* what is on the host
  script     \* the running or last command of the script, NoJob before the first

Places == {"system", "home", "custom"}
Paths == {"prefix", "env", "state"}
NoJob == [cmd |-> "none"]
NoEnv == [creds |-> "none", extra |-> FALSE]
Good == {"old", "typed", "again"}
Sources == Places \cup {"tree"}

Disks == [bot : [Places -> {"none", "old", "new"}],
          env : [Places -> [creds : Good \cup {"none", "bad"}, extra : BOOLEAN]],
          state : [Places -> {"none", "good", "corrupt"}],
          unit : BOOLEAN, up : BOOLEAN, cores : BOOLEAN]

\* --dev moves every path under the home of the user, whatever was asked for.
Place(j, d) == IF j.dev THEN "home" ELSE j.at[d]
Here(d) == Place(script, d)

Fresh == [bot |-> [p \in Places |-> "none"], env |-> [p \in Places |-> NoEnv],
          state |-> [p \in Places |-> "none"],
          unit |-> FALSE, up |-> FALSE, cores |-> FALSE]

\* A host where the program is installed at a place, with these credentials.
Installed(p, creds, st) ==
  [bot |-> [Fresh.bot EXCEPT ![p] = "old"],
   env |-> [Fresh.env EXCEPT ![p] = [creds |-> creds, extra |-> TRUE]],
   state |-> [Fresh.state EXCEPT ![p] = st],
   unit |-> p = "system", up |-> p = "system" /\ creds \in Good, cores |-> TRUE]

\* A child without root refuses everything that is not --dev.
First(cmd) == CASE cmd = "reinstall" -> "purge"
                [] cmd \in {"install", "update"} -> "environment"
                [] OTHER -> cmd
Command(cmd, at, dev, purge, tty, from) ==
  [cmd |-> cmd, step |-> First(cmd), at |-> at, dev |-> dev, purge |-> purge,
   tty |-> tty, from |-> from, creds |-> "none"]

Running == script # NoJob /\ script.step \notin {"done", "dead"}
At(s) == script # NoJob /\ script.step = s
To(s) == script' = [script EXCEPT !.step = s]
Die == To("dead")

\* A variation: the flag is not looked at.
WipedAll(d) ==
  [d EXCEPT !.unit = FALSE, !.up = FALSE, !.bot[Here("prefix")] = "none",
            !.env[Here("env")] = NoEnv, !.state[Here("state")] = "none"]

\* purge_install: the unit and the prefix go, with --purge-all the
\* configuration and the state as well.
Wiped(d) ==
  [d EXCEPT !.unit = IF script.dev THEN @ ELSE FALSE, !.up = IF script.dev THEN @ ELSE FALSE,
            !.bot[Here("prefix")] = "none",
            !.env[Here("env")] = IF script.purge THEN NoEnv ELSE @,
            !.state[Here("state")] = IF script.purge THEN "none" ELSE @]

Purge == At("purge") /\ disk' = Wiped(disk) /\ To("environment")

\* heal_state_files moves a state file that does not parse out of the way.
Healed(d) == [d EXCEPT !.state[Here("state")] = "good"]

\* check_python and ensure_private_dir may refuse.
Environment ==
  /\ At("environment")
  /\ \/ Die /\ UNCHANGED disk
     \/ IF script.cmd = "update" THEN disk' = Healed(disk) /\ To("payload")
        ELSE /\ To("credentials")
             /\ disk' = [disk EXCEPT !.state[Here("state")] = IF @ = "none" THEN "good" ELSE @]

\* read_value under --yes: what the file holds, else what is typed at the
\* terminal, and with no terminal the script dies.
Values ==
  LET found == disk.env[Here("env")].creds
  IN  IF found # "none" THEN {found} ELSE IF script.tty THEN {"none", "bad", "again"} ELSE {}

Accepted == Values \cap Good

Credentials ==
  /\ At("credentials")
  /\ \/ \E c \in Accepted : script' = [script EXCEPT !.step = "stop", !.creds = c]
     \/ (Values = {} \/ ~ (Values \subseteq Good)) /\ Die
  /\ UNCHANGED disk

Exists == disk.bot[Here("prefix")] # "none" \/ disk.env[Here("env")] # NoEnv

\* stop_before_rebuild, then heal_system.
Stop ==
  /\ At("stop")
  /\ disk' = [Healed(disk) EXCEPT !.up = IF Exists /\ ~ script.dev THEN FALSE ELSE @]
  /\ To("payload")

\* install_payload removes the old tree before it copies: a script that runs
\* from the tree it replaces has removed what it was going to copy.
Payload ==
  /\ At("payload")
  /\ IF script.from = Here("prefix")
     THEN disk' = [disk EXCEPT !.bot[Here("prefix")] = "none"] /\ Die
     ELSE disk' = [disk EXCEPT !.bot[Here("prefix")] = "new"] /\ To("runtime")

Runtime ==
  /\ At("runtime")
  /\ Die \/ To(IF script.cmd = "update" THEN "service" ELSE "config")
  /\ UNCHANGED disk

\* write_env keeps the lines it does not manage.
Config ==
  /\ At("config")
  /\ disk' = [disk EXCEPT !.env[Here("env")].creds = script.creds]
  /\ To("service")

\* write_service; a unit whose env file is missing does not start.
Service ==
  /\ At("service")
  /\ IF script.dev THEN UNCHANGED disk /\ To("done")
     ELSE LET e == disk.env[Here("env")]
          IN  /\ disk' = [disk EXCEPT !.unit = TRUE, !.up = e.creds \in Good]
              /\ IF e = NoEnv THEN Die ELSE To("done")

Uninstall ==
  /\ At("uninstall")
  /\ disk' = [disk EXCEPT !.unit = IF script.dev THEN @ ELSE FALSE,
                          !.up = IF script.dev THEN @ ELSE FALSE, !.bot[Here("prefix")] = "none"]
  /\ To("done")

Nuke ==
  /\ At("nuke")
  /\ disk' = [disk EXCEPT !.bot[Here("prefix")] = "none", !.env[Here("env")] = NoEnv,
                          !.state[Here("state")] = "none",
                          !.unit = @ /\ script.dev, !.up = @ /\ script.dev, !.cores = @ /\ script.dev]
  /\ To("done")

\* cmd_service and cmd_status: systemctl on the unit that is there.
Control ==
  \/ At("status") /\ UNCHANGED disk /\ To("done")
  \/ /\ At("stop_unit") \/ At("start_unit")
     /\ IF disk.unit
        THEN /\ To("done")
             /\ disk' = [disk EXCEPT !.up = At("start_unit")
                                            /\ disk.env[Here("env")].creds \in Good]
        ELSE Die /\ UNCHANGED disk

InstallerNext ==
  \/ Purge \/ Environment \/ Credentials \/ Stop \/ Payload
  \/ Runtime \/ Config \/ Service \/ Uninstall \/ Nuke \/ Control

-----------------------------------------------------------------------------
(* The wizard.                                                              *)


CONSTANTS MaxBack

SetupConstants == MaxBack \in Nat

VARIABLES
  screen, \* where the conversation is
  plan,   \* the fields of the Setup object
  host,   \* what the wizard cannot change: who runs it, from where, in what
  was,    \* the disk when it started
  said,   \* what the last panel tells
  backs   \* how often the review was left for the options

setupVars == <<screen, plan, host, was, said, backs, disk, script>>
Talk == <<host, was, backs>>

Hosts == [root : BOOLEAN, tty : BOOLEAN, from : Sources]

\* The wizard reached through the command of an install has the paths of
\* that install from its environment, else the defaults of the system.
SetupInit ==
  /\ screen = "menu" /\ said = "" /\ backs = 0 /\ script = NoJob
  /\ host \in Hosts
  /\ disk \in {Fresh, Installed("system", "old", "good"), Installed("system", "bad", "corrupt"),
               Installed("home", "old", "good")}
  /\ host.from # "tree" => disk.bot[host.from] # "none"
  /\ was = disk
  /\ plan = [action |-> "install", quick |-> TRUE, dry |-> FALSE, dev |-> FALSE,
             keep |-> TRUE, purge |-> FALSE, creds |-> "none",
             at |-> [d \in Paths |-> IF host.from = "home" THEN "home" ELSE "system"]]

On(s) == screen = s
Then(s) == screen' = s /\ UNCHANGED said
End(word) == screen' = "end" /\ said' = word
Idle == UNCHANGED <<disk, script>>

\* ask_action: a menu without a terminal returns its default.
AskAction ==
  /\ On("menu") /\ Idle /\ UNCHANGED Talk
  /\ \/ host.tty /\ End("cancelled") /\ UNCHANGED plan
     \/ \E a \in IF host.tty THEN {"install", "update", "status", "stop_unit", "start_unit",
                                   "uninstall", "nuke"} ELSE {"install"} :
          /\ plan' = [plan EXCEPT !.action = a]
          /\ Then(CASE a \in {"install", "update"} -> "checks"
                    [] a = "uninstall" -> "mode"
                    [] a = "nuke" -> "confirm"
                    [] OTHER -> "run")
     \/ /\ host.tty /\ plan' = [plan EXCEPT !.action = "install", !.quick = FALSE]
        /\ Then("options")

AskUninstallMode ==
  /\ On("mode") /\ Idle /\ UNCHANGED Talk
  /\ \/ End("cancelled") /\ UNCHANGED plan
     \/ \E b \in BOOLEAN : plan' = [plan EXCEPT !.purge = b] /\ Then("checks")

ConfirmNuke ==
  /\ On("confirm") /\ Idle /\ UNCHANGED Talk
  /\ \/ End("cancelled") /\ UNCHANGED plan
     \/ \E b \in BOOLEAN : plan' = [plan EXCEPT !.purge = TRUE, !.dry = @ \/ b] /\ Then("checks")

\* apply_dev_defaults swaps a path only when it is the other default.
Moved(at, dev) ==
  [d \in Paths |-> CASE dev /\ at[d] = "system" -> "home"
                     [] ~ dev /\ at[d] = "home" -> "system"
                     [] OTHER -> at[d]]

AskOptions ==
  /\ On("options") /\ Idle /\ UNCHANGED Talk
  /\ \/ End("cancelled") /\ UNCHANGED plan
     \/ \E dry, dev, keep, purge, anew \in BOOLEAN :
          /\ plan' = [plan EXCEPT
                        !.dry = dry, !.dev = dev, !.purge = purge, !.keep = keep /\ ~ purge,
                        !.at = IF dev = plan.dev THEN @ ELSE Moved(@, dev),
                        !.action = IF anew \/ purge THEN "reinstall" ELSE "install"]
          /\ Then("paths")

AskPaths ==
  /\ On("paths") /\ Idle /\ UNCHANGED Talk
  /\ \/ End("cancelled") /\ UNCHANGED plan
     \/ Then("checks") /\ UNCHANGED plan
     \/ \E d \in Paths : plan' = [plan EXCEPT !.at[d] = "custom"] /\ Then("checks")

\* run_checks: the rights are checked always, the interpreter for what
\* builds; the mirrors only warn.  A dry run asks for no rights.
MayRun == plan.dry \/ plan.dev \/ host.root

Real == ~ plan.dry

RunChecks ==
  /\ On("checks") /\ Idle /\ UNCHANGED <<Talk, plan>>
  /\ \/ /\ ~ MayRun \/ plan.action \notin {"uninstall", "nuke"}
        /\ End("stopped")
     \/ /\ MayRun
        /\ CASE plan.action \in {"install", "update", "reinstall"} -> Then("credentials")
             [] plan.action \in {"uninstall", "nuke"} /\ Real -> Then("run")
             [] OTHER -> End("preview")

OnFile == disk.env[plan.at["env"]].creds

\* read_credentials: what the file holds, else what was read before.
Known == IF ~ plan.purge /\ OnFile # "none" THEN OnFile
         ELSE IF plan.creds = "none" /\ plan.dry /\ ~ host.tty THEN "typed" ELSE plan.creds

ReadCredentials ==
  /\ On("credentials") /\ Idle /\ UNCHANGED Talk
  /\ IF plan.action = "update" THEN Then("review") /\ UNCHANGED plan
     ELSE \/ /\ Known \in Good /\ (plan.keep \/ ~ host.tty)
             /\ plan' = [plan EXCEPT !.creds = Known] /\ Then("review")
          \/ /\ Known \notin Good /\ ~ host.tty
             /\ plan' = [plan EXCEPT !.creds = Known] /\ End("stopped")
          \/ /\ ~ (Known \in Good /\ plan.keep) /\ host.tty
             /\ \/ \E c \in {Known, "typed"} \cap Good :
                     plan' = [plan EXCEPT !.creds = c] /\ Then("review")
                \/ End("cancelled") /\ UNCHANGED plan

\* review and the end of the loop in run; back forgets that it was quick.
Review ==
  /\ On("review") /\ Idle /\ UNCHANGED <<host, was>>
  /\ \/ host.tty /\ End("cancelled") /\ UNCHANGED <<plan, backs>>
     \/ /\ host.tty /\ backs < MaxBack
        /\ plan' = [plan EXCEPT !.quick = FALSE] /\ backs' = backs + 1 /\ Then("options")
     \/ /\ UNCHANGED <<plan, backs>>
        /\ IF Real THEN Then("config") ELSE End("preview")

Kept == disk.env[plan.at["env"]].extra /\ ~ plan.purge

Written(d) ==
  IF plan.action \in {"install", "reinstall"}
  THEN [d EXCEPT !.env[plan.at["env"]] = [creds |-> plan.creds, extra |-> Kept]] ELSE d

\* write_env_file: before the script runs, in one os.replace, where the plan
\* says and not where --dev will look.
WriteEnvFile ==
  /\ On("config") /\ UNCHANGED <<Talk, plan, script>>
  /\ \/ disk' = Written(disk) /\ Then("run")
     \/ plan.action # "update" /\ UNCHANGED disk /\ End("stopped")

\* run_installer: status and service skip the checks of the wizard.
Start ==
  /\ On("run") /\ script = NoJob /\ UNCHANGED <<Talk, plan, screen, said, disk>>
  /\ script' = Command(plan.action, plan.at, plan.dev,
                    plan.purge /\ plan.action = "reinstall", host.tty, host.from)

InstallerStep == On("run") /\ InstallerNext /\ UNCHANGED <<screen, plan, host, was, said, backs>>

\* A variation: what the script keeps goes with every uninstall.
PurgedAlways(d) ==
  IF plan.action = "uninstall"
  THEN [d EXCEPT !.state[plan.at["state"]] = "none", !.env[plan.at["env"]] = NoEnv] ELSE d

\* After an uninstall the wizard itself removes what the script keeps.
Purged(d) ==
  IF plan.action = "uninstall" /\ plan.purge
  THEN [d EXCEPT !.state[plan.at["state"]] = "none", !.env[plan.at["env"]] = NoEnv] ELSE d

\* finish, by the code of the script.
Finish ==
  /\ On("run") /\ script # NoJob /\ ~ Running /\ UNCHANGED <<Talk, plan, script>>
  /\ IF script.step = "dead" THEN UNCHANGED disk /\ End("stopped")
     ELSE /\ disk' = Purged(disk)
          /\ End(CASE plan.dry -> "preview"
                   [] Real /\ plan.action \in {"install", "update", "reinstall"} -> "ready"
                   [] Real /\ plan.action \in {"nuke", "uninstall"} -> "removed"
                   [] OTHER -> "finished")

\* Ctrl-C reaches the wizard and the script, which share the terminal.
Interrupt ==
  /\ host.tty /\ ~ On("end") /\ End("interrupted") /\ UNCHANGED <<Talk, plan, disk, script>>

SetupNext ==
  \/ AskAction \/ AskUninstallMode \/ ConfirmNuke \/ AskOptions \/ AskPaths \/ RunChecks
  \/ ReadCredentials \/ Review \/ WriteEnvFile \/ Start \/ InstallerStep \/ Finish \/ Interrupt

-----------------------------------------------------------------------------
SetupTypeOK ==
  /\ disk \in Disks
  /\ screen \in {"menu", "mode", "confirm", "options", "paths", "checks", "credentials",
                 "review", "config", "run", "end"}
  /\ plan.at \in [Paths -> Places] /\ plan.creds \in Good \cup {"none", "bad"}
  /\ said \in {"", "cancelled", "stopped", "preview", "ready", "removed", "finished", "interrupted"}

\* "setup was cancelled, nothing on the system was modified" and "dry run
\* completed with zero changes on disk" (obhod_setup.py:2161, :2191) are true
\* of every way the conversation can come to those words, through the loop
\* of the review and the purge that a wipe preview leaves switched on.
WordsAreTrue == said \in {"cancelled", "preview"} => disk = was

\* Credentials that were good and a state that was there survive every run,
\* whether it ends, dies or is interrupted, unless the plan said purge or
\* wipe: what an uninstall, an update and a rebuild promise to keep.
NothingLostUnasked ==
  ~ plan.purge =>
    \A p \in Places : /\ was.env[p].creds \in Good => disk.env[p].creds \in Good
                      /\ was.state[p] = "good" => disk.state[p] = "good"

\* "OBHOD is installed, verified, and ready" (obhod_setup.py:2180) is said of
\* a new tree, and after an install of a configuration that the bot can read,
\* at the place where the script put the tree.
ReadyIsReady ==
  said = "ready" =>
    /\ disk.bot[Here("prefix")] = "new"
    /\ plan.action # "update" => disk.env[Here("env")].creds \in Good

\* What the wizard says is so, and it takes nothing away that it was not asked to.
WizardIsTrue == WordsAreTrue /\ ReadyIsReady /\ NothingLostUnasked

-----------------------------------------------------------------------------
(* The keyboard of the wizard: bytes that arrive in pieces become keys      *)
(* (KeyReader), and keys fill the fields of an editor (FieldEditor).  A     *)
(* byte is a class of bytes, a value of a field is the verdict of its       *)
(* check.  MaxKeys bounds the keys that are pressed.                        *)
CONSTANTS MaxKeys

FormsConstants == MaxKeys \in Nat

VARIABLES
  pressed, \* the keys that were pressed, as names
  wire,    \* their bytes that have not arrived
  buf,     \* the bytes that have arrived and were not read
  read,    \* the keys the reader made of them
  fields,  \* the fields of the editor: value and whether it is a secret
  cursor,  \* the field the cursor is on
  draft,   \* what is being typed, NoDraft outside of editing
  outcome  \* what the editor returned

readerVars == <<pressed, wire, buf, read>>
editorVars == <<fields, cursor, draft, outcome>>
formsVars == <<pressed, wire, buf, read, fields, cursor, draft, outcome>>

NoDraft == "none"
Verdicts == {"", "good", "bad"}

\* The bytes a terminal sends for a key.
Sent == [up |-> <<"ESC", "[", "A">>, up_app |-> <<"ESC", "O", "A">>,
         delete |-> <<"ESC", "[", "3", "~">>, enter |-> <<"CR">>, enter_crlf |-> <<"CR", "LF">>,
         letter |-> <<"q">>, accent |-> <<"LEAD", "TAIL">>, space |-> <<"SP">>,
         esc |-> <<"ESC">>]
Name == [k \in DOMAIN Sent |->
           CASE k = "up_app" -> "up" [] k = "enter_crlf" -> "enter" [] OTHER -> k]

\* Escape is told from the start of a sequence by the pause after it, so it
\* is pressed last.
Streams == {s \in UNION {[1..n -> DOMAIN Sent] : n \in 1..MaxKeys} :
              \A i \in 1..Len(s) : s[i] = "esc" => i = Len(s)}

\* The bytes of the last n keys of a stream, for every n: those of the first
\* of the n, and then those of the others.
BytesOf(s) ==
  LET last[n \in 0..Len(s)] ==
        IF n = 0 THEN <<>> ELSE Sent[s[Len(s) - n + 1]] \o last[n - 1]
  IN  last

Blanks == [1..2 -> [value : Verdicts, secret : BOOLEAN]]

FormsStart(streams, blanks) ==
  /\ pressed \in streams
  /\ wire = BytesOf(pressed)[Len(pressed)]
  /\ buf = <<>> /\ read = <<>>
  /\ fields \in blanks
  /\ cursor = 1 /\ draft = NoDraft /\ outcome = "asking"

FormsInit == FormsStart(Streams, Blanks)

\* _map_csi and _parse_ss3.
Final(b) == CASE b = "A" -> "up" [] b = "~" -> "delete" [] OTHER -> "noop"

\* _parse_csi: parameters, then one final byte; any other byte ends it.
Csi(b) ==
  LET ends == {i \in 3..Len(b) : b[i] # "3"}
      i == CHOOSE i \in ends : \A j \in ends : i <= j
  IN  IF ends = {} THEN [key |-> "wait", used |-> 0]
      ELSE IF b[i] \in {"A", "~", "q", "O", "["} THEN [key |-> Final(b[i]), used |-> i]
      ELSE [key |-> "noop", used |-> i - 1]

Ss3(b) ==
  IF Len(b) < 3 THEN [key |-> "wait", used |-> 0] ELSE [key |-> Final(b[3]), used |-> 3]

\* Escape: a sequence, or itself when nothing follows or something else does.
Escape(b) ==
  IF Len(b) = 1 THEN [key |-> "wait", used |-> 0]
  ELSE CASE b[2] = "[" -> Csi(b)
         [] b[2] = "O" -> Ss3(b)
         [] OTHER -> [key |-> "esc", used |-> 2]

\* A variation: the line feed of a CRLF is left for the next read.
EnterOnly(b) == [key |-> "enter", used |-> 1]

\* A carriage return swallows the line feed that follows it at once.
Enter(b) ==
  IF Len(b) = 1 THEN [key |-> "wait", used |-> 0]
  ELSE [key |-> "enter", used |-> IF b[2] = "LF" THEN 2 ELSE 1]

\* What read returns for the bytes in hand, "wait" where it asks for more.
Parsed(b) ==
  CASE b[1] = "ESC" -> Escape(b)
    [] b[1] = "CR" -> Enter(b)
    [] b[1] = "LF" -> [key |-> "enter", used |-> 1]
    [] b[1] = "SP" -> [key |-> "space", used |-> 1]
    [] b[1] = "LEAD" -> IF Len(b) < 2 THEN [key |-> "wait", used |-> 0]
                        ELSE [key |-> "accent", used |-> 2]
    [] b[1] = "TAIL" -> [key |-> "noop", used |-> 1]
    [] OTHER -> [key |-> "letter", used |-> 1]

\* When the wait runs out nothing more is coming.
Silent(b) ==
  CASE b = <<"ESC">> -> [key |-> "esc", used |-> 1]
    [] b[1] = "CR" -> [key |-> "enter", used |-> 1]
    [] OTHER -> [key |-> "noop", used |-> Len(b)]

\* _fill: the next piece, of any length.
Arrive ==
  /\ wire # <<>>
  /\ \E n \in 1..Len(wire) :
       /\ buf' = buf \o SubSeq(wire, 1, n)
       /\ wire' = SubSeq(wire, n + 1, Len(wire))
  /\ UNCHANGED <<pressed, read, editorVars>>

\* read: what is pressed within the waits of the reader arrives within them.
Read ==
  /\ buf # <<>>
  /\ LET p == IF Parsed(buf).key = "wait" /\ wire = <<>> THEN Silent(buf) ELSE Parsed(buf)
     IN  /\ p.key # "wait"
         /\ read' = Append(read, p.key)
         /\ buf' = SubSeq(buf, p.used + 1, Len(buf))
  /\ UNCHANGED <<pressed, wire, editorVars>>

-----------------------------------------------------------------------------
Count == Len(fields)
Asking == outcome = "asking"
Still == UNCHANGED <<outcome, readerVars>>

\* Up and down wrap around, and take the error of the banner away.
Move ==
  /\ Asking /\ draft = NoDraft /\ Still /\ UNCHANGED <<fields, draft>>
  /\ cursor' \in {(cursor % Count) + 1, ((cursor + Count - 2) % Count) + 1, 1, Count}

\* Space opens a field: a secret is typed anew, another value is edited.
Open ==
  /\ Asking /\ draft = NoDraft /\ Still /\ UNCHANGED <<fields, cursor>>
  /\ draft' = IF fields[cursor].secret THEN "" ELSE fields[cursor].value

\* Letters, erasing and the interpreters that Tab goes through.
Type ==
  /\ Asking /\ draft # NoDraft /\ Still /\ UNCHANGED <<fields, cursor>>
  /\ draft' \in Verdicts

\* Enter keeps what was typed unless it is blank; Esc drops it.
Save ==
  /\ Asking /\ draft # NoDraft /\ Still /\ UNCHANGED cursor
  /\ draft' = NoDraft
  /\ \/ UNCHANGED fields
     \/ draft # "" /\ fields' = [fields EXCEPT ![cursor].value = draft]

\* Field.check over every field.
Wrong == {i \in 1..Count : fields[i].value # "good"}

Confirm ==
  /\ Asking /\ draft = NoDraft /\ UNCHANGED <<fields, readerVars>>
  /\ IF Wrong = {} THEN outcome' = "ok" /\ UNCHANGED <<cursor, draft>>
     ELSE LET first == CHOOSE i \in Wrong : \A j \in Wrong : i <= j
          IN  /\ cursor' = first /\ UNCHANGED outcome
              /\ draft' = IF fields[first].value = "" THEN "" ELSE NoDraft

Cancel ==
  /\ Asking /\ draft = NoDraft /\ outcome' = "cancelled"
  /\ UNCHANGED <<fields, cursor, draft, readerVars>>

ReaderNext == Arrive \/ Read
EditorNext == Move \/ Open \/ Type \/ Save \/ Confirm \/ Cancel
FormsNext == ReaderNext \/ EditorNext

-----------------------------------------------------------------------------
FormsTypeOK ==
  /\ pressed \in Streams /\ cursor \in 1..2 /\ draft \in Verdicts \cup {NoDraft}
  /\ fields \in Blanks
  /\ outcome \in {"asking", "ok", "cancelled"}

\* Whatever pieces the bytes of a remote terminal arrive in, the reader gives
\* back the keys that were pressed, no more and no fewer: no arrow cut in two
\* becomes the Esc that cancels, and no CRLF becomes a second Enter
\* (KeyReader.read, obhod_setup.py:603).
KeysAreWhole ==
  LET names == [i \in 1..Len(pressed) |-> Name[pressed[i]]]
  IN  IsPrefix(read, names) /\ (wire = <<>> /\ buf = <<>> => read = names)

\* The editor says yes only to fields that all pass their check, in whatever
\* order they were opened, left and typed over (FieldEditor.ask,
\* obhod_setup.py:1183).
ConfirmedIsValid == outcome = "ok" => \A i \in 1..Count : fields[i].value = "good"

\* A form takes the keys that were pressed and says yes to valid fields only.
FormsAreTrue == KeysAreWhole /\ ConfirmedIsValid

-----------------------------------------------------------------------------
(* The bootstrap of the bot (src/BOT/bootstrap.py): it pushes the tree and  *)
(* builds the environment, waits for the administrator to name himself, and *)
(* writes the configuration and starts the unit last.  It may be run again  *)
(* over what an earlier run left.  MaxRuns bounds how often.                *)
CONSTANTS MaxRuns

BootstrapConstants == MaxRuns \in Nat

VARIABLES
  boot,   \* the run: its step, the id it expects, the ids that came
  payload,   \* the files under the install directory
  venv,   \* its virtual environment
  admin,  \* ADMIN_ID of the configuration, 0 before there is one
  up,     \* what the service was last started on
  runs

bootVars == <<boot, payload, venv, admin, up, runs>>

Ids == 0..2
NoBoot == [step |-> "idle", want |-> 0, who |-> 0, asks |-> FALSE]
Trees == {"none", "part", "new"}

BootInit ==
  /\ boot = NoBoot /\ payload = "none" /\ venv = "none" /\ admin = 0 /\ up = "none" /\ runs = 0

BootAt(s) == boot.step = s
BootTo(s) == boot' = [boot EXCEPT !.step = s]

\* plan_from and validate; without a confirm callback the expected id stands
\* for the one that names himself.
Plan ==
  /\ BootAt("idle") /\ runs < MaxRuns /\ runs' = runs + 1
  /\ \E want \in Ids, asks \in BOOLEAN :
       boot' = [step |-> "push", want |-> want, who |-> IF asks THEN 0 ELSE want, asks |-> asks]
  /\ UNCHANGED <<payload, venv, admin, up>>

\* A variation: only the answer of the last script is looked at.
Skipping == {"deps", "idle"}

\* bootstrap stops at the first output whose code is not zero.
OnFailure == {"idle"}

\* push_files: tar overwrites the tree and may stop in the middle.
Push ==
  /\ BootAt("push") /\ UNCHANGED <<venv, admin, up, runs>>
  /\ \/ payload' = "new" /\ BootTo("deps")
     \/ payload' \in {payload, "part"} /\ \E s \in OnFailure : BootTo(s)

\* The dependencies: the old environment is removed before the new is built.
Deps ==
  /\ BootAt("deps") /\ UNCHANGED <<payload, admin, up, runs>>
  /\ \/ venv' = "new" /\ BootTo("confirm")
     \/ venv' \in {"none", "part"} /\ BootTo("idle")

\* The id that comes while the run waits for it.
AdminComes ==
  /\ BootAt("confirm") /\ boot.asks /\ boot.who = 0
  /\ \E who \in Ids \ {0} : boot' = [boot EXCEPT !.who = who]
  /\ UNCHANGED <<payload, venv, admin, up, runs>>

\* verify_admin.
Verified(who, want) == who > 0 /\ (want > 0 => who = want)

Verify ==
  /\ BootAt("confirm") /\ UNCHANGED <<payload, venv, admin, up, runs>>
  /\ BootTo(IF Verified(boot.who, boot.want) THEN "finalize" ELSE "idle")

\* The last script writes the configuration before it restarts the service.
Finalize ==
  /\ BootAt("finalize") /\ BootTo("idle") /\ UNCHANGED <<payload, venv, runs>>
  /\ \/ UNCHANGED <<admin, up>>
     \/ admin' = boot.who /\ up' \in {up, payload}

BootNext == Plan \/ Push \/ Deps \/ AdminComes \/ Verify \/ Finalize

-----------------------------------------------------------------------------
BootTypeOK ==
  /\ boot \in [step : {"idle", "push", "deps", "confirm", "finalize"}, want : Ids, who : Ids,
               asks : BOOLEAN]
  /\ payload \in Trees /\ venv \in Trees /\ admin \in Ids /\ up \in Trees /\ runs \in 0..MaxRuns

\* The service is started on a whole tree and a whole environment: a run
\* whose push or whose dependencies failed never comes to the unit.
StartsOnWholeTree == [][up' # up => payload = "new" /\ venv = "new"]_bootVars

\* The configuration names an administrator only after he named himself, and
\* never another than the one the run was started for (verify_admin,
\* bootstrap.py:46), whatever earlier runs left behind.
AdminNamedHimself ==
  [][admin' # admin => /\ admin' = boot.who /\ admin' > 0
                       /\ (boot.want > 0 => admin' = boot.want)]_bootVars

\* A run of the bootstrap, over whatever an earlier one left, configures the one
\* who named himself and starts a whole tree.
BootIsSound == AdminNamedHimself /\ StartsOnWholeTree
=============================================================================
