------------------------------- MODULE Updater -------------------------------
(***************************************************************************)
(* The self-update of the bot (BOT/update.py): fetch, reset the checkout   *)
(* to the target, compile it, install its dependencies when they changed,  *)
(* write a marker, ask systemd for a restart; the restarted bot verifies   *)
(* the marker.  Every command can fail or reach its time limit, the bot    *)
(* can be restarted at any point, and the gate can give the action up.     *)
(* After it, the reinstall by the install script.                          *)
(***************************************************************************)
EXTENDS FiniteSets, Naturals

CONSTANTS
  Commits,   \* what the branch or the latest tag may point to
  Broken,    \* the commits that do not compile
  Reqs,      \* contents of requirements.txt
  NeedsOf,   \* the requirements.txt of each commit
  Mixed,     \* files, or packages, of no single commit
  Down,      \* the bot does not run
  MaxOrphans \* bound: commands that run on after their update was given up

ASSUME UpdaterConstants ==
  /\ Broken \subseteq Commits
  /\ NeedsOf \in [Commits -> Reqs]
  /\ Mixed \notin Commits \cup Reqs
  /\ Down \notin Commits \cup {Mixed}
  /\ MaxOrphans \in Nat

VARIABLES
  head,     \* the commit HEAD names
  tree,     \* whose files are in the source directory
  deps,     \* whose requirements are installed
  marker,   \* update.json: none, pending or verified, and its target
  queued,   \* systemd was asked to restart the bot
  live,     \* what the running process was started from
  pc,       \* the next step of the bot
  from,     \* before.commit
  target,   \* the commit to go to
  orphans,  \* commands whose update was given up and that run on
  alone,    \* history: no orphan ended since the update began
  reply     \* the result of the latest update

repo == <<head, tree, deps>>
vars == <<head, tree, deps, marker, queued, live, pc, from, target,
          orphans, alone, reply>>

Steps == {"idle", "fetch", "reset", "compile", "diff", "pip", "rollback", "mark",
          "restart", "verify"}
Orphan(cmd, to) == [cmd |-> cmd, to |-> to]
Marker(state, to) == [state |-> state, to |-> to]

TypeOK ==
  /\ head \in Commits
  /\ tree \in Commits \cup {Mixed}
  /\ deps \in Reqs \cup {Mixed}
  /\ marker \in [state : {"none", "pending", "healthy", "unhealthy"}, to : Commits]
  /\ queued \in BOOLEAN
  /\ live \in Commits \cup {Mixed, Down}
  /\ pc \in Steps
  /\ from \in Commits
  /\ target \in Commits
  /\ orphans \subseteq [cmd : {"reset", "pip"}, to : Commits]
  /\ alone \in BOOLEAN
  /\ reply \in {"none", "current", "failed", "rolled_back", "error", "ok"}

Init ==
  /\ head \in Commits \ Broken
  /\ tree = head
  /\ deps = NeedsOf[head]
  /\ marker = Marker("none", head)
  /\ queued = FALSE
  /\ live = head
  /\ pc = "idle"
  /\ from = head
  /\ target = head
  /\ orphans = {}
  /\ alone = TRUE
  /\ reply = "none"

Go(a, b) == pc = a /\ pc' = b /\ UNCHANGED reply
Answer(a, word) == pc = a /\ pc' = "idle" /\ reply' = word
job == <<from, target, orphans, alone>>
rest == <<marker, queued, live>>

-----------------------------------------------------------------------------
(* Updater.apply.                                                          *)

\* before.commit is what rev-parse says of HEAD, whatever the files are.
Before == head

Begin ==
  /\ live # Down
  /\ pc = "idle" /\ pc' = "fetch"
  /\ from' = Before
  /\ alone' = TRUE
  /\ reply' = "none"
  /\ UNCHANGED <<repo, rest, target, orphans>>

\* The fetch may fail, the target may not resolve, or be the commit in place.
Fetch ==
  /\ \/ Answer("fetch", "failed") /\ UNCHANGED target
     \/ Answer("fetch", "error") /\ UNCHANGED target
     \/ \E c \in Commits :
          /\ target' = c
          /\ IF c = from THEN Answer("fetch", "current") ELSE Go("fetch", "reset")
  /\ UNCHANGED <<repo, rest, from, orphans, alone>>

\* git reset --hard, which holds the lock of the index while it writes: what
\* it leaves when it is done, and when it fails or is killed.
IndexFree == \A o \in orphans : o.cmd # "reset"
ResetDone(c) == head' = c /\ tree' = c
ResetBroken == tree' \in {tree, Mixed} /\ UNCHANGED head

Reset ==
  /\ \/ IndexFree /\ Go("reset", "compile") /\ ResetDone(target)
     \/ Answer("reset", "error") /\ ResetBroken
  /\ UNCHANGED <<deps, rest, job>>

\* compileall says no to a broken tree, and may say no, or run out of time,
\* on any.
Compiles == tree \in Commits \ Broken

Compile ==
  /\ \/ Compiles /\ Go("compile", "diff")
     \/ Go("compile", "rollback")
     \/ Answer("compile", "error")
  /\ UNCHANGED <<repo, rest, job>>

\* A git diff that fails lists no file, so nothing is installed.
Diff ==
  /\ \/ NeedsOf[from] # NeedsOf[target] /\ Go("diff", "pip")
     \/ Go("diff", "mark")
     \/ Answer("diff", "error")
  /\ UNCHANGED <<repo, rest, job>>

Pip ==
  /\ \/ Go("pip", "mark") /\ deps' = NeedsOf[target]
     \/ (Go("pip", "rollback") \/ Answer("pip", "error")) /\ deps' \in {deps, Mixed}
  /\ UNCHANGED <<head, tree, rest, job>>

\* Both rollbacks reset the files; the packages stay as pip left them.
KeepTarget == target
RollbackTo == from

Rollback ==
  /\ \/ IndexFree /\ Answer("rollback", "rolled_back") /\ ResetDone(RollbackTo)
     \/ Answer("rollback", "error") /\ ResetBroken
  /\ UNCHANGED <<deps, rest, job>>

\* A marker that cannot be written is passed over in silence.
WriteMarker ==
  /\ Go("mark", "restart")
  /\ marker' \in {marker, Marker("pending", target)}
  /\ UNCHANGED <<repo, queued, live, job>>

AskRestart ==
  /\ \/ Answer("restart", "ok") /\ queued' \in {queued, TRUE}
     \/ Answer("restart", "error") /\ UNCHANGED queued
  /\ UNCHANGED <<repo, marker, live, job>>

\* The gate cancels the action after ACTION_TIMEOUT.  A command that runs is
\* left to itself.
Left == CASE pc = "reset"    -> {Orphan("reset", target)}
          [] pc = "rollback" -> {Orphan("reset", from)}
          [] pc = "pip"      -> {Orphan("pip", target)}
          [] OTHER           -> {}

Cancel ==
  /\ pc \notin {"idle", "verify"}
  /\ pc' = "idle"
  /\ \/ UNCHANGED orphans
     \/ IndexFree /\ orphans' = orphans \cup Left
  /\ Cardinality(orphans') <= MaxOrphans
  /\ UNCHANGED <<repo, rest, from, target, alone, reply>>

OrphanEnds(o) ==
  /\ orphans' = orphans \ {o}
  /\ alone' = FALSE
  /\ \/ o.cmd = "reset" /\ ResetDone(o.to) /\ UNCHANGED deps
     \/ o.cmd = "pip" /\ deps' \in {NeedsOf[o.to], Mixed} /\ UNCHANGED <<head, tree>>
  /\ UNCHANGED <<rest, pc, from, target, reply>>

-----------------------------------------------------------------------------
(* systemd and the start of the bot.                                       *)

\* The process group is killed, and what it was writing is half done.
Writing(cmd) == \E o \in orphans \cup Left : o.cmd = cmd

HalfDone ==
  /\ IF Writing("reset") THEN ResetBroken ELSE UNCHANGED <<head, tree>>
  /\ deps' \in IF Writing("pip") THEN {deps, Mixed} ELSE {deps}
  /\ orphans' = {}

\* The requested restart, a crash or a reboot.  A broken tree does not start.
StartBot ==
  /\ HalfDone
  /\ live' \in {Down} \cup ({tree'} \ Broken)
  /\ pc' = IF live' = Down THEN "idle" ELSE "verify"
  /\ queued' = FALSE
  /\ UNCHANGED <<marker, from, target, alone, reply>>

Verify ==
  /\ Go("verify", "idle")
  /\ \/ UNCHANGED marker
     \/ /\ marker.state = "pending"
        /\ \/ marker' = Marker("unhealthy", marker.to)
           \/ /\ head = marker.to /\ tree \notin Broken
              /\ marker' = Marker("healthy", marker.to)
  /\ UNCHANGED <<repo, queued, live, job>>

Next ==
  \/ Begin \/ Fetch \/ Reset \/ Compile \/ Diff \/ Pip \/ Rollback
  \/ WriteMarker \/ AskRestart
  \/ Cancel \/ \E o \in orphans : OrphanEnds(o)
  \/ StartBot \/ Verify

Spec == Init /\ [][Next]_vars

-----------------------------------------------------------------------------
(* Properties.                                                             *)

\* A restart is only asked for when the checkout is at the target and has
\* compiled, however earlier updates ended.
RestartOnlyCompiled ==
  [][~queued /\ queued' => head = target /\ tree = target /\ target \notin Broken]_vars

\* An update that answers without having succeeded, and without an error,
\* leaves HEAD at the commit it found, unless the reset of an earlier update
\* ends meanwhile.
FailureDoesNotMove ==
  [][alone /\ reply = "none" /\ reply' \in {"failed", "current", "rolled_back"}
       => head' = from]_vars

\* A pending marker never names a commit that was not compiled.
PendingHasCompiled == marker.state = "pending" => marker.to \notin Broken

\* An update asks for no restart and leaves no marker of a tree that was not
\* compiled, and one that answers that it has not updated leaves HEAD alone,
\* beside the resets and the restarts of others.  An update that ends with an
\* error or a time limit may stop between the reset and the rollback, with a
\* tree in place that does not compile: this is not judged (update.py:860-930).
UpdateIsSafe == RestartOnlyCompiled /\ FailureDoesNotMove /\ []PendingHasCompiled

-----------------------------------------------------------------------------
(* "Update now": the bot fetches get.sh, stages it, and has it run by a     *)
(* transient unit of systemd or, where that is refused, by a child of its   *)
(* own (BOT/update.py reinstall, BOT/app.py run_update).  get.sh copies a   *)
(* fresh tree to its own directory and runs the install script, of which    *)
(* only what touches the bot is kept here (module Setup has the rest).      *)
(*                                                                          *)
(* The bot may be run by its unit, by hand from the install (on a machine   *)
(* without systemd), or by hand from another tree.                          *)

CONSTANTS MaxReinstalls  \* bound: how often the button is confirmed

ReinstallConstants == MaxReinstalls \in Nat

VARIABLES
  home,     \* how the bot is run
  reins,    \* the next step of the bot
  source,   \* the tree get.sh keeps, /opt/obhod-src
  placed,   \* the tree of the install
  extras,   \* the env file holds lines beside the credentials
  process,  \* which tree the running bot was started from, or Off
  timer,    \* systemd was asked for a restart in RESTART_DELAY seconds
  sh,       \* the step of the script of each place it may run in
  lines,    \* what the script of the child has said
  sole,    \* history: no script given up before was at work when the child began
  answer,   \* what the button was answered, and whether the copy was called whole
  confirms  \* how often it was pressed

reinsVars == <<home, reins, source, placed, extras, process, timer, sh, lines, sole,
               answer, confirms>>

Where == {"unit", "child", "orphan"}  \* the orphan is a child whose action was given up
Ended == {"none", "done", "dead"}
Off == "off"
NoAnswer == [word |-> "none", copy_ok |-> FALSE]
Word(w) == [word |-> w, copy_ok |-> FALSE]
files == <<source, placed, extras>>
child == <<sh, lines, sole>>
system == <<home, process, timer>>

ReinstallInit ==
  /\ home \in {"unit", "bare", "apart"}
  /\ reins = "idle"
  /\ source = "old" /\ placed = "old" /\ extras = TRUE /\ process = "old"
  /\ timer = FALSE
  /\ sh = [w \in Where |-> "none"]
  /\ lines = {} /\ sole = TRUE
  /\ answer = NoAnswer
  /\ confirms = 0

On(s) == process # Off /\ reins = s
ToStep(s) == reins' = s /\ UNCHANGED answer
Reply(a) == reins' = "idle" /\ answer' = a

-----------------------------------------------------------------------------
(* The bot.                                                                *)

Confirmed ==
  /\ On("idle") /\ confirms < MaxReinstalls
  /\ confirms' = confirms + 1
  /\ reins' = "probe" /\ answer' = NoAnswer
  /\ UNCHANGED <<files, system, child>>

\* refresh_system only looks.  probe_reinstall: the write probe, the fetch of
\* get.sh, its staging and its parse may each refuse.
ProbeReinstall ==
  /\ On("probe")
  /\ ToStep("prepare") \/ Reply(Word("blocked"))
  /\ UNCHANGED <<files, system, child, confirms>>

BeginChild ==
  /\ sh' = [sh EXCEPT !["child"] = "terminal"]
  /\ lines' = {} /\ sole' = (sh["orphan"] \in Ended)
  /\ ToStep("child")

\* reinstall looks at all of it again.
Prepare ==
  /\ On("prepare")
  /\ \/ home = "unit" /\ ToStep("timer") /\ UNCHANGED child
     \/ home # "unit" /\ BeginChild
     \/ (\E w \in {"readonly", "error"} : Reply(Word(w))) /\ UNCHANGED child
  /\ UNCHANGED <<files, system, confirms>>

\* detached: the restart is queued first; whether it was is not looked at.
QueueRestart ==
  /\ On("timer")
  /\ \/ timer' \in {timer, TRUE} /\ ToStep("request")
     \/ timer' \in {timer, TRUE} /\ Reply(Word("error"))
  /\ UNCHANGED <<files, home, process, child, confirms>>

\* then the script, in a unit whose name may be taken.
RequestUnit ==
  /\ On("request")
  /\ \/ /\ sh["unit"] \in Ended
        /\ sh' = [sh EXCEPT !["unit"] = "terminal"]
        /\ Reply(Word("background")) /\ UNCHANGED <<lines, sole>>
     \/ BeginChild
     \/ Reply(Word("error")) /\ UNCHANGED child
  /\ UNCHANGED <<files, system, confirms>>

\* installer_report: a line that says "copied " counts as a copy before it is
\* asked whether it says "could not be copied".
CopyOk == lines \cap {"copied", "could not be copied"} # {} /\ "cp: " \notin lines

ChildEnds ==
  /\ On("child") /\ sh["child"] \in {"done", "dead"}
  /\ Reply(IF sh["child"] = "done" THEN Word("done")
           ELSE [word |-> "installer", copy_ok |-> CopyOk])
  /\ sh' = [sh EXCEPT !["child"] = "none"]
  /\ UNCHANGED <<files, system, lines, sole, confirms>>

\* The gate gives the action up after ACTION_TIMEOUT; a child goes on.
GiveUp ==
  /\ process # Off /\ reins # "idle"
  /\ reins' = "idle"
  /\ \/ reins # "child" /\ UNCHANGED sh
     \/ /\ reins = "child" /\ sh["orphan"] \in Ended
        /\ sh' = [sh EXCEPT !["orphan"] = sh["child"], !["child"] = "none"]
  /\ UNCHANGED <<files, system, lines, sole, answer, confirms>>

-----------------------------------------------------------------------------
(* get.sh and the install script.                                          *)

Here(w, s) == sh[w] = s
Then(w, s) == sh' = [sh EXCEPT ![w] = s]
Dead(w) == Then(w, "dead")
Says(w, s) == lines' = IF w = "child" THEN lines \cup s ELSE lines
bot == <<reins, answer, confirms, sole>>

\* Without credentials in its environment the script wants a terminal.  A child
\* has the environment of the bot; a transient unit has that of systemd.
Credentialed(w) == w # "unit"

Terminal(w) ==
  /\ Here(w, "terminal")
  /\ IF Credentialed(w) THEN Then(w, "fetch") ELSE Dead(w)
  /\ UNCHANGED <<files, system, bot, lines>>

FetchSource(w) ==
  /\ Here(w, "fetch")
  /\ Then(w, "sync") \/ Dead(w)
  /\ UNCHANGED <<files, system, bot, lines>>

\* A variation: a copy that is not whole goes on to the install.
InstallsAnyway == "env"

\* A copy that is not whole ends the script.
AfterPart == "dead"

\* heal_dest may refuse; else everything is copied, or some of it.
SyncSource(w) ==
  /\ Here(w, "sync")
  /\ \/ Dead(w) /\ UNCHANGED <<source, lines>>
     \/ source' = "new" /\ Says(w, {"copied"}) /\ Then(w, "env")
     \/ source' = "part" /\ Says(w, {"could not be copied"}) /\ Then(w, AfterPart)
  /\ UNCHANGED <<placed, extras, system, bot>>

\* write_env_file of get.sh writes the four credentials and nothing else.
WriteEnv(w) ==
  /\ Here(w, "env")
  /\ extras' = FALSE
  /\ Then(w, "environment")
  /\ UNCHANGED <<source, placed, system, bot, lines>>

\* cmd_install up to stop_before_rebuild.
CheckEnvironment(w) ==
  /\ Here(w, "environment")
  /\ Then(w, "stop") \/ Dead(w)
  /\ UNCHANGED <<files, system, bot, lines>>

\* stop_before_rebuild stops the unit, and with it every process of it, the
\* script included; kill_leftovers kills a bot that runs from the install, whose
\* end of the pipe the script then writes to.
StopBefore(w) ==
  /\ Here(w, "stop")
  /\ IF home = "apart"
     THEN Then(w, "payload") /\ UNCHANGED <<process, reins>>
     ELSE process' = Off /\ reins' = "idle" /\ sh' = [v \in Where |->
            IF v = "unit" \/ sh[v] = "none" THEN sh[v] ELSE "dead"]
  /\ UNCHANGED <<files, home, timer, answer, confirms, lines, sole>>

\* install_payload takes the old tree away before it copies; install_venv may fail.
PlaceTree(w) ==
  /\ Here(w, "payload")
  /\ \/ placed' = source /\ Then(w, "runtime") /\ UNCHANGED lines
     \/ placed' = "none" /\ Says(w, {"cp: "}) /\ Dead(w)
  /\ UNCHANGED <<source, extras, system, bot>>

\* The rest of cmd_install; without systemd nothing is started.
FinishInstall(w) ==
  /\ Here(w, "runtime")
  /\ Then(w, "done") \/ Dead(w)
  /\ UNCHANGED <<files, system, bot, lines>>

-----------------------------------------------------------------------------
(* systemd.                                                                *)

\* A restart, by the timer or after a crash, kills every process of the unit.
RestartUnit ==
  /\ home = "unit" /\ timer' = FALSE
  /\ timer \/ process # Off
  /\ process' = IF placed = "none" THEN Off ELSE placed
  /\ reins' = "idle"
  /\ sh' = [w \in Where |-> IF w = "unit" \/ sh[w] = "none" THEN sh[w] ELSE "dead"]
  /\ UNCHANGED <<files, home, lines, sole, answer, confirms>>

\* Somebody starts it again.
StartedByHand ==
  /\ process = Off /\ placed # "none"
  /\ process' = placed /\ reins' = "idle"
  /\ UNCHANGED <<files, home, timer, child, answer, confirms>>

ReinstallNext ==
  \/ Confirmed \/ ProbeReinstall \/ Prepare \/ QueueRestart \/ RequestUnit
  \/ ChildEnds \/ GiveUp \/ RestartUnit \/ StartedByHand
  \/ \E w \in Where : \/ Terminal(w) \/ FetchSource(w) \/ SyncSource(w) \/ WriteEnv(w)
                      \/ CheckEnvironment(w) \/ StopBefore(w) \/ PlaceTree(w)
                      \/ FinishInstall(w)

-----------------------------------------------------------------------------
(* Properties.                                                             *)

ReinstallTypeOK ==
  /\ reins \in {"idle", "probe", "prepare", "timer", "request", "child"}
  /\ source \in {"old", "part", "new"} /\ placed \in {"none", "old", "part", "new"}
  /\ process \in {"old", "part", "new", Off}
  /\ sh["unit"] \in {"none", "terminal", "dead"}
  /\ confirms \in 0..MaxReinstalls

\* A reinstall that answers with the output of a script that ended well has put a
\* whole tree in place, and one that fails but says that the fresh tree is there
\* has copied all of it, unless the script told that some paths could not be
\* (update.py:721 reinstall, update.py:293 installer_report, get.sh:392).  Not when
\* a script given up before was still at work as this one began: the two write the
\* same trees.
DoneIsInstalled ==
  [][/\ answer.word # "done" /\ answer'.word = "done" /\ sole
          => source = "new" /\ placed = "new"
     /\ ~answer.copy_ok /\ answer'.copy_ok /\ sole
          => source = "new" \/ "could not be copied" \in lines]_reinsVars
=============================================================================
