----------------------------- MODULE Deployment -----------------------------
(* How the bot comes to a host and stays current: the self-update of        *)
(* Updater and the lookups before it, the reinstall, the setup wizard with  *)
(* the install script, the bootstrap, and the keyboard of the wizard.  They *)
(* are run one at a time, by different hands, and share only files that     *)
(* each of them checks for itself: the first state picks one, and only that *)
(* one moves.                                                               *)
EXTENDS Updater

CONSTANTS MaxBack, MaxRuns, MaxKeys
CONSTANTS Tags, Plain, Lookers, OkTtl, FailTtl, Slow, FetchTtl, FetchSlow, MaxNews
CONSTANTS Scripts, Page, NoDigest, NoScreen, MaxQuirks

VARIABLES screen, plan, host, was, said, backs, disk, script
VARIABLES boot, payload, venv, admin, up, runs
VARIABLES pressed, wire, buf, read, fields, cursor, draft, outcome
VARIABLES latest, age, cached, body, etag, misled, looker, told
VARIABLES pushed, refs, refsLeft, fetch, refsAge, news
VARIABLES copies, published, record, shown, chore, fetchers, quirks
VARIABLE focus  \* what this behaviour is about

Wizard == INSTANCE Setup
News == INSTANCE Lookups

ASSUME DeploymentConstants ==
  /\ Wizard!SetupConstants /\ Wizard!BootstrapConstants /\ Wizard!FormsConstants
  /\ News!LookupConstants /\ ReinstallConstants /\ News!CacheConstants

wizardVars == <<screen, plan, host, was, said, backs, disk, script>>
bootVars == <<boot, payload, venv, admin, up, runs>>
readerVars == <<pressed, wire, buf, read>>
editorVars == <<fields, cursor, draft, outcome>>
newsVars == <<latest, age, cached, body, etag, misled, looker, told, pushed, refs,
              refsLeft, fetch, refsAge, news>>
buttonVars == <<home, reins, source, placed, extras, process, timer, sh, lines, sole,
                answer, confirms>>
cacheVars == <<copies, published, record, shown, chore, fetchers, quirks>>
deployVars == <<vars, wizardVars, bootVars, readerVars, editorVars,
                newsVars, buttonVars, cacheVars, focus>>

\* The variables of a part that is not looked at have one value.
DeployInit ==
  /\ focus \in {"updater", "wizard", "bootstrap", "reader", "editor", "release", "commit", "button",
               "cache"}
  /\ Init
  /\ focus # "updater" => head = CHOOSE c \in Commits \ Broken : TRUE
  /\ Wizard!SetupInit
  /\ focus # "wizard" => /\ host = [root |-> TRUE, tty |-> TRUE, from |-> "tree"]
                         /\ disk = Wizard!Fresh
  /\ Wizard!BootInit
  /\ Wizard!FormsStart(
       IF focus = "reader" THEN Wizard!Streams ELSE {<<"letter">>},
       IF focus = "editor" THEN Wizard!Blanks
       ELSE {[i \in 1..2 |-> [value |-> "", secret |-> FALSE]]})
  /\ News!LookInit
  /\ focus # "release" => latest = CHOOSE t \in Tags : TRUE
  /\ ReinstallInit
  /\ focus # "button" => home = "unit"
  /\ News!CacheInit
  /\ focus # "cache" => published = Page

DeployNext ==
  /\ UNCHANGED focus
  /\ \/ focus = "updater" /\ Next
        /\ UNCHANGED <<wizardVars, bootVars, readerVars, editorVars, newsVars, buttonVars, cacheVars>>
     \/ focus = "wizard" /\ Wizard!SetupNext
        /\ UNCHANGED <<vars, bootVars, readerVars, editorVars, newsVars, buttonVars, cacheVars>>
     \/ focus = "bootstrap" /\ Wizard!BootNext
        /\ UNCHANGED <<vars, wizardVars, readerVars, editorVars, newsVars, buttonVars, cacheVars>>
     \/ focus = "reader" /\ Wizard!ReaderNext
        /\ UNCHANGED <<vars, wizardVars, bootVars, editorVars, newsVars, buttonVars, cacheVars>>
     \/ focus = "release" /\ News!ReleaseNext
        /\ UNCHANGED <<vars, wizardVars, bootVars, readerVars, editorVars, buttonVars, cacheVars>>
     \/ focus = "commit" /\ News!CommitNext
        /\ UNCHANGED <<vars, wizardVars, bootVars, readerVars, editorVars, buttonVars, cacheVars>>
     \/ focus = "button" /\ ReinstallNext
        /\ UNCHANGED <<vars, wizardVars, bootVars, readerVars, editorVars, newsVars, cacheVars>>
     \/ focus = "editor" /\ Wizard!EditorNext
        /\ UNCHANGED <<vars, wizardVars, bootVars, readerVars, newsVars, buttonVars, cacheVars>>
     \/ focus = "cache" /\ News!CacheNext
        /\ UNCHANGED <<vars, wizardVars, bootVars, readerVars, editorVars, newsVars,
                       buttonVars>>

Deploy == DeployInit /\ [][DeployNext]_deployVars

-----------------------------------------------------------------------------
\* The shape of the state of every part.
AllTypeOK == TypeOK /\ Wizard!SetupTypeOK /\ Wizard!BootTypeOK /\ Wizard!FormsTypeOK
             /\ News!LookTypeOK /\ ReinstallTypeOK /\ News!CacheTypeOK

\* See Setup: what the wizard says is so, and nothing is lost unasked.
WizardIsTrue == Wizard!WizardIsTrue

\* See Setup: a run configures who named himself and starts a whole tree.
BootIsSound == Wizard!BootIsSound

\* See Setup: the keys are those pressed, and a yes is for valid fields.
FormsAreTrue == Wizard!FormsAreTrue

\* See Lookups: no release and no head of a branch is shown that is long gone.
NewsIsFresh == News!NewsIsFresh

\* See Lookups: a press writes the script that its screen listed, if that screen was
\* drawn from the last check.
FetchedIsConfirmed == News!FetchedIsConfirmed
=============================================================================
