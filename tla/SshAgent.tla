------------------------------- MODULE SshAgent -------------------------------
(***************************************************************************)
(* The ssh agent (Storage/remote/ssh_agent.py) and the handlers of the bot *)
(* that call it (app.harden, app.add_key, app.sshd_action).                *)
(*                                                                         *)
(* The agent writes one drop-in file for sshd, tests it, puts the previous *)
(* one back if sshd refuses it, and restarts sshd; it adds public keys to  *)
(* the account of the administrator and refuses to switch password login   *)
(* off while that account has no key.  A call can be killed between any    *)
(* two of its steps.  sshd and the administrator's own editing of the      *)
(* main file and of the key files are external.                            *)
(***************************************************************************)
EXTENDS FiniteSets

CONSTANTS
    Ports,      \* the ports the bot can ask for
    Keys,       \* public keys, told apart by type and body
    Port22,     \* the port of an sshd that is told none
    BadText,    \* a text that is no public key
    NoPort, NoFile, Down

ASSUME SshConstants ==
    NoPort \notin Ports /\ Port22 \notin Ports /\ NoPort # Port22 /\ BadText \notin Keys

VARIABLES
    main,       \* sshd_config: its port, password and root options
    mainOk,     \* whether sshd accepts sshd_config
    dropin,     \* 00-obhod.conf
    live,       \* the options sshd was started with
    keys,       \* authorized_keys of both accounts
    home,       \* some account under /home has a .ssh folder
    step,       \* the next step of the agent
    ask,        \* the options of its apply, or of the bot's harden
    newKey,     \* the text of its add_key
    was,        \* the content of the drop-in apply() read before its write
    revoked,    \* history: keys went since an agent on its way to switch password off saw some
    answer      \* the last answer

files == <<dropin, live, keys>>
admin == <<main, mainOk, home>>
call == <<ask, newKey, was>>
sshVars == <<files, admin, call, step, answer, revoked>>

Options == [port: Ports \cup {NoPort}, password: {"yes", "no", ""}, root: {"yes", "no", ""}]
Accounts == {"user", "root"}
NoOption == [port |-> NoPort, password |-> "", root |-> ""]

\* sshd takes the first value of an option, and the drop-in comes first; ports
\* add up over the files.
Effective(d) ==
    LET o == IF d = NoFile THEN NoOption ELSE d
        given == {main.port, o.port} \ {NoPort} IN
    [ports |-> IF given = {} THEN {Port22} ELSE given,
     password |-> IF o.password = "" THEN main.password ELSE o.password,
     root |-> IF o.root = "" THEN main.root ELSE o.root]

Runs == {Down} \cup [ports: SUBSET (Ports \cup {Port22}), password: {"yes", "no"}, root: {"yes", "no"}]

SshInit ==
    /\ main \in [port: {NoPort, Port22}, password: {"yes"}, root: {"yes"}]
    /\ mainOk = TRUE
    /\ dropin = NoFile
    /\ live = Effective(NoFile)
    /\ keys \in [Accounts -> {{}} \cup {{k} : k \in Keys}]
    /\ home \in BOOLEAN
    /\ step = "idle"
    /\ ask = NoOption
    /\ newKey = BadText
    /\ was = NoFile
    /\ revoked = FALSE
    /\ answer = "none"

\* authorized_key_owner: the first account under /home with a .ssh folder.
Owner == IF home THEN "user" ELSE "root"

\* clean_public_key: one line, a type and a body.
Clean(text) == text \in Keys

\* key_identity, key_list: a key is known by its type and body.
Known(text) == text \in keys[Owner]

\* status reads the main file, not the drop-in, and the keys of the owner.
Told == [ports |-> Effective(NoFile).ports, password |-> main.password,
         root |-> main.root, keys |-> keys[Owner]]

Go(from, to) == step = from /\ step' = to /\ UNCHANGED answer
Answer(from, word) == step = from /\ step' = "idle" /\ answer' = word

-----------------------------------------------------------------------------
(* The bot.                                                                *)

\* harden: one option at a time; before password login is switched off the bot
\* asks the agent for the keys.
Harden(o) ==
    /\ o # NoOption
    /\ Cardinality({f \in {"port", "password", "root"} : o[f] # NoOption[f]}) = 1
    /\ step = "idle"
    /\ step' = IF o.password = "no" THEN "look" ELSE "keys"
    /\ ask' = o
    /\ answer' = "none"
    /\ UNCHANGED <<files, admin, newKey, was, revoked>>

\* The answer of status: without a key the bot goes no further.
Look ==
    /\ \/ Told.keys # {} /\ Go("look", "keys")
       \/ Told.keys = {} /\ Answer("look", "blocked")
       \/ Answer("look", "failed")
    /\ UNCHANGED <<files, admin, call, revoked>>

AddKey(text) ==
    /\ step = "idle"
    /\ step' = "append"
    /\ newKey' = text
    /\ answer' = "none"
    /\ UNCHANGED <<files, admin, ask, was, revoked>>

\* remove_dropin: without a drop-in sshd is left alone.
Remove ==
    /\ step = "idle"
    /\ IF dropin = NoFile THEN UNCHANGED <<step, answer, dropin>>
                          ELSE /\ dropin' = NoFile
                               /\ step' = "restart"
                               /\ answer' = "none"
    /\ ask' = NoOption
    /\ UNCHANGED <<live, keys, admin, newKey, was, revoked>>

-----------------------------------------------------------------------------
(* apply.                                                                  *)

Seen == revoked' = (revoked /\ ask.password # "no")

\* A variation: apply() trusts the check the bot has made.
KeysTrusted ==
    /\ Go("keys", "read") /\ Seen
    /\ UNCHANGED <<files, admin, call>>

\* Password login stays while the account has no key.
CheckKeys ==
    /\ \/ (ask.password = "no" => keys[Owner] # {}) /\ Go("keys", "read") /\ Seen
       \/ ask.password = "no" /\ keys[Owner] = {} /\ Answer("keys", "no_keys") /\ UNCHANGED revoked
    /\ UNCHANGED <<files, admin, call>>

\* The previous content is kept, and write_dropin() truncates the file.
ReadPrevious ==
    /\ Go("read", "write")
    /\ was' = dropin
    /\ dropin' = NoOption
    /\ UNCHANGED <<live, keys, admin, ask, newKey, revoked>>

\* Only the options of this call are written.
Write ==
    /\ Go("write", "test")
    /\ dropin' = ask
    /\ UNCHANGED <<live, keys, admin, call, revoked>>

\* sshd -t reads all the files, and the lines of the bot are always valid.
Test ==
    /\ \/ mainOk /\ Go("test", "restart")
       \/ ~mainOk /\ Go("test", "restore")
    /\ UNCHANGED <<files, admin, call, revoked>>

\* An empty file is not told from none.
Restore ==
    /\ Answer("restore", "config_invalid")
    /\ dropin' = IF was \in {NoFile, NoOption} THEN NoFile ELSE was
    /\ UNCHANGED <<live, keys, admin, call, revoked>>

Started == IF mainOk THEN Effective(dropin) ELSE Down

\* The units ssh and sshd are tried in turn; when neither restarts, sshd runs
\* as before, is down, or comes up after all.
RestartSshd ==
    /\ \/ mainOk /\ Answer("restart", "ok") /\ live' = Started
       \/ Answer("restart", "start_failed") /\ live' \in {live, Down, Started}
    /\ UNCHANGED <<dropin, keys, admin, call, revoked>>

-----------------------------------------------------------------------------
(* add_key.                                                                *)

\* A bad text and a key file that is a link are refused, a known key is not
\* repeated, and the call may fail after the line was written.
AppendKey ==
    /\ \/ Answer("append", "bad_arg") /\ UNCHANGED keys
       \/ Clean(newKey) /\ Known(newKey) /\ Answer("append", "ok") /\ UNCHANGED keys
       \/ /\ Clean(newKey) /\ ~Known(newKey)
          /\ Answer("append", "ok") \/ Answer("append", "failed")
          /\ keys' = [keys EXCEPT ![Owner] = @ \cup {newKey}]
    /\ UNCHANGED <<dropin, live, admin, call, revoked>>

-----------------------------------------------------------------------------
(* Kills, reboots and the administrator.                                   *)

\* The time limit of the bot, or an exception of the agent.
Kill == step # "idle" /\ Answer(step, "failed") /\ UNCHANGED <<files, admin, call, revoked>>

RestartHost ==
    /\ step' = "idle"
    /\ answer' = "none"
    /\ live' = Started
    /\ UNCHANGED <<dropin, keys, admin, call, revoked>>

EditMain ==
    /\ mainOk' \in BOOLEAN
    /\ UNCHANGED <<files, call, main, home, step, answer, revoked>>

\* Keys may be taken away at any moment, between the steps of the agent as well.
Revoke(u) ==
    /\ keys[u] # {}
    /\ keys' = [keys EXCEPT ![u] = {}]
    /\ revoked' = TRUE
    /\ UNCHANGED <<dropin, live, admin, call, step, answer>>

NewAccount == home' = TRUE /\ UNCHANGED <<files, main, mainOk, call, step, answer, revoked>>

Bot == (\E o \in Options : Harden(o)) \/ (\E k \in Keys \cup {BadText} : AddKey(k)) \/ Remove

Agent == Look \/ CheckKeys \/ ReadPrevious \/ Write \/ Test \/ Restore
            \/ RestartSshd \/ AppendKey \/ Kill

Outside == RestartHost \/ EditMain \/ (\E u \in Accounts : Revoke(u)) \/ NewAccount

SshNext == Bot \/ Agent \/ Outside

SshSpec == SshInit /\ [][SshNext]_sshVars

-----------------------------------------------------------------------------
(* Properties.                                                             *)

SshTypeOK ==
    /\ main \in [port: {NoPort, Port22}, password: {"yes", "no"}, root: {"yes", "no"}]
    /\ mainOk \in BOOLEAN /\ home \in BOOLEAN
    /\ dropin \in Options \cup {NoFile} /\ was \in Options \cup {NoFile}
    /\ revoked \in BOOLEAN
    /\ live \in Runs
    /\ keys \in [Accounts -> SUBSET Keys]
    /\ step \in {"idle", "look", "keys", "read", "write", "test", "restore",
                 "restart", "append"}
    /\ ask \in Options
    /\ newKey \in Keys \cup {BadText}
    /\ answer \in {"none", "ok", "blocked", "failed", "no_keys", "config_invalid",
                   "start_failed", "bad_arg"}

\* Nobody is locked out by the bot: where password login is off and no account
\* has a key, keys were taken away after the last agent that was to switch it
\* off had seen some, be it between that look and its restart of sshd or later.
\* The look the bot takes before may be as stale as it likes, and calls may be
\* killed and the host rebooted anywhere (README.md:206; ssh_agent.py:246).
KeyBehindNoPassword ==
    live # Down /\ live.password = "no" /\ ~revoked => \E u \in Accounts : keys[u] # {}

===============================================================================
