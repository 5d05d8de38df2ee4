---------------------------- MODULE NotifyCentre ----------------------------
(***************************************************************************)
(* The notifications of the bot: the poller of BOT/app.py asks the agents, *)
(* the centre of BOT/notify.py decides which event the owner hears of, and *)
(* the debug screen switches the kinds.  An event is a kind with an        *)
(* address.  The honeypot and the anti flood agent answer in a dialect     *)
(* that the client of the bot refuses, so their questions always fail and  *)
(* only bans raise events.  Times are ages in ticks, counted as far as     *)
(* anything looks.                                                         *)
(***************************************************************************)
EXTENDS Integers, Sequences, FiniteSets, Functions, FiniteSetsExt, SequencesExt

CONSTANTS
    Sources,    \* the addresses that touch the host
    Cooldown,   \* COOLDOWN: the quiet after an event of the kind
    Around,     \* PER_IP: the quiet after an event of the kind and address
    SeenMost,   \* MAX_TRACKED * 4, above which the table of events is trimmed
    SeenKept,   \* MAX_TRACKED * 2, to which
    BansMost, BansKept,  \* the same of the announced bans: 4096 and 2048
    MaxFlips    \* bound of the model: switches, restarts and mutings

\* The kinds that arise: a ban of the jail of ssh and of any other jail.
Kinds == {"ssh", "fail2ban"}

\* The longest quiet, and how many events of a kind the cooldown lets through in it:
\* 2 and 6 in the code, which keeps 1024.
Widest == Max({Around[k] : k \in Kinds} \cup {Cooldown[k] : k \in Kinds})
Within(k) == (Widest - 1) \div Cooldown[k] + 1

NotifyConstants ==
    /\ Cooldown \in [Kinds -> Nat \ {0}] /\ Around \in [Kinds -> Nat \ {0}]
    /\ SeenKept \in Nat /\ SeenMost \in Nat /\ SeenKept <= SeenMost
    /\ Within("ssh") + Within("fail2ban") <= SeenKept
    /\ BansKept \in Nat /\ BansMost \in Nat /\ BansKept <= BansMost

VARIABLES
    switch,     \* which kinds the centre of the poller has on
    screen,     \* which kinds the centre of the debug screen has on
    kept,       \* which kinds the state file has on
    seen,       \* age of each event the centre remembers
    source,     \* age of the last event of each kind
    announced,  \* the bans of each kind the poller has taken for told
    raised,     \* the events of this poll
    stage,      \* how far the poll is
    since,      \* history: age of the last event of each kind and address
    repeated,   \* history: was an event raised too soon after itself?
    flips

notifyVars == <<switch, screen, kept, seen, source, announced, raised, stage,
                since, repeated, flips>>
switchVars == <<switch, screen, kept, flips>>
centreVars == <<seen, source, since, repeated, raised>>

Events == Kinds \X Sources
On == [k \in Kinds |-> TRUE]
Stages == <<"honeypot", "ssh", "fail2ban", "ddos", "send">>

NotifyInit ==
    /\ switch = On /\ screen = On /\ kept = On
    /\ seen = << >> /\ source = [k \in Kinds |-> Widest]
    /\ announced = [k \in Kinds |-> {}]
    /\ raised = {} /\ stage = "honeypot"
    /\ since = [e \in Events |-> Widest] /\ repeated = FALSE
    /\ flips = 0

\* deliver: the switch, the cooldown of the kind, the quiet of the address.
Quiet(e) == e \in DOMAIN seen /\ seen[e] < Around[e[1]]
Hearable(k, from) ==
    IF ~switch[k] \/ source[k] < Cooldown[k] THEN {}
    ELSE {e \in {k} \X from : ~Quiet(e)}

Younger(table, s) == \A in \in s, out \in DOMAIN table \ s : table[in] <= table[out]

\* A variation: the oldest entries stay.
TrimsYoungest(table) ==
    IF Cardinality(DOMAIN table) <= SeenMost THEN {DOMAIN table}
    ELSE {s \in kSubset(SeenKept, DOMAIN table) :
            \A in \in s, out \in DOMAIN table \ s : table[in] >= table[out]}

\* The table above its limit keeps its youngest entries; entries of one age
\* go in any order.
Trims(table) ==
    IF Cardinality(DOMAIN table) <= SeenMost THEN {DOMAIN table}
    ELSE {s \in kSubset(SeenKept, DOMAIN table) : Younger(table, s)}

\* The first address that may be heard of is; the cooldown then silences the
\* rest of the kind.
Raise(k, from) ==
    \/ /\ Hearable(k, from) = {}
       /\ UNCHANGED centreVars
    \/ \E e \in Hearable(k, from) :
          LET table == [x \in DOMAIN seen \cup {e} |-> IF x = e THEN 0 ELSE seen[x]]
          IN  /\ \E s \in Trims(table) : seen' = Restrict(table, s)
              /\ source' = [source EXCEPT ![k] = 0]
              /\ raised' = raised \cup {e}
              /\ repeated' = (repeated \/ since[e] < Around[k])
              /\ since' = [since EXCEPT ![e] = 0]

\* The steps of a poll.  The bans are one answer: without it both are
\* passed over.
After(at) == Stages[1 + CHOOSE i \in 1..4 : Stages[i] = at]
PollFails ==
    /\ stage \in {"honeypot", "ssh", "ddos"}
    /\ stage' = IF stage = "ssh" THEN "ddos" ELSE After(stage)
    /\ UNCHANGED <<switchVars, centreVars, announced>>

\* A ban counts as told before anything decides whether it is; a table above
\* its limit loses any of its entries.
PollBans(k, from) ==
    /\ stage = k /\ stage' = After(k)
    /\ Raise(k, from \ announced[k])
    /\ LET all == announced[k] \cup from
       IN  \E s \in IF Cardinality(all) > BansMost THEN kSubset(BansKept, all) ELSE {all} :
              announced' = [announced EXCEPT ![k] = s]
    /\ UNCHANGED switchVars

\* The messages go out; one that fails is not tried again.
Send ==
    /\ stage = "send"
    /\ stage' = "honeypot" /\ raised' = {}
    /\ UNCHANGED <<switchVars, seen, source, since, repeated, announced>>

\* Buttons of the debug screen: its centre is one of its own, made before the
\* poller's; both read the same state file.
Flip ==
    /\ flips < MaxFlips /\ flips' = flips + 1
    /\ \/ \E k \in Kinds : screen' = [screen EXCEPT ![k] = ~@]
       \/ \E value \in BOOLEAN : screen' = [k \in Kinds |-> value]
    /\ kept' = screen'
    /\ UNCHANGED <<switch, centreVars, announced, stage>>

\* The bot starts again: only the settings were kept.
RestartCentre ==
    /\ flips < MaxFlips /\ flips' = flips + 1
    /\ switch' = kept /\ screen' = kept
    /\ seen' = << >> /\ source' = [k \in Kinds |-> Widest]
    /\ announced' = [k \in Kinds |-> {}] /\ raised' = {} /\ stage' = "honeypot"
    /\ since' = [e \in Events |-> Widest]
    /\ UNCHANGED <<kept, repeated>>

Older(age) == IF age < Widest THEN age + 1 ELSE Widest
Tick ==
    /\ seen' = [e \in DOMAIN seen |-> Older(seen[e])]
    /\ source' = [k \in Kinds |-> Older(source[k])]
    /\ since' = [e \in Events |-> Older(since[e])]
    /\ UNCHANGED <<switchVars, announced, raised, stage, repeated>>

NotifyNext ==
    \/ \E k \in Kinds, from \in SUBSET Sources : PollBans(k, from)
    \/ PollFails \/ Send \/ Flip \/ RestartCentre \/ Tick

NotifyTypeOK ==
    /\ \A s \in {switch, screen, kept} : s \in [Kinds -> BOOLEAN]
    /\ DOMAIN seen \subseteq Events /\ \A e \in DOMAIN seen : seen[e] \in 0..Widest
    /\ source \in [Kinds -> 0..Widest] /\ since \in [Events -> 0..Widest]
    /\ announced \in [Kinds -> SUBSET Sources]
    /\ raised \subseteq Events /\ stage \in Range(Stages)
    /\ repeated \in BOOLEAN /\ flips \in 0..MaxFlips

\* In one life of the bot an address is not reported twice for the same thing
\* within the quiet time of the kind, although bans come and go, those already
\* told are forgotten when their table is full, and the table of events is
\* cut when it is full: what is cut is older than every quiet time, because
\* the cooldowns let no more events through in one than the cut leaves
\* (notify.py:227 Centre.deliver).
NoRepeat == ~repeated

===============================================================================
