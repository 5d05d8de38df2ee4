----------------------------- MODULE InlineValues -----------------------------
(***************************************************************************)
(* Values that are typed or picked in the inline mode (BOT/inline.py) and  *)
(* how the bot takes them (BOT/app.py).  A button of a screen carries a    *)
(* token, which names a field and the thing it belongs to; the registry of *)
(* the tokens and the secret they are made with live in the process.  One  *)
(* pick may reach the bot twice, as a marker message and as a chosen       *)
(* result, in either order and as late as Telegram likes.                  *)
(*                                                                         *)
(* A token is a record of what it is made from: the digest has 50 bits and *)
(* a clash is left out.  A typed value that fits travels as it is; "long"  *)
(* is the value over MAX_VALUE, which clean_value() refuses.               *)
(***************************************************************************)
EXTENDS Integers, Sequences, FiniteSets, SequencesExt

CONSTANTS
    Fields,       \* the fields of FIELDS
    Things,       \* what a field may belong to: an inbound, or nothing
    Ready,      \* OPTIONS: the ready values of a field, maybe none
    Typed,        \* values that are typed
    MaxRegistry,  \* MAX_REGISTRY
    Twice,        \* INLINE_DUPLICATE_WINDOW
    MaxPicks,     \* bound: the articles that are sent; nobody asks after the last
    MaxBoots      \* bound: the restarts of the bot

InlineConstants ==
    /\ Ready \in [Fields -> Seq(Typed \ {"long"})]
    /\ MaxRegistry \in Nat \ {0}
    /\ Twice \in Nat \ {0}
    /\ MaxPicks \in Nat /\ MaxBoots \in Nat

VARIABLES
    secret,    \* which process made the tokens that resolve
    registry,  \* _REGISTRY, oldest first
    buttons,   \* the tokens of the screens in the chat
    articles,  \* what the last query was answered with
    sent,      \* deliveries on their way to the bot
    recent,    \* inline_seen: the stamps of what was applied, with the time they are kept
    tally,     \* history: how often each pick was applied
    age        \* history: the time since a pick was applied first, up to Twice

inlineVars == <<secret, registry, buttons, articles, sent, recent, tally, age>>

Modes == {"input", "list"}
Tokens == [mode: Modes, field: Fields, thing: Things, secret: 0..MaxBoots]
Token(mode, f, c) == [mode |-> mode, field |-> f, thing |-> c, secret |-> secret]

InlineInit ==
    /\ secret = 0
    /\ registry = << >>
    /\ buttons = {} /\ articles = {} /\ sent = {}
    /\ recent = {}
    /\ tally = << >>
    /\ age = << >>

-----------------------------------------------------------------------------
(* The registry.                                                           *)

\* token_for: a token that is there keeps its place; the oldest ones go.
Issue(reg, t) ==
    LET all == IF t \in Range(reg) THEN reg ELSE Append(reg, t)
    IN SubSeq(all, Len(all) - (IF Len(all) > MaxRegistry THEN MaxRegistry ELSE Len(all)) + 1,
              Len(all))

Resolves(t) == t \in Range(registry)

\* input_row: the button to type and, where there are ready values, the list.
RowOf(f) == IF Ready[f] = << >> THEN {"input"} ELSE Modes

Show(f, c) ==
    /\ LET typing == Issue(registry, Token("input", f, c))
       IN registry' = IF "list" \in RowOf(f) THEN Issue(typing, Token("list", f, c)) ELSE typing
    /\ buttons' = buttons \cup {Token(mode, f, c) : mode \in RowOf(f)}
    /\ UNCHANGED <<secret, articles, sent, recent, tally, age>>

-----------------------------------------------------------------------------
(* The answer to a query: articles, each with what its two deliveries say. *)

\* The value is in the query and in the message, an option is an index in both.
Input(t, v) == [kind |-> "input", token |-> t, index |-> 0, value |-> v]
Option(t, i) == [kind |-> "option", token |-> t, index |-> i, value |-> "none"]

\* The article of an unknown token; its message carries no payload.
Stale(t, v) == [kind |-> "stale", token |-> t, index |-> 0, value |-> v]

Articles(t, v) ==
    IF ~Resolves(t) THEN {Stale(t, v)}
    ELSE IF v # "none" THEN {Input(t, v)}
    ELSE IF t.mode = "list"
         THEN {Option(t, i) : i \in DOMAIN Ready[t.field]}
                  \cup {Input(Token("input", t.field, t.thing), v)}
    ELSE {Input(t, v)}

\* results_for: the head of a list issues the token to type with.
Query(t, v) ==
    /\ t \in buttons
    /\ Len(tally) < MaxPicks
    /\ articles' = Articles(t, v)
    /\ registry' = IF Resolves(t) /\ t.mode = "list" /\ v = "none"
                   THEN Issue(registry, Token("input", t.field, t.thing)) ELSE registry
    /\ UNCHANGED <<secret, buttons, sent, recent, tally, age>>

\* The person sends an article.  The feedback on chosen results is a setting of
\* the bot in Telegram.
Pick(a) ==
    /\ a \in articles
    /\ Len(tally) < MaxPicks
    /\ \E ways \in (SUBSET {"chosen", "marker"}) \ {{}} :
           sent' = sent \cup {[way |-> w, pick |-> Len(tally) + 1, what |-> a] : w \in ways}
    /\ tally' = Append(tally, 0)
    /\ age' = Append(age, 0)
    /\ articles' = {}
    /\ UNCHANGED <<secret, registry, buttons, recent>>

-----------------------------------------------------------------------------
(* The deliveries.                                                         *)

\* value_for and value_from_payload.
ValueOf(a) == IF a.kind = "option" THEN Ready[a.token.field][a.index] ELSE a.value

\* What recent_inline() compares.
Stamp(a) == <<a.token.field, a.token.thing, ValueOf(a)>>

Recent(d) == \E r \in recent : r.stamp = Stamp(d.what)

\* apply_inline_value: the stamp is kept whether or not the panel takes the value.
ApplyInline(d) ==
    IF Recent(d) THEN UNCHANGED <<recent, tally, age>>
    ELSE /\ recent' = recent \cup {[stamp |-> Stamp(d.what), left |-> Twice]}
         /\ tally' = [tally EXCEPT ![d.pick] = @ + 1]
         /\ age' = [age EXCEPT ![d.pick] = 0]

Acceptable(d) ==
    /\ Resolves(d.what.token) /\ d.what.value # "long"
    /\ d.way = "marker" => d.what.kind # "stale"

\* A refusal leaves no trace here.
Take(d) ==
    /\ sent' = sent \ {d}
    /\ \/ Acceptable(d) /\ ApplyInline(d)
       \/ UNCHANGED <<recent, tally, age>>
    /\ UNCHANGED <<secret, registry, buttons, articles>>

\* on_chosen: a result over the budget is dropped, one with an unknown token or
\* a refused value is only logged; nothing asks whether the bot is busy, nor
\* whether the article was the stale one.
TakeChosen(d) == d \in sent /\ d.way = "chosen" /\ Take(d)

\* on_marker: the message is deleted first, whatever it says; a message over the
\* budget is dropped, and a busy bot, an unknown token and a refused value are
\* answered with an error.
TakeMarker(d) == d \in sent /\ d.way = "marker" /\ Take(d)

Older(r) == [r EXCEPT !.left = @ - 1]

\* Time passes.  A stamp leaves when its window is over.
InlineTick ==
    /\ \E i \in DOMAIN tally : tally[i] > 0 /\ age[i] < Twice
    /\ recent' = {Older(r) : r \in {q \in recent : q.left > 1}}
    /\ age' = [i \in DOMAIN age |-> IF tally[i] > 0 /\ age[i] < Twice THEN age[i] + 1
                                    ELSE age[i]]
    /\ UNCHANGED <<secret, registry, buttons, articles, sent, tally>>

\* A variation: a new process makes the tokens the old one made.
KeptSecret == secret

\* A process takes a secret of its own; configure() is called by nobody.
NewSecret == secret + 1

\* What was sent meanwhile is delivered to the new process.
Reboot ==
    /\ secret < MaxBoots
    /\ secret' = NewSecret
    /\ registry' = << >>
    /\ recent' = {}
    /\ articles' = {}
    /\ UNCHANGED <<buttons, sent, tally, age>>

InlineNext ==
    \/ \E f \in Fields, c \in Things : Show(f, c)
    \/ \E t \in buttons, v \in Typed \cup {"none"} : Query(t, v)
    \/ \E a \in articles : Pick(a)
    \/ \E d \in sent : TakeChosen(d) \/ TakeMarker(d)
    \/ InlineTick \/ Reboot

-----------------------------------------------------------------------------

InlineTypeOK ==
    /\ secret \in 0..MaxBoots
    /\ registry \in Seq(Tokens) /\ Len(registry) <= MaxRegistry /\ IsInjective(registry)
    /\ buttons \subseteq Tokens
    /\ \A d \in sent : d.way \in {"chosen", "marker"} /\ d.pick \in DOMAIN tally
    /\ \A r \in recent : r.left \in 1..Twice
    /\ \A i \in DOMAIN tally : age[i] \in 0..Twice

\* One pick takes effect once, however its two deliveries and a restart between
\* them fall, unless the second one comes when the window of the first is over
\* (app.py:624 apply_inline_value; app.py:36; tests/test_app.py:274).
AppliedOnce ==
    [][\A i \in DOMAIN tally : tally[i] > 0 /\ age[i] < Twice => tally'[i] = tally[i]]_inlineVars
===============================================================================
